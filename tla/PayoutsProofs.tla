---------------------------- MODULE PayoutsProofs ----------------------------
(***************************************************************************)
(* Proofs about Payouts for any number of lessons, teachers, requests and  *)
(* periods.  The first two parts need no arithmetic: a payout's totals are *)
(* whatever is computed from the amounts that were read.  The last part is *)
(* about what they add up to, with the sums of FiniteSums.                 *)
(***************************************************************************)
EXTENDS Payouts, FiniteSums

AmountType == [lesson: Lesson, base: Nat, bonus: {0, BonusAmount}]

Total == {TotalBase(a) : a \in SUBSET AmountType}
         \cup {TotalBonus(a) : a \in SUBSET AmountType}

PayoutType == [teacher: Teacher, period: Period, base: Total, bonus: Total,
               status: {"PENDING", "PAID"}, paidAt: Int \cup {None}]

ReportType == [status: {"NONE", "DRAFT", "SUBMITTED"}, submitted: BOOLEAN,
               bonus: {0, BonusAmount}]

AskType == [op: {"none", "complete", "submit", "preview", "calculate", "pay"},
            lesson: Lesson \cup {None}, teacher: Teacher \cup {None},
            period: Period \cup {None}, amounts: SUBSET AmountType,
            token: (SUBSET AmountType) \cup {None}, todo: SUBSET Teacher,
            award: BOOLEAN, stamp: Int]

Label == {"idle", "lock", "read", "commit", "reviewed", "pay"}

TablesOK ==
    /\ now \in Int
    /\ report \in [Lesson -> ReportType]
    /\ payouts \subseteq PayoutType
    /\ holder \in [Teacher -> Request \cup {None}]
    /\ pc \in [Request -> Label]
    /\ req \in [Request -> AskType]

\* No payout of the teacher has some of the period.
Free(t, p) == \A payout \in payouts : payout.teacher = t => ~Overlaps(payout.period, p)

\* A request that has read, and not yet committed, holds its teacher's profile;
\* what calculate found then, a free period and the amounts that were shown,
\* still holds.
RequestOK(r) ==
    /\ pc[r] # "idle" => req[r].teacher \in Teacher
    /\ pc[r] # "idle" /\ req[r].op \in {"preview", "calculate", "pay"} => req[r].period \in Period
    /\ pc[r] = "reviewed" => req[r].op = "preview"
    /\ req[r].todo # {} => req[r].period \in Period /\ req[r].op = "calculate"
    /\ pc[r] \in {"read", "commit"} => holder[req[r].teacher] = r
    /\ pc[r] = "commit" /\ req[r].op = "calculate" =>
         /\ Free(req[r].teacher, req[r].period)
         /\ req[r].token = None \/ req[r].token = req[r].amounts

PInv == TablesOK /\ PayoutsDisjoint /\ \A r \in Request : RequestOK(r)

-------------------------------------------------------------------------------
\* Two periods overlap, whichever is named first; a period overlaps itself.
LEMMA OverlapFacts ==
  /\ \A p, q : Overlaps(p, q) => Overlaps(q, p)
  /\ \A p \in Period : Overlaps(p, p)
BY PayoutAssumption DEF Overlaps

\* A step of one request keeps the invariant when it leaves the profiles others
\* hold alone, and every payout it stores has the teacher and the period of one
\* there was, or is of a teacher whose profile the request holds.
LEMMA OneRequestMoves ==
  ASSUME PInv, NEW r \in Request, TablesOK', PayoutsDisjoint', RequestOK(r)',
         \A q \in Request \ {r} : pc'[q] = pc[q] /\ req'[q] = req[q],
         \A t \in Teacher : holder[t] \notin {None, r} => holder'[t] = holder[t],
         \A p \in payouts' : \/ \E o \in payouts : o.teacher = p.teacher /\ o.period = p.period
                             \/ holder[p.teacher] = r
  PROVE  PInv'
<1>1. ASSUME NEW q \in Request \ {r} PROVE RequestOK(q)'
  <2>1. RequestOK(q) /\ pc'[q] = pc[q] /\ req'[q] = req[q] /\ q \notin {None, r}
    BY <1>1, PayoutAssumption DEF PInv
  <2>2. pc[q] \in {"read", "commit"} => holder[req[q].teacher] = q /\ holder'[req[q].teacher] = q
    BY <2>1 DEF RequestOK
  <2>3. ASSUME pc[q] = "commit", req[q].op = "calculate"
        PROVE  Free(req[q].teacher, req[q].period)'
    BY <2>1, <2>2, <2>3 DEF RequestOK, Free
  <2> QED
    BY <2>1, <2>2, <2>3 DEF RequestOK
<1> QED
  BY <1>1 DEF PInv

\* A step that no request takes keeps the invariant.
LEMMA NoRequestMoves ==
  ASSUME PInv, UNCHANGED <<payouts, holder, pc, req>>, now' \in Int,
         report' \in [Lesson -> ReportType]
  PROVE  PInv'
BY DEF PInv, TablesOK, PayoutsDisjoint, RequestOK, Free

-------------------------------------------------------------------------------
\* What a request asks for before it has read anything is well-formed.
LEMMA AskFacts ==
  /\ NoRequest \in AskType
  /\ \A ask \in AskType : [ask EXCEPT !.amounts = {}] \in AskType
<1>1. NoRequest \in AskType
  BY DEF NoRequest, AskType
<1>2. ASSUME NEW ask \in AskType PROVE [ask EXCEPT !.amounts = {}] \in AskType
  BY <1>2 DEF AskType
<1> QED
  BY <1>1, <1>2

\* What requests that do not move and their profiles look like after a step of r.
Others(r) ==
    /\ \A q \in Request \ {r} : pc'[q] = pc[q] /\ req'[q] = req[q]
    /\ \A t \in Teacher : holder[t] \notin {None, r} => holder'[t] = holder[t]

RequestsTyped ==
    /\ holder \in [Teacher -> Request \cup {None}]
    /\ pc \in [Request -> Label]
    /\ req \in [Request -> AskType]

\* A request that lets go of its profile leaves the others theirs.
LEMMA ReleaseOK ==
  ASSUME PInv, NEW r \in Request, Release(r)
  PROVE  /\ holder' \in [Teacher -> Request \cup {None}]
         /\ \A t \in Teacher : holder[t] \notin {None, r} => holder'[t] = holder[t]
BY DEF Release, PInv, TablesOK

\* A request that ends is idle, or waits for the next teacher of calculateAll.
LEMMA EndOK ==
  ASSUME PInv, NEW r \in Request, End(r)
  PROVE  RequestsTyped' /\ Others(r) /\ RequestOK(r)'
<1>1. req \in [Request -> AskType] /\ pc \in [Request -> Label] /\ RequestOK(r)
  BY DEF PInv, TablesOK
<1>2. CASE req[r].todo # {}
  <2>1. PICK t \in req[r].todo :
          /\ req' = [req EXCEPT ![r].teacher = t, ![r].todo = @ \ {t}, ![r].amounts = {}]
          /\ pc' = [pc EXCEPT ![r] = "lock"]
    BY <1>2 DEF End, Goto
  <2> DEFINE ask == [req[r] EXCEPT !.teacher = t, !.todo = @ \ {t}, !.amounts = {}]
  <2>2. /\ ask \in AskType /\ ask.teacher = t /\ t \in Teacher
        /\ ask.op = req[r].op /\ ask.period = req[r].period
    BY <1>1, <2>1 DEF AskType
  <2>3. req' = [req EXCEPT ![r] = ask]
    BY <1>1, <2>1
  <2>4. req'[r] = ask /\ pc'[r] = "lock" /\ RequestsTyped'
    BY <1>1, <2>1, <2>2, <2>3, ReleaseOK DEF End, RequestsTyped, Label
  <2>5. Others(r)
    BY <1>1, <2>1, <2>3, ReleaseOK DEF End, Others
  <2>6. RequestOK(r)'
    BY <1>1, <1>2, <2>2, <2>4 DEF RequestOK
  <2> QED
    BY <2>4, <2>5, <2>6
<1>3. CASE req[r].todo = {}
  <2>1. req' = [req EXCEPT ![r] = NoRequest] /\ pc' = [pc EXCEPT ![r] = "idle"]
    BY <1>3 DEF End, Goto
  <2>2. req'[r] = NoRequest /\ pc'[r] = "idle" /\ RequestsTyped'
    BY <1>1, <2>1, AskFacts, ReleaseOK DEF End, RequestsTyped, Label
  <2>3. Others(r)
    BY <1>1, <2>1, ReleaseOK DEF End, Others
  <2>4. RequestOK(r)'
    BY <2>2 DEF RequestOK, NoRequest
  <2> QED
    BY <2>2, <2>3, <2>4
<1> QED
  BY <1>2, <1>3

\* A request that ends and touches no payout keeps the invariant.
LEMMA EndKeeps ==
  ASSUME PInv, NEW r \in Request, End(r), UNCHANGED <<now, payouts>>,
         report' \in [Lesson -> ReportType]
  PROVE  PInv'
<1>1. TablesOK' /\ PayoutsDisjoint'
  BY EndOK DEF PInv, TablesOK, RequestsTyped, PayoutsDisjoint
<1> QED
  BY <1>1, EndOK, OneRequestMoves DEF Others

\* A request that goes on, having read or asked, and touches no table but its
\* own profile keeps the invariant, if what it goes on with is right.
LEMMA GoesOn ==
  ASSUME PInv, NEW r \in Request, NEW ask \in AskType, NEW label \in Label,
         req' = [req EXCEPT ![r] = ask], pc' = [pc EXCEPT ![r] = label],
         holder' \in [Teacher -> Request \cup {None}],
         \A t \in Teacher : holder[t] \notin {None, r} => holder'[t] = holder[t],
         UNCHANGED <<now, report, payouts>>,
         pc'[r] = label /\ req'[r] = ask => RequestOK(r)'
  PROVE  PInv'
<1>1. req \in [Request -> AskType] /\ pc \in [Request -> Label]
  BY DEF PInv, TablesOK
<1>2. /\ pc'[r] = label /\ req'[r] = ask
      /\ \A q \in Request \ {r} : pc'[q] = pc[q] /\ req'[q] = req[q]
  BY <1>1
<1>3. TablesOK' /\ PayoutsDisjoint'
  BY <1>1 DEF PInv, TablesOK, PayoutsDisjoint
<1> QED
  BY <1>2, <1>3, OneRequestMoves

-------------------------------------------------------------------------------
\* A request that arrives with a teacher, and a period if it is about one.
LEMMA StartOK ==
  ASSUME PInv, NEW r \in Request, NEW ask \in AskType, NEW label \in {"lock", "pay"},
         Start(r, ask, label), ask.teacher \in Teacher,
         ask.op \in {"preview", "calculate", "pay"} => ask.period \in Period,
         ask.todo # {} => ask.op = "calculate"
  PROVE  PInv'
<1>1. /\ req' = [req EXCEPT ![r] = ask] /\ pc' = [pc EXCEPT ![r] = label]
      /\ UNCHANGED <<now, report, payouts, holder>> /\ label \in Label
  BY DEF Start, Goto, Label
<1>2. holder' \in [Teacher -> Request \cup {None}]
  BY <1>1 DEF PInv, TablesOK
<1>3. pc'[r] = label /\ req'[r] = ask => RequestOK(r)'
  BY DEF RequestOK
<1> QED
  BY <1>1, <1>2, <1>3, GoesOn

\* Every request arrives that way.
LEMMA BeginOK == ASSUME PInv, NEW r \in Request, Begin(r) PROVE PInv'
<1>1. ASSUME NEW l \in Lesson, BeginComplete(r, l) \/ BeginSubmit(r, l) PROVE PInv'
  <2>1. PICK op \in {"complete", "submit"} :
          Start(r, [NoRequest EXCEPT !.op = op, !.lesson = l, !.teacher = TeacherOf[l]], "lock")
    BY <1>1 DEF BeginComplete, BeginSubmit
  <2> DEFINE ask == [NoRequest EXCEPT !.op = op, !.lesson = l, !.teacher = TeacherOf[l]]
  <2>2. /\ ask \in AskType /\ ask.teacher \in Teacher
        /\ ask.op \in {"complete", "submit"} /\ ask.todo = {}
    <3>1. TeacherOf[l] \in Teacher
      BY PayoutAssumption
    <3> QED
      BY <3>1, AskFacts DEF AskType, NoRequest
  <2> HIDE DEF ask
  <2> QED
    BY <2>1, <2>2, StartOK DEF ask
<1>2. ASSUME NEW p \in Period, NEW t \in Teacher, BeginPreview(r, t, p) PROVE PInv'
  <2> DEFINE ask == [NoRequest EXCEPT !.op = "preview", !.teacher = t, !.period = p]
  <2>1. /\ ask \in AskType /\ ask.teacher \in Teacher /\ ask.period \in Period
        /\ ask.todo = {}
    BY AskFacts DEF AskType, NoRequest
  <2>2. Start(r, ask, "lock")
    BY <1>2 DEF BeginPreview
  <2> HIDE DEF ask
  <2> QED
    BY <2>1, <2>2, StartOK
<1>3. ASSUME NEW p \in Period, BeginCalculateAll(r, p) PROVE PInv'
  <2> DEFINE teachers == {TeacherOf[l] : l \in {l \in Lesson : /\ lesson[l].status = "COMPLETED"
                                                               /\ Within(lesson[l].at, p)}}
  <2>1. PICK t \in teachers :
          Start(r, [NoRequest EXCEPT !.op = "calculate", !.teacher = t, !.period = p,
                                     !.todo = teachers \ {t}], "lock")
    BY <1>3 DEF BeginCalculateAll
  <2>2. teachers \subseteq Teacher
    BY PayoutAssumption
  <2> HIDE DEF teachers
  <2> DEFINE ask == [NoRequest EXCEPT !.op = "calculate", !.teacher = t, !.period = p,
                                      !.todo = teachers \ {t}]
  <2>3. /\ ask \in AskType /\ ask.teacher \in Teacher /\ ask.period \in Period
        /\ ask.op = "calculate"
    BY <2>2, AskFacts DEF AskType, NoRequest
  <2>4. Start(r, ask, "lock")
    BY <2>1
  <2> HIDE DEF ask
  <2> QED
    BY <2>3, <2>4, StartOK
<1>4. ASSUME NEW payout \in payouts, BeginPay(r, payout) PROVE PInv'
  <2> DEFINE ask == [NoRequest EXCEPT !.op = "pay", !.teacher = payout.teacher,
                                      !.period = payout.period]
  <2>1. payout \in PayoutType
    BY DEF PInv, TablesOK
  <2>2. payout.teacher \in Teacher /\ payout.period \in Period
    BY <2>1 DEF PayoutType
  <2>3. /\ ask \in AskType /\ ask.teacher \in Teacher /\ ask.period \in Period
        /\ ask.todo = {}
    BY <2>2, AskFacts DEF AskType, NoRequest
  <2>4. Start(r, ask, "pay")
    BY <1>4 DEF BeginPay
  <2> HIDE DEF ask
  <2> QED
    BY <2>3, <2>4, StartOK
<1> QED
  BY <1>1, <1>2, <1>3, <1>4 DEF Begin

\* The manager sends the preview's token with the period that was previewed.
LEMMA SaveOK == ASSUME PInv, NEW r \in Request, Save(r) PROVE PInv'
<1> DEFINE ask == [req[r] EXCEPT !.op = "calculate", !.amounts = {}]
<1>1. req[r] \in AskType /\ RequestOK(r) /\ req \in [Request -> AskType]
  BY DEF PInv, TablesOK
<1>2. /\ ask \in AskType /\ ask.op = "calculate" /\ ask.teacher = req[r].teacher
      /\ ask.period = req[r].period /\ ask.todo = req[r].todo
  BY <1>1 DEF AskType
<1>3. /\ req' = [req EXCEPT ![r] = ask] /\ pc' = [pc EXCEPT ![r] = "lock"]
      /\ pc[r] = "reviewed" /\ UNCHANGED <<now, report, payouts, holder>>
  BY <1>1 DEF Save, Goto
<1> HIDE DEF ask
<1>4. pc'[r] = "lock" /\ req'[r] = ask => RequestOK(r)'
  BY <1>1, <1>2, <1>3 DEF RequestOK
<1>5. holder' \in [Teacher -> Request \cup {None}] /\ "lock" \in Label
  BY <1>3 DEF PInv, TablesOK, Label
<1> QED
  BY <1>2, <1>3, <1>4, <1>5, GoesOn

\* The profile nobody held is now the request's.
LEMMA LockTeacherProfileOK == ASSUME PInv, NEW r \in Request, LockTeacherProfile(r) PROVE PInv'
<1>1. /\ req[r] \in AskType /\ RequestOK(r) /\ req \in [Request -> AskType]
      /\ holder \in [Teacher -> Request \cup {None}]
  BY DEF PInv, TablesOK
<1>2. /\ pc[r] = "lock" /\ holder[req[r].teacher] = None
      /\ holder' = [holder EXCEPT ![req[r].teacher] = r]
      /\ pc' = [pc EXCEPT ![r] = "read"] /\ UNCHANGED <<now, report, payouts, req>>
  BY DEF LockTeacherProfile, Goto
<1>3. req[r].teacher \in Teacher
  BY <1>1, <1>2 DEF RequestOK
<1>4. req' = [req EXCEPT ![r] = req[r]]
  BY <1>1, <1>2
<1>5. pc'[r] = "read" /\ req'[r] = req[r] => RequestOK(r)'
  BY <1>1, <1>2, <1>3 DEF RequestOK
<1>6. /\ holder' \in [Teacher -> Request \cup {None}] /\ "read" \in Label
      /\ \A t \in Teacher : holder[t] \notin {None, r} => holder'[t] = holder[t]
  BY <1>1, <1>2, <1>3 DEF Label
<1> QED
  BY <1>1, <1>2, <1>4, <1>5, <1>6, GoesOn

\* A rejected request ends.
LEMMA RejectOK == ASSUME PInv, NEW r \in Request, Reject(r) PROVE PInv'
<1>1. report' \in [Lesson -> ReportType]
  BY DEF Reject, PInv, TablesOK
<1> QED
  BY <1>1, EndKeeps DEF Reject

\* A request that has read what it needs goes on to its commit.
LEMMA ProceedOK ==
  ASSUME PInv, NEW r \in Request, NEW ask \in AskType, Proceed(r, ask), pc[r] = "read",
         ask.teacher = req[r].teacher, ask.period = req[r].period, ask.op = req[r].op,
         ask.todo = req[r].todo,
         ask.op = "calculate" => /\ Free(ask.teacher, ask.period)
                                 /\ ask.token = None \/ ask.token = ask.amounts
  PROVE  PInv'
<1>1. /\ req' = [req EXCEPT ![r] = ask] /\ pc' = [pc EXCEPT ![r] = "commit"]
      /\ UNCHANGED <<now, report, payouts, holder>>
  BY DEF Proceed, Goto
<1>2. RequestOK(r) /\ holder' \in [Teacher -> Request \cup {None}] /\ "commit" \in Label
  BY <1>1 DEF PInv, TablesOK, Label
<1>3. pc'[r] = "commit" /\ req'[r] = ask => RequestOK(r)'
  BY <1>1, <1>2 DEF RequestOK, Free
<1> QED
  BY <1>1, <1>2, <1>3, GoesOn

-------------------------------------------------------------------------------
\* The amounts of a period are amounts.
LEMMA AmountsTyped ==
  ASSUME PInv, NEW t, NEW p
  PROVE  Amounts(t, p) \in SUBSET AmountType
BY PayoutAssumption DEF PInv, TablesOK, Amounts, AmountType, ReportType

\* What a request reads under its lock.
LEMMA ReadOK ==
  ASSUME PInv, NEW r \in Request, ReadComplete(r) \/ ReadSubmit(r) \/ ReadPeriod(r)
  PROVE  PInv'
<1>1. /\ req[r] \in AskType /\ RequestOK(r) /\ now \in Int
      /\ req \in [Request -> AskType] /\ pc \in [Request -> Label]
  BY DEF PInv, TablesOK
<1>2. CASE ReadComplete(r)
  <2>1. CASE Proceed(r, [req[r] EXCEPT !.stamp = now])
    <3> DEFINE ask == [req[r] EXCEPT !.stamp = now]
    <3>1. /\ ask \in AskType /\ ask.teacher = req[r].teacher /\ ask.period = req[r].period
          /\ ask.op = req[r].op /\ ask.todo = req[r].todo
      BY <1>1 DEF AskType
    <3>2. pc[r] = "read" /\ ask.op = "complete"
      BY <1>2, <3>1 DEF ReadComplete
    <3> HIDE DEF ask
    <3> QED
      BY <2>1, <3>1, <3>2, ProceedOK DEF ask
  <2> QED
    BY <1>2, <2>1, RejectOK DEF ReadComplete
<1>3. CASE ReadSubmit(r)
  <2> DEFINE ask == [req[r] EXCEPT !.award = AwardsBonus(req[r].lesson)]
  <2>1. CASE Proceed(r, ask)
    <3>1. AwardsBonus(req[r].lesson) \in BOOLEAN
      BY DEF AwardsBonus
    <3>2. /\ ask \in AskType /\ ask.teacher = req[r].teacher /\ ask.period = req[r].period
          /\ ask.op = req[r].op /\ ask.todo = req[r].todo
      BY <1>1, <3>1 DEF AskType
    <3>3. pc[r] = "read" /\ ask.op = "submit"
      BY <1>3, <3>2 DEF ReadSubmit
    <3> HIDE DEF ask
    <3> QED
      BY <2>1, <3>2, <3>3, ProceedOK
  <2> QED
    BY <1>3, <2>1, RejectOK DEF ReadSubmit
<1>4. CASE ReadPeriod(r)
  <2> DEFINE t == req[r].teacher
             p == req[r].period
             amounts == Amounts(t, p)
             shown == [req[r] EXCEPT !.token = amounts]
             ask == [req[r] EXCEPT !.amounts = amounts]
  <2>1. pc[r] = "read" /\ amounts \in SUBSET AmountType
    BY <1>4, AmountsTyped DEF ReadPeriod
  <2>2. CASE /\ req' = [req EXCEPT ![r].token = amounts] /\ pc' = [pc EXCEPT ![r] = "reviewed"]
             /\ req[r].op = "preview"
             /\ Release(r) /\ UNCHANGED <<now, report, payouts>>
    <3>1. /\ shown \in AskType /\ shown.teacher = t /\ shown.period = p
          /\ shown.op = req[r].op /\ shown.todo = req[r].todo
      BY <1>1, <2>1 DEF AskType
    <3>2. req' = [req EXCEPT ![r] = shown]
      BY <1>1, <2>2
    <3> HIDE DEF shown
    <3>3. pc'[r] = "reviewed" /\ req'[r] = shown => RequestOK(r)'
      BY <1>1, <2>1, <2>2, <3>1 DEF RequestOK
    <3>4. "reviewed" \in Label
      BY DEF Label
    <3> QED
      BY <2>2, <3>1, <3>2, <3>3, <3>4, ReleaseOK, GoesOn
  <2>3. CASE /\ Proceed(r, ask) /\ Matches(req[r].token, amounts) /\ ~Refuses(t, p)
    <3>1. /\ ask \in AskType /\ ask.teacher = t /\ ask.period = p /\ ask.op = req[r].op
          /\ ask.todo = req[r].todo /\ ask.token = req[r].token /\ ask.amounts = amounts
      BY <1>1, <2>1 DEF AskType
    <3>2. Free(ask.teacher, ask.period)
      BY <2>3, <3>1 DEF Refuses, Free
    <3>3. ask.token = None \/ ask.token = ask.amounts
      BY <2>3, <3>1 DEF Matches
    <3> HIDE DEF ask
    <3> QED
      BY <2>1, <2>3, <3>1, <3>2, <3>3, ProceedOK
  <2> QED
    BY <1>4, <2>2, <2>3, RejectOK DEF ReadPeriod, Goto
<1> QED
  BY <1>2, <1>3, <1>4

\* Completing a lesson and submitting a report store no payout.
LEMMA CommitReportOK ==
  ASSUME PInv, NEW r \in Request, CommitComplete(r) \/ CommitSubmit(r)
  PROVE  PInv'
<1>1. report \in [Lesson -> ReportType]
  BY DEF PInv, TablesOK
<1>2. CASE CommitComplete(r)
  BY <1>1, <1>2, EndKeeps DEF CommitComplete
<1>3. CASE CommitSubmit(r)
  <2> DEFINE l == req[r].lesson
             new == [status |-> "SUBMITTED", submitted |-> TRUE,
                     bonus |-> IF req[r].award THEN BonusAmount ELSE report[l].bonus]
  <2>1. report' = [report EXCEPT ![l] = new]
    BY <1>3 DEF CommitSubmit
  <2>2. l \in Lesson => new \in ReportType
    BY <1>1 DEF ReportType
  <2>3. report' \in [Lesson -> ReportType]
    BY <1>1, <2>1, <2>2
  <2> QED
    BY <1>3, <2>3, EndKeeps DEF CommitSubmit
<1> QED
  BY <1>2, <1>3

\* What CommitPayout stores, if anything.
NewPayout(r) ==
    [teacher |-> req[r].teacher, period |-> req[r].period,
     base |-> TotalBase(req[r].amounts), bonus |-> TotalBonus(req[r].amounts),
     status |-> "PENDING", paidAt |-> None]

\* A payout is stored for a period that is still free of others, under the lock
\* of its teacher.
LEMMA CommitPayoutFacts ==
  ASSUME PInv, NEW r \in Request, CommitPayout(r)
  PROVE  /\ NewPayout(r) \in PayoutType /\ NewPayout(r) \notin payouts
         /\ payouts' = payouts \cup {NewPayout(r)}
         /\ holder[req[r].teacher] = r
         /\ Free(req[r].teacher, req[r].period)
         /\ req[r].token = None \/ req[r].token = req[r].amounts
<1>1. /\ req[r] \in AskType /\ RequestOK(r)
      /\ pc[r] = "commit" /\ req[r].op = "calculate"
  BY DEF PInv, TablesOK, CommitPayout
<1>2. /\ req[r].teacher \in Teacher /\ req[r].period \in Period
      /\ holder[req[r].teacher] = r /\ Free(req[r].teacher, req[r].period)
      /\ req[r].token = None \/ req[r].token = req[r].amounts
  BY <1>1 DEF RequestOK
<1>3. /\ TotalBase(req[r].amounts) \in Total /\ TotalBonus(req[r].amounts) \in Total
  BY <1>1 DEF AskType, Total
<1>4. NewPayout(r) \in PayoutType
  BY <1>2, <1>3 DEF NewPayout, PayoutType
<1>5. ~\E payout \in payouts : payout.teacher = req[r].teacher /\ payout.period = req[r].period
  BY <1>2, OverlapFacts DEF Free
<1>6. NewPayout(r).teacher = req[r].teacher /\ NewPayout(r).period = req[r].period
  BY DEF NewPayout
<1>7. payouts' = payouts \cup {NewPayout(r)}
  BY <1>5 DEF CommitPayout, NewPayout
<1> QED
  BY <1>2, <1>4, <1>5, <1>6, <1>7

LEMMA CommitPayoutOK == ASSUME PInv, NEW r \in Request, CommitPayout(r) PROVE PInv'
<1>1. End(r) /\ UNCHANGED <<now, report>>
  BY DEF CommitPayout
<1>2. NewPayout(r).teacher = req[r].teacher /\ NewPayout(r).period = req[r].period
  BY DEF NewPayout
<1>3. PayoutsDisjoint'
  <2> SUFFICES ASSUME NEW p \in payouts', NEW q \in payouts', p # q, p.teacher = q.teacher
               PROVE  ~Overlaps(p.period, q.period)
    BY DEF PayoutsDisjoint
  <2>1. CASE p \in payouts /\ q \in payouts
    BY <2>1 DEF PInv, PayoutsDisjoint
  <2>2. CASE p = NewPayout(r) /\ q \in payouts
    BY <1>2, <2>2, CommitPayoutFacts, OverlapFacts DEF Free
  <2>3. CASE q = NewPayout(r) /\ p \in payouts
    BY <1>2, <2>3, CommitPayoutFacts, OverlapFacts DEF Free
  <2> QED
    BY <2>1, <2>2, <2>3, CommitPayoutFacts
<1>4. TablesOK'
  BY <1>1, EndOK, CommitPayoutFacts DEF PInv, TablesOK, RequestsTyped
<1>5. \A p \in payouts' : \/ \E o \in payouts : o.teacher = p.teacher /\ o.period = p.period
                          \/ holder[p.teacher] = r
  BY <1>2, CommitPayoutFacts
<1> QED
  BY <1>1, <1>3, <1>4, <1>5, EndOK, OneRequestMoves DEF Others

\* Paying keeps whose and for which period every payout is.
PaidOf(payout, r) ==
    IF /\ payout.teacher = req[r].teacher /\ payout.period = req[r].period
       /\ payout.status = "PENDING"
    THEN [payout EXCEPT !.status = "PAID", !.paidAt = now]
    ELSE payout

LEMMA PaidFacts ==
  ASSUME PInv, NEW r \in Request, NEW payout \in payouts
  PROVE  /\ PaidOf(payout, r) \in PayoutType
         /\ PaidOf(payout, r).teacher = payout.teacher
         /\ PaidOf(payout, r).period = payout.period
         /\ PaidOf(payout, r).base = payout.base
         /\ PaidOf(payout, r).bonus = payout.bonus
         /\ payout.status = "PAID" => PaidOf(payout, r) = payout
<1>1. payout \in PayoutType /\ now \in Int
  BY DEF PInv, TablesOK
<1> QED
  BY <1>1 DEF PaidOf, PayoutType

LEMMA PayOK == ASSUME PInv, NEW r \in Request, Pay(r) PROVE PInv'
<1>1. End(r) /\ UNCHANGED <<now, report>> /\ payouts' = {PaidOf(p, r) : p \in payouts}
  BY DEF Pay, PaidOf
<1>2. PayoutsDisjoint'
  <2> SUFFICES ASSUME NEW p \in payouts, NEW q \in payouts, PaidOf(p, r) # PaidOf(q, r),
                      PaidOf(p, r).teacher = PaidOf(q, r).teacher
               PROVE  ~Overlaps(PaidOf(p, r).period, PaidOf(q, r).period)
    BY <1>1 DEF PayoutsDisjoint
  <2> QED
    BY PaidFacts DEF PInv, PayoutsDisjoint
<1>3. TablesOK'
  BY <1>1, EndOK, PaidFacts DEF PInv, TablesOK, RequestsTyped
<1>4. \A p \in payouts' : \E o \in payouts : o.teacher = p.teacher /\ o.period = p.period
  BY <1>1, PaidFacts
<1> QED
  BY <1>1, <1>2, <1>3, <1>4, EndOK, OneRequestMoves DEF Others

\* A request that breaks off leaves nothing behind.
LEMMA AbortOK == ASSUME PInv, NEW r \in Request, Abort(r) PROVE PInv'
<1>1. /\ req' = [req EXCEPT ![r] = NoRequest] /\ pc' = [pc EXCEPT ![r] = "idle"]
      /\ Release(r) /\ UNCHANGED <<now, report, payouts>>
  BY DEF Abort, Goto
<1>2. pc'[r] = "idle" /\ req'[r] = NoRequest => RequestOK(r)'
  BY DEF RequestOK, NoRequest
<1>3. "idle" \in Label
  BY DEF Label
<1> QED
  BY <1>1, <1>2, <1>3, AskFacts, ReleaseOK, GoesOn

\* Moving a lesson, editing a report, restarting and waiting.
LEMMA AloneOK ==
  ASSUME PInv,
         \/ \E l \in Lesson : CreateReport(l) \/ UpdateReport(l) \/ \E at \in Slot : MoveLesson(l, at)
         \/ GrowWindow \/ Tick
  PROVE  PInv'
<1>1. report \in [Lesson -> ReportType] /\ now \in Int
  BY DEF PInv, TablesOK
<1>2. UNCHANGED <<payouts, holder, pc, req>> /\ now' \in Int
  BY <1>1 DEF CreateReport, UpdateReport, MoveLesson, GrowWindow, Tick
<1>3. report' \in [Lesson -> ReportType]
  BY <1>1 DEF CreateReport, UpdateReport, MoveLesson, GrowWindow, Tick, ReportType
<1> QED
  BY <1>2, <1>3, NoRequestMoves

-------------------------------------------------------------------------------
\* Nothing is paid, nobody asks and no profile is held at first.
LEMMA PInit == Init => PInv
<1> SUFFICES ASSUME Init PROVE PInv
  OBVIOUS
<1>1. TablesOK
  BY AskFacts DEF Init, TablesOK, ReportType, NoReport, Label
<1>2. PayoutsDisjoint /\ \A r \in Request : RequestOK(r)
  BY DEF Init, PayoutsDisjoint, RequestOK, NoRequest
<1> QED
  BY <1>1, <1>2 DEF PInv

\* Every step keeps payouts apart and requests well-prepared.
LEMMA PStep == PInv /\ [Next]_vars => PInv'
<1> SUFFICES ASSUME PInv, [Next]_vars PROVE PInv'
  OBVIOUS
<1>1. ASSUME NEW r \in Request, Statement(r) PROVE PInv'
  BY <1>1, LockTeacherProfileOK, ReadOK, CommitReportOK, CommitPayoutOK, PayOK DEF Statement
<1>2. CASE UNCHANGED vars
  BY <1>2 DEF vars, PInv, TablesOK, PayoutsDisjoint, RequestOK, Free
<1> QED
  BY <1>1, <1>2, BeginOK, SaveOK, AbortOK, AloneOK DEF Next

LEMMA PInvariance == Spec => []PInv
BY PInit, PStep, PTL DEF Spec

\* However calculations, submissions and payments race, no instant of a
\* teacher's time is covered by two payouts: the overlap that calculatePeriod
\* looks for under the teacher's lock stays absent until the payout is stored.
THEOREM PayoutsAreDisjoint == Spec => []PayoutsDisjoint
<1>1. PInv => PayoutsDisjoint
  BY DEF PInv
<1> QED
  BY <1>1, PInvariance, PTL

\* A payout that is stored is never removed or recalculated, and one that is
\* paid never changes (markPaid of payouts.service.ts).
THEOREM StoredPayoutsAreFinal == Spec => PayoutsFinal
<1> DEFINE Final == \A p \in payouts : \E q \in payouts' :
                      /\ q.teacher = p.teacher /\ q.period = p.period
                      /\ q.base = p.base /\ q.bonus = p.bonus
                      /\ p.status = "PAID" => q = p
<1>1. ASSUME PInv, [Next]_vars PROVE [Final]_vars
  <2>1. CASE UNCHANGED payouts
    BY <2>1
  <2>2. ASSUME NEW r \in Request, CommitPayout(r) PROVE Final
    BY <1>1, <2>2, CommitPayoutFacts
  <2>3. ASSUME NEW r \in Request, Pay(r) PROVE Final
    <3>1. payouts' = {PaidOf(p, r) : p \in payouts}
      BY <2>3 DEF Pay, PaidOf
    <3> QED
      BY <1>1, <3>1, PaidFacts
  <2>4. \/ UNCHANGED payouts \/ UNCHANGED vars
        \/ \E r \in Request : CommitPayout(r) \/ Pay(r)
    BY <1>1 DEF Next, Begin, BeginComplete, BeginSubmit, BeginPreview, BeginCalculateAll,
       BeginPay, Start, Save, Statement, LockTeacherProfile, ReadComplete, CommitComplete,
       ReadSubmit, CommitSubmit, ReadPeriod, Proceed, Reject, Abort, CreateReport,
       UpdateReport, MoveLesson, GrowWindow, Tick
  <2> QED
    BY <2>1, <2>2, <2>3, <2>4
<1> QED
  BY <1>1, PInvariance, PTL DEF Spec, PayoutsFinal

\* A payout saved with a preview's token adds up to what that preview showed,
\* whatever was completed or submitted in between.
THEOREM SavedPayoutsWereShown == Spec => SavesWhatWasShown
<1> DEFINE Saved == \A r \in Request : CommitPayout(r) /\ req[r].token # None =>
                      \E payout \in payouts' \ payouts :
                         /\ payout.teacher = req[r].teacher /\ payout.period = req[r].period
                         /\ payout.base = TotalBase(req[r].token)
                         /\ payout.bonus = TotalBonus(req[r].token)
<1>1. ASSUME PInv PROVE Saved
  <2> SUFFICES ASSUME NEW r \in Request, CommitPayout(r), req[r].token # None
               PROVE  \E payout \in payouts' \ payouts :
                         /\ payout.teacher = req[r].teacher /\ payout.period = req[r].period
                         /\ payout.base = TotalBase(req[r].token)
                         /\ payout.bonus = TotalBonus(req[r].token)
    OBVIOUS
  <2>1. /\ NewPayout(r) \in payouts' \ payouts /\ req[r].token = req[r].amounts
    BY <1>1, CommitPayoutFacts
  <2>2. /\ NewPayout(r).teacher = req[r].teacher /\ NewPayout(r).period = req[r].period
        /\ NewPayout(r).base = TotalBase(req[r].amounts)
        /\ NewPayout(r).bonus = TotalBonus(req[r].amounts)
    BY DEF NewPayout
  <2> QED
    BY <2>1, <2>2
<1> QED
  BY <1>1, PInvariance, PTL DEF SavesWhatWasShown

-------------------------------------------------------------------------------
\* Bonus windows.

LessonType == [status: {"SCHEDULED", "COMPLETED"}, at: Slot, completedAt: Int \cup {None}]

LessonsOK ==
    /\ window \in Int
    /\ lesson \in [Lesson -> LessonType]
    /\ \A l \in Lesson : lesson[l].status = "COMPLETED" => lesson[l].completedAt \in Int

\* A completion, or a submission, is under the lock of the lesson's teacher.
AskedOK(r) ==
    pc[r] # "idle" /\ req[r].op \in {"complete", "submit"} =>
        req[r].lesson \in Lesson /\ req[r].teacher = TeacherOf[req[r].lesson]

\* No lesson of the period may still earn a bonus.
WindowsClosed(t, p) ==
    \A l \in Lesson :
        TeacherOf[l] = t /\ lesson[l].status = "COMPLETED" /\ Within(lesson[l].at, p)
            => lesson[l].completedAt + window <= now

\* What calculate found closed stays closed until it stores its payout.
ClosedOK(r) ==
    pc[r] = "commit" /\ req[r].op = "calculate" => WindowsClosed(req[r].teacher, req[r].period)

WInv == LessonsOK /\ \A r \in Request : AskedOK(r) /\ ClosedOK(r)

\* A step of one request leaves what the others found: it changes lessons of a
\* teacher whose profile it holds only.
LEMMA OthersFound ==
  ASSUME PInv, WInv, NEW r \in Request, LessonsOK', AskedOK(r)', ClosedOK(r)',
         \A q \in Request \ {r} : pc'[q] = pc[q] /\ req'[q] = req[q],
         UNCHANGED <<now, window>>,
         \A l \in Lesson : lesson'[l] = lesson[l] \/ holder[TeacherOf[l]] = r
  PROVE  WInv'
<1>1. ASSUME NEW q \in Request \ {r} PROVE AskedOK(q)' /\ ClosedOK(q)'
  <2>1. AskedOK(q) /\ ClosedOK(q) /\ RequestOK(q) /\ pc'[q] = pc[q] /\ req'[q] = req[q]
    BY <1>1 DEF PInv, WInv
  <2>2. ASSUME pc[q] = "commit", req[q].op = "calculate"
        PROVE  WindowsClosed(req[q].teacher, req[q].period)'
    <3>1. holder[req[q].teacher] = q /\ q # r
      BY <1>1, <2>1, <2>2 DEF RequestOK
    <3>2. \A l \in Lesson : TeacherOf[l] = req[q].teacher => lesson'[l] = lesson[l]
      BY <3>1
    <3> QED
      BY <2>1, <2>2, <3>2 DEF ClosedOK, WindowsClosed
  <2> QED
    BY <2>1, <2>2 DEF AskedOK, ClosedOK
<1> QED
  BY <1>1 DEF WInv

\* A step of a request that leaves the lessons, and is not about to store a payout.
LEMMA NotAboutToStore ==
  ASSUME PInv, WInv, NEW r \in Request, AskedOK(r)',
         pc'[r] # "commit" \/ req'[r].op # "calculate",
         \A q \in Request \ {r} : pc'[q] = pc[q] /\ req'[q] = req[q],
         UNCHANGED <<now, window, lesson>>
  PROVE  WInv'
<1>1. ClosedOK(r)' /\ LessonsOK'
  BY DEF ClosedOK, WInv, LessonsOK
<1> QED
  BY <1>1, OthersFound

\* A request that ends, or turns to its next teacher, asks for nothing else.
LEMMA EndAsks ==
  ASSUME PInv, WInv, NEW r \in Request, End(r)
  PROVE  AskedOK(r)' /\ pc'[r] # "commit"
<1>1. req \in [Request -> AskType] /\ pc \in [Request -> Label] /\ RequestOK(r)
  BY DEF PInv, TablesOK
<1>2. CASE req[r].todo # {}
  <2>1. PICK t \in req[r].todo :
          /\ req' = [req EXCEPT ![r].teacher = t, ![r].todo = @ \ {t}, ![r].amounts = {}]
          /\ pc' = [pc EXCEPT ![r] = "lock"]
    BY <1>2 DEF End, Goto
  <2>2. req'[r].op = req[r].op /\ pc'[r] = "lock"
    BY <1>1, <2>1 DEF AskType
  <2> QED
    BY <1>1, <1>2, <2>2 DEF RequestOK, AskedOK
<1>3. CASE req[r].todo = {}
  <2>1. pc'[r] = "idle"
    BY <1>1, <1>3 DEF End, Goto
  <2> QED
    BY <2>1 DEF AskedOK
<1> QED
  BY <1>2, <1>3

\* A request that ends leaves every window as it was.
LEMMA EndWindows ==
  ASSUME PInv, WInv, NEW r \in Request, End(r), UNCHANGED <<now, window, lesson>>
  PROVE  WInv'
BY EndOK, EndAsks, NotAboutToStore DEF Others

\* Requests arrive with the teacher of their lesson.
LEMMA BeginWindows == ASSUME PInv, WInv, NEW r \in Request, Begin(r) PROVE WInv'
<1>1. req \in [Request -> AskType] /\ pc \in [Request -> Label]
  BY DEF PInv, TablesOK
<1>2. ASSUME NEW ask, NEW label \in {"lock", "pay"}, Start(r, ask, label),
             ask.op \in {"complete", "submit"} =>
                 ask.lesson \in Lesson /\ ask.teacher = TeacherOf[ask.lesson]
      PROVE  WInv'
  <2>1. /\ req'[r] = ask /\ pc'[r] = label
        /\ \A q \in Request \ {r} : pc'[q] = pc[q] /\ req'[q] = req[q]
    BY <1>1, <1>2 DEF Start, Goto
  <2>2. AskedOK(r)' /\ pc'[r] # "commit"
    BY <1>2, <2>1 DEF AskedOK
  <2> QED
    BY <1>2, <2>1, <2>2, NotAboutToStore DEF Start
<1>3. ASSUME NEW l \in Lesson, BeginComplete(r, l) \/ BeginSubmit(r, l) PROVE WInv'
  <2>1. PICK op \in {"complete", "submit"} :
          Start(r, [NoRequest EXCEPT !.op = op, !.lesson = l, !.teacher = TeacherOf[l]], "lock")
    BY <1>3 DEF BeginComplete, BeginSubmit
  <2> DEFINE ask == [NoRequest EXCEPT !.op = op, !.lesson = l, !.teacher = TeacherOf[l]]
  <2>2. ask.lesson = l /\ ask.teacher = TeacherOf[l]
    BY DEF NoRequest
  <2> HIDE DEF ask
  <2> QED
    BY <1>2, <2>1, <2>2 DEF ask
<1>4. ASSUME NEW p \in Period, NEW t \in Teacher, BeginPreview(r, t, p) PROVE WInv'
  <2> DEFINE ask == [NoRequest EXCEPT !.op = "preview", !.teacher = t, !.period = p]
  <2>1. ask.op = "preview" /\ Start(r, ask, "lock")
    BY <1>4 DEF NoRequest, BeginPreview
  <2> HIDE DEF ask
  <2> QED
    BY <1>2, <2>1
<1>5. ASSUME NEW p \in Period, BeginCalculateAll(r, p) PROVE WInv'
  <2>1. PICK t, todo : Start(r, [NoRequest EXCEPT !.op = "calculate", !.teacher = t,
                                                  !.period = p, !.todo = todo], "lock")
    BY <1>5 DEF BeginCalculateAll
  <2> DEFINE ask == [NoRequest EXCEPT !.op = "calculate", !.teacher = t, !.period = p,
                                      !.todo = todo]
  <2>2. ask.op = "calculate" /\ Start(r, ask, "lock")
    BY <2>1 DEF NoRequest
  <2> HIDE DEF ask
  <2> QED
    BY <1>2, <2>2
<1>6. ASSUME NEW payout \in payouts, BeginPay(r, payout) PROVE WInv'
  <2> DEFINE ask == [NoRequest EXCEPT !.op = "pay", !.teacher = payout.teacher,
                                      !.period = payout.period]
  <2>1. ask.op = "pay" /\ Start(r, ask, "pay")
    BY <1>6 DEF NoRequest, BeginPay
  <2> HIDE DEF ask
  <2> QED
    BY <1>2, <2>1
<1> QED
  BY <1>3, <1>4, <1>5, <1>6 DEF Begin

\* A request that goes on asks for what it asked for.
LEMMA SaveOrLockWindows ==
  ASSUME PInv, WInv, NEW r \in Request, Save(r) \/ LockTeacherProfile(r) \/ Abort(r)
  PROVE  WInv'
<1>1. req \in [Request -> AskType] /\ pc \in [Request -> Label] /\ AskedOK(r)
  BY DEF PInv, TablesOK, WInv
<1>2. /\ pc'[r] # "commit" /\ UNCHANGED <<now, window, lesson>>
      /\ \A q \in Request \ {r} : pc'[q] = pc[q] /\ req'[q] = req[q]
  BY <1>1 DEF Save, LockTeacherProfile, Abort, Goto
<1>3. AskedOK(r)'
  <2>1. CASE Save(r)
    <3>1. req'[r].op = "calculate"
      BY <1>1, <2>1 DEF Save, AskType
    <3> QED
      BY <3>1 DEF AskedOK
  <2>2. CASE LockTeacherProfile(r)
    BY <1>1, <2>2 DEF LockTeacherProfile, AskedOK
  <2>3. CASE Abort(r)
    BY <1>1, <2>3 DEF Abort, Goto, AskedOK
  <2> QED
    BY <2>1, <2>2, <2>3
<1> QED
  BY <1>2, <1>3, NotAboutToStore

\* calculatePeriod looks at the window of every lesson of the period.
LEMMA RefusedWhileOpen ==
  ASSUME PInv, WInv, NEW t, NEW p, ~Refuses(t, p)
  PROVE  WindowsClosed(t, p)
<1> SUFFICES ASSUME NEW l \in Lesson, TeacherOf[l] = t, lesson[l].status = "COMPLETED",
                    Within(lesson[l].at, p)
             PROVE  lesson[l].completedAt + window <= now
  BY DEF WindowsClosed
<1> DEFINE a == [lesson |-> l, base |-> Rate[l], bonus |-> report[l].bonus]
<1>1. a \in Amounts(t, p)
  BY DEF Amounts
<1>2. ~(lesson[l].completedAt + window > now)
  <2>1. a.lesson = l
    OBVIOUS
  <2> HIDE DEF a
  <2> QED
    BY <1>1, <2>1 DEF Refuses
<1> QED
  BY <1>2 DEF WInv, LessonsOK, PInv, TablesOK

\* What a request goes on with was found under its lock.
LEMMA ReadWindows ==
  ASSUME PInv, WInv, NEW r \in Request, ReadComplete(r) \/ ReadSubmit(r) \/ ReadPeriod(r)
  PROVE  WInv'
<1>1. req \in [Request -> AskType] /\ pc \in [Request -> Label] /\ AskedOK(r) /\ LessonsOK
  BY DEF PInv, TablesOK, WInv
<1>2. CASE Reject(r)
  BY <1>2, EndWindows DEF Reject
<1>3. ASSUME NEW ask \in AskType, Proceed(r, ask), pc[r] = "read", ask.op = req[r].op,
             ask.lesson = req[r].lesson, ask.teacher = req[r].teacher,
             ask.op = "calculate" => WindowsClosed(ask.teacher, ask.period)
      PROVE  WInv'
  <2>1. /\ req'[r] = ask /\ pc'[r] = "commit" /\ UNCHANGED <<now, window, lesson>>
        /\ \A q \in Request \ {r} : pc'[q] = pc[q] /\ req'[q] = req[q]
    BY <1>1, <1>3 DEF Proceed, Goto
  <2>2. AskedOK(r)' /\ LessonsOK'
    BY <1>1, <1>3, <2>1 DEF AskedOK, LessonsOK
  <2>3. ClosedOK(r)'
    BY <1>3, <2>1 DEF ClosedOK, WindowsClosed
  <2> QED
    BY <2>1, <2>2, <2>3, OthersFound
<1>4. CASE ReadComplete(r)
  <2> DEFINE ask == [req[r] EXCEPT !.stamp = now]
  <2>1. /\ ask \in AskType /\ ask.op = req[r].op /\ ask.lesson = req[r].lesson
        /\ ask.teacher = req[r].teacher
    BY <1>1 DEF AskType, PInv, TablesOK
  <2>2. pc[r] = "read" /\ req[r].op = "complete" /\ (Proceed(r, ask) \/ Reject(r))
    BY <1>4 DEF ReadComplete
  <2> HIDE DEF ask
  <2> QED
    BY <1>2, <1>3, <2>1, <2>2
<1>5. CASE ReadSubmit(r)
  <2> DEFINE ask == [req[r] EXCEPT !.award = AwardsBonus(req[r].lesson)]
  <2>1. /\ ask \in AskType /\ ask.op = req[r].op /\ ask.lesson = req[r].lesson
        /\ ask.teacher = req[r].teacher
    BY <1>1 DEF AskType, AwardsBonus
  <2>2. pc[r] = "read" /\ req[r].op = "submit" /\ (Proceed(r, ask) \/ Reject(r))
    BY <1>5 DEF ReadSubmit
  <2> HIDE DEF ask
  <2> QED
    BY <1>2, <1>3, <2>1, <2>2
<1>6. CASE ReadPeriod(r)
  <2> DEFINE t == req[r].teacher
             p == req[r].period
             ask == [req[r] EXCEPT !.amounts = Amounts(t, p)]
  <2>1. /\ ask \in AskType /\ ask.op = req[r].op /\ ask.lesson = req[r].lesson
        /\ ask.teacher = t /\ ask.period = p
    BY <1>1, AmountsTyped DEF AskType
  <2>2. pc[r] = "read"
    BY <1>6 DEF ReadPeriod
  <2>3. CASE Proceed(r, ask) /\ ~Refuses(t, p)
    <3>1. WindowsClosed(ask.teacher, ask.period)
      BY <2>1, <2>3, RefusedWhileOpen
    <3> HIDE DEF ask
    <3> QED
      BY <1>3, <2>1, <2>2, <2>3, <3>1
  <2>4. CASE /\ req' = [req EXCEPT ![r].token = Amounts(t, p)] /\ pc' = [pc EXCEPT ![r] = "reviewed"]
             /\ req[r].op = "preview" /\ UNCHANGED <<now, window, lesson>>
    <3>1. /\ req'[r].op = "preview" /\ pc'[r] = "reviewed"
          /\ \A q \in Request \ {r} : pc'[q] = pc[q] /\ req'[q] = req[q]
      BY <1>1, <2>4 DEF AskType
    <3>2. AskedOK(r)'
      BY <3>1 DEF AskedOK
    <3> QED
      BY <2>4, <3>1, <3>2, NotAboutToStore
  <2> QED
    BY <1>2, <1>6, <2>3, <2>4 DEF ReadPeriod, Goto
<1> QED
  BY <1>4, <1>5, <1>6

\* A completion changes a lesson of the teacher whose profile it holds.
LEMMA CommitCompleteWindows ==
  ASSUME PInv, WInv, NEW r \in Request, CommitComplete(r)
  PROVE  WInv'
<1> DEFINE l == req[r].lesson
           new == [lesson[l] EXCEPT !.status = "COMPLETED", !.completedAt = req[r].stamp]
<1>1. /\ req[r] \in AskType /\ RequestOK(r) /\ AskedOK(r) /\ LessonsOK
      /\ pc[r] = "commit" /\ req[r].op = "complete"
  BY DEF PInv, TablesOK, WInv, CommitComplete
<1>2. l \in Lesson /\ holder[TeacherOf[l]] = r
  BY <1>1 DEF AskedOK, RequestOK
<1>3. lesson' = [lesson EXCEPT ![l] = new]
  BY <1>1, <1>2 DEF CommitComplete, LessonsOK
<1>4. /\ new \in LessonType /\ new.completedAt \in Int
      /\ UNCHANGED <<now, window>> /\ End(r)
  BY <1>1, <1>2 DEF CommitComplete, LessonsOK, LessonType, AskType
<1>5. LessonsOK' /\ \A k \in Lesson : lesson'[k] = lesson[k] \/ holder[TeacherOf[k]] = r
  <2> HIDE DEF new
  <2> QED
    BY <1>1, <1>2, <1>3, <1>4 DEF LessonsOK
<1>6. AskedOK(r)' /\ ClosedOK(r)'
  BY <1>4, EndAsks DEF ClosedOK
<1> QED
  BY <1>4, <1>5, <1>6, EndOK, OthersFound DEF Others

\* Waiting closes windows; a restart with a longer one finds nobody at work;
\* a PATCH moves lessons that are still scheduled.
LEMMA AloneWindows ==
  ASSUME PInv, WInv,
         \/ \E l \in Lesson : CreateReport(l) \/ UpdateReport(l) \/ \E at \in Slot : MoveLesson(l, at)
         \/ GrowWindow \/ Tick
  PROVE  WInv'
<1>1. LessonsOK /\ now \in Int
  BY DEF WInv, PInv, TablesOK
<1>2. ASSUME NEW l \in Lesson, NEW at \in Slot, MoveLesson(l, at) PROVE WInv'
  <2> DEFINE new == [lesson[l] EXCEPT !.at = at]
  <2>1. /\ new \in LessonType /\ new.status = "SCHEDULED"
        /\ lesson' = [lesson EXCEPT ![l] = new] /\ lesson[l].status = "SCHEDULED"
        /\ UNCHANGED <<now, window, pc, req>>
    BY <1>1, <1>2 DEF MoveLesson, LessonsOK, LessonType
  <2> HIDE DEF new
  <2>2. /\ LessonsOK'
        /\ \A k \in Lesson : lesson'[k] = lesson[k] \/ lesson'[k].status # "COMPLETED"
    BY <1>1, <2>1 DEF LessonsOK
  <2> QED
    BY <2>1, <2>2 DEF WInv, AskedOK, ClosedOK, WindowsClosed
<1>3. CASE GrowWindow
  <2>1. window' \in Int
    BY <1>3, PayoutAssumption DEF GrowWindow
  <2>2. \A r \in Request : pc'[r] = "idle"
    BY <1>3 DEF GrowWindow
  <2>3. LessonsOK'
    BY <1>1, <1>3, <2>1 DEF GrowWindow, LessonsOK
  <2> QED
    BY <2>2, <2>3 DEF WInv, AskedOK, ClosedOK
<1>4. CASE Tick
  <2>1. now' = now + 1 /\ UNCHANGED <<window, lesson, pc, req>>
    BY <1>4 DEF Tick
  <2>2. LessonsOK'
    BY <1>1, <2>1 DEF LessonsOK
  <2>3. ASSUME NEW r \in Request PROVE AskedOK(r)' /\ ClosedOK(r)'
    <3>1. AskedOK(r)'
      BY <2>1 DEF WInv, AskedOK
    <3>2. ASSUME pc[r] = "commit", req[r].op = "calculate"
          PROVE  WindowsClosed(req[r].teacher, req[r].period)'
      <4>1. WindowsClosed(req[r].teacher, req[r].period)
        BY <3>2 DEF WInv, ClosedOK
      <4> QED
        BY <1>1, <2>1, <4>1 DEF WindowsClosed, LessonsOK
    <3> QED
      BY <2>1, <3>1, <3>2 DEF ClosedOK
  <2> QED
    BY <2>2, <2>3 DEF WInv
<1>5. ASSUME NEW l \in Lesson, CreateReport(l) \/ UpdateReport(l) PROVE WInv'
  BY <1>5 DEF CreateReport, UpdateReport, WInv, LessonsOK, AskedOK, ClosedOK, WindowsClosed
<1> QED
  BY <1>2, <1>3, <1>4, <1>5

\* No lesson is completed at first.
LEMMA WInit == Init => WInv
<1> SUFFICES ASSUME Init PROVE WInv
  OBVIOUS
<1>1. LessonsOK
  BY PayoutAssumption DEF Init, LessonsOK, LessonType
<1>2. \A r \in Request : AskedOK(r) /\ ClosedOK(r)
  BY DEF Init, AskedOK, ClosedOK
<1> QED
  BY <1>1, <1>2 DEF WInv

\* Every step keeps what calculations found.
LEMMA WStep == PInv /\ WInv /\ [Next]_vars => WInv'
<1> SUFFICES ASSUME PInv, WInv, [Next]_vars PROVE WInv'
  OBVIOUS
<1>1. ASSUME NEW r \in Request, CommitSubmit(r) \/ CommitPayout(r) \/ Pay(r) PROVE WInv'
  BY <1>1, EndWindows DEF CommitSubmit, CommitPayout, Pay
<1>2. ASSUME NEW r \in Request, Statement(r) PROVE WInv'
  BY <1>1, <1>2, SaveOrLockWindows, ReadWindows, CommitCompleteWindows DEF Statement
<1>3. CASE UNCHANGED vars
  BY <1>3 DEF vars, WInv, LessonsOK, AskedOK, ClosedOK, WindowsClosed
<1> QED
  BY <1>2, <1>3, BeginWindows, SaveOrLockWindows, AloneWindows DEF Next

\* No payout cuts off a bonus that may still be earned: what calculatePeriod
\* found closed under the teacher's lock is still closed when it stores the
\* payout, because completing a lesson takes the same lock, a PATCH moves only
\* lessons that are scheduled, and a longer window comes with a restart.
THEOREM BonusesAreNotCutOff == Spec => BonusWindowsClosed
<1> DEFINE Closed == \A l \in Lesson :
                       lesson[l].status = "COMPLETED" /\ ~Finalized(l) /\ Finalized(l)'
                          => ~InBonusWindow(l)
<1>1. ASSUME PInv, WInv, [Next]_vars PROVE [Closed]_vars
  <2> SUFFICES ASSUME NEW l \in Lesson, lesson[l].status = "COMPLETED", ~Finalized(l),
                      Finalized(l)'
               PROVE  ~InBonusWindow(l)
    OBVIOUS
  <2>1. LessonsOK /\ now \in Int
    BY <1>1 DEF WInv, PInv, TablesOK
  <2>2. lesson'[l].at = lesson[l].at
    <3>1. ASSUME NEW r \in Request, CommitComplete(r) PROVE lesson'[l].at = lesson[l].at
      BY <2>1, <3>1 DEF CommitComplete, LessonsOK, LessonType
    <3>2. ASSUME NEW m \in Lesson, NEW at \in Slot, MoveLesson(m, at)
          PROVE  lesson'[l].at = lesson[l].at
      BY <2>1, <3>2 DEF MoveLesson, LessonsOK, LessonType
    <3>3. \/ UNCHANGED lesson
          \/ \E r \in Request : CommitComplete(r)
          \/ \E m \in Lesson : \E at \in Slot : MoveLesson(m, at)
      BY <1>1 DEF Next, Begin, BeginComplete, BeginSubmit, BeginPreview, BeginCalculateAll,
         BeginPay, Start, Save, Statement, LockTeacherProfile, ReadComplete, CommitPayout,
         ReadSubmit, CommitSubmit, ReadPeriod, Proceed, Reject, Abort, CreateReport,
         UpdateReport, Pay, GrowWindow, Tick, vars
    <3> QED
      BY <3>1, <3>2, <3>3
  <2>3. PICK new \in payouts' : new.teacher = TeacherOf[l] /\ Within(lesson[l].at, new.period)
    BY <2>2 DEF Finalized, Within
  <2>4. ~\E old \in payouts : old.teacher = new.teacher /\ old.period = new.period
    BY <2>3 DEF Finalized
  <2>5. PICK r \in Request : CommitPayout(r)
    <3>1. ASSUME NEW r \in Request PROVE ~Pay(r)
      <4>1. ASSUME Pay(r) PROVE FALSE
        <5>1. payouts' = {PaidOf(p, r) : p \in payouts}
          BY <4>1 DEF Pay, PaidOf
        <5> QED
          BY <1>1, <2>4, <5>1, PaidFacts
      <4> QED
        BY <4>1
    <3>2. ~UNCHANGED payouts
      BY <2>4
    <3> QED
      BY <1>1, <3>1, <3>2 DEF Next, Begin, BeginComplete, BeginSubmit, BeginPreview,
         BeginCalculateAll, BeginPay, Start, Save, Statement, LockTeacherProfile, ReadComplete,
         CommitComplete, ReadSubmit, CommitSubmit, ReadPeriod, Proceed, Reject, Abort,
         CreateReport, UpdateReport, MoveLesson, GrowWindow, Tick, vars
  <2>6. new.teacher = req[r].teacher /\ new.period = req[r].period
    <3>1. new = NewPayout(r)
      BY <1>1, <2>3, <2>4, <2>5, CommitPayoutFacts
    <3> QED
      BY <3>1 DEF NewPayout
  <2>7. WindowsClosed(new.teacher, new.period)
    BY <1>1, <2>5, <2>6 DEF CommitPayout, WInv, ClosedOK
  <2>8. lesson[l].completedAt + window <= now
    BY <2>3, <2>7 DEF WindowsClosed
  <2> QED
    BY <2>1, <2>8 DEF InBonusWindow, LessonsOK
<1> QED
  BY <1>1, PInvariance, WInit, WStep, PTL DEF Spec, BonusWindowsClosed

-------------------------------------------------------------------------------
\* What payouts add up to.

\* The bonuses of finitely many amounts, and their bases, are sums.
LEMMA TotalBonusIsSum ==
  ASSUME NEW S, IsFiniteSet(S)
  PROVE  TotalBonus(S) = SumOf([a \in S |-> a.bonus], S)
<1> DEFINE f == [a \in S |-> a.bonus]
           Eq(g) == g = [T \in SUBSET S |->
                           IF T = {} THEN 0 ELSE Pick(T).bonus + g[T \ {Pick(T)}]]
           c == CHOOSE g : Eq(g)
<1>1. TotalBonus(S) = c[S]
  BY DEF TotalBonus, MapThenSumSet, MapThenFoldSet, Pick
<1>2. ASSUME NEW g PROVE Sums(g, f, S) <=> Eq(g)
  <2>1. \A T \in SUBSET S : T # {} => f[Pick(T)] = Pick(T).bonus
    BY PickIn
  <2>2. [T \in SUBSET S |-> IF T = {} THEN 0 ELSE f[Pick(T)] + g[T \ {Pick(T)}]]
        = [T \in SUBSET S |-> IF T = {} THEN 0 ELSE Pick(T).bonus + g[T \ {Pick(T)}]]
    <3> HIDE DEF f
    <3> QED
      BY <2>1
  <2> HIDE DEF f
  <2> QED
    BY <2>2 DEF Sums
<1> HIDE DEF f, Eq
<1>3. Eq(c)
  <2>1. \E g : Eq(g)
    BY <1>2, SumsExist
  <2> QED
    BY <2>1
<1>4. c[S] = SumOf(f, S)
  <2>1. Sums(c, f, S)
    BY <1>2, <1>3
  <2> QED
    BY <2>1, SumsAreSumOf
<1> QED
  BY <1>1, <1>4 DEF f

LEMMA TotalBaseIsSum ==
  ASSUME NEW S, IsFiniteSet(S)
  PROVE  TotalBase(S) = SumOf([a \in S |-> a.base], S)
<1> DEFINE f == [a \in S |-> a.base]
           Eq(g) == g = [T \in SUBSET S |->
                           IF T = {} THEN 0 ELSE Pick(T).base + g[T \ {Pick(T)}]]
           c == CHOOSE g : Eq(g)
<1>1. TotalBase(S) = c[S]
  BY DEF TotalBase, MapThenSumSet, MapThenFoldSet, Pick
<1>2. ASSUME NEW g PROVE Sums(g, f, S) <=> Eq(g)
  <2>1. \A T \in SUBSET S : T # {} => f[Pick(T)] = Pick(T).base
    BY PickIn
  <2>2. [T \in SUBSET S |-> IF T = {} THEN 0 ELSE f[Pick(T)] + g[T \ {Pick(T)}]]
        = [T \in SUBSET S |-> IF T = {} THEN 0 ELSE Pick(T).base + g[T \ {Pick(T)}]]
    <3> HIDE DEF f
    <3> QED
      BY <2>1
  <2> HIDE DEF f
  <2> QED
    BY <2>2 DEF Sums
<1> HIDE DEF f, Eq
<1>3. Eq(c)
  <2>1. \E g : Eq(g)
    BY <1>2, SumsExist
  <2> QED
    BY <2>1
<1>4. c[S] = SumOf(f, S)
  <2>1. Sums(c, f, S)
    BY <1>2, <1>3
  <2> QED
    BY <2>1, SumsAreSumOf
<1> QED
  BY <1>1, <1>4 DEF f

\* Amounts add up to natural numbers.
LEMMA TotalsAreNumbers ==
  ASSUME NEW S \in SUBSET AmountType, IsFiniteSet(S)
  PROVE  TotalBase(S) \in Nat /\ TotalBonus(S) \in Nat
<1> DEFINE f == [a \in S |-> a.base]
           g == [a \in S |-> a.bonus]
<1>1. TotalBase(S) = SumOf(f, S) /\ TotalBonus(S) = SumOf(g, S)
  BY TotalBaseIsSum, TotalBonusIsSum
<1>2. \A a \in S : f[a] \in Nat /\ g[a] \in Nat
  BY PayoutAssumption DEF AmountType
<1>3. Nat \in {Nat, Int}
  OBVIOUS
<1> HIDE DEF f, g
<1>4. SumOf(f, S) \in Nat
  BY <1>2, <1>3, SumOfType, Zenon
<1>5. SumOf(g, S) \in Nat
  BY <1>2, <1>3, SumOfType, Zenon
<1> QED
  BY <1>1, <1>4, <1>5

\* A lesson without a bonus adds none.
LEMMA NoBonusAdded ==
  ASSUME NEW S \in SUBSET AmountType, IsFiniteSet(S), NEW a \in AmountType, a \notin S,
         a.bonus = 0
  PROVE  TotalBonus(S \cup {a}) = TotalBonus(S)
<1> DEFINE R == S \cup {a}
           f == [x \in S |-> x.bonus]
           g == [x \in R |-> x.bonus]
<1>1. IsFiniteSet(R)
  BY FS_AddElement
<1>2. TotalBonus(S) = SumOf(f, S) /\ TotalBonus(R) = SumOf(g, R)
  BY <1>1, TotalBonusIsSum
<1>3. \A x \in R : g[x] \in Nat
  BY PayoutAssumption DEF AmountType
<1>4. g[a] = 0 /\ \A x \in S : f[x] = g[x]
  OBVIOUS
<1> HIDE DEF f, g
<1>5. SumOf(g, R) = g[a] + SumOf(g, S)
  <2>1. \A x \in S \cup {a} : g[x] \in Int
    BY <1>3
  <2> QED
    BY <2>1, SumOfAdd
<1>6. SumOf(f, S) = SumOf(g, S)
  <2>1. \A x \in S : f[x] = g[x]
    BY <1>4
  <2> QED
    BY <2>1, SumOfSame
<1>7. TotalBonus(S) \in Nat
  BY TotalsAreNumbers
<1> QED
  BY <1>2, <1>4, <1>5, <1>6, <1>7

Completed == {l \in Lesson : lesson[l].status = "COMPLETED"}

\* Only a completed lesson has earned a bonus, and its time is known.
TimesOK ==
    /\ now \in Time /\ window \in Windows
    /\ \A l \in Lesson :
         /\ lesson[l].status # "COMPLETED" => report[l].bonus = 0
         /\ lesson[l].completedAt \in Time \cup {None}
         /\ lesson[l].status = "COMPLETED" <=> lesson[l].completedAt # None

\* What a request found under the lock of its teacher is still so when it commits:
\* the lesson's status, that no payout has the lesson's time, the amounts.
FoundOK(r) ==
    pc[r] = "commit" =>
      /\ req[r].op = "complete" =>
           lesson[req[r].lesson].status = "SCHEDULED" /\ req[r].stamp \in Time
      /\ req[r].op = "submit" =>
           /\ lesson[req[r].lesson].status = "COMPLETED"
           /\ req[r].award => ~Finalized(req[r].lesson)
      /\ req[r].op = "calculate" => req[r].amounts = Amounts(req[r].teacher, req[r].period)

PayoutOK(payout) ==
    /\ payout.base \in Nat /\ payout.bonus \in Nat /\ payout.paidAt \in Time \cup {None}
    /\ payout.bonus = TotalBonus(Amounts(payout.teacher, payout.period))

PayoutsOK == \A payout \in payouts : PayoutOK(payout)

BInv ==
    /\ IsFiniteSet(Completed)
    /\ TimesOK
    /\ \A r \in Request : FoundOK(r)
    /\ PayoutsOK

\* The lesson counts, and for as much, as before.
SameEarning(l) ==
    /\ lesson'[l].status = lesson[l].status
    /\ lesson[l].status = "COMPLETED" => lesson'[l].at = lesson[l].at
    /\ report'[l].bonus = report[l].bonus

\* The amounts of a teacher change with the teacher's own lessons only.
LEMMA AmountsKept ==
  ASSUME NEW t, NEW p, \A l \in Lesson : TeacherOf[l] = t => SameEarning(l)
  PROVE  Amounts(t, p)' = Amounts(t, p)
<1> DEFINE S == {l \in Lesson : /\ TeacherOf[l] = t
                                /\ lesson[l].status = "COMPLETED"
                                /\ Within(lesson[l].at, p)}
<1>1. S' = S
  BY DEF SameEarning, Within
<1>2. \A l \in S : report'[l].bonus = report[l].bonus
  BY DEF SameEarning
<1> HIDE DEF S
<1>3. {[lesson |-> l, base |-> Rate[l], bonus |-> report'[l].bonus] : l \in S}
      = {[lesson |-> l, base |-> Rate[l], bonus |-> report[l].bonus] : l \in S}
  BY <1>2
<1> QED
  BY <1>1, <1>3 DEF Amounts, S

\* A calculation has finitely many amounts to add up.
LEMMA AmountsFinite ==
  ASSUME BInv, NEW t, NEW p
  PROVE  IsFiniteSet(Amounts(t, p))
<1> DEFINE S == {l \in Lesson : /\ TeacherOf[l] = t
                                /\ lesson[l].status = "COMPLETED"
                                /\ Within(lesson[l].at, p)}
           f == [l \in Lesson |-> [lesson |-> l, base |-> Rate[l], bonus |-> report[l].bonus]]
<1>1. S \in SUBSET Completed /\ S \subseteq Lesson
  BY DEF Completed
<1>2. Amounts(t, p) = {f[l] : l \in S}
  BY DEF Amounts
<1> HIDE DEF S, f
<1>3. IsFiniteSet(S)
  BY <1>1, FS_Subset DEF BInv
<1>4. IsFiniteSet({f[l] : l \in S})
  BY <1>3, FiniteImage
<1> QED
  BY <1>2, <1>4

\* What a request found stays true while the lessons of its teacher earn the same
\* and the teacher gets no other payout.
LEMMA FoundKept ==
  ASSUME WInv, NEW q \in Request, FoundOK(q), pc'[q] = pc[q], req'[q] = req[q],
         pc[q] = "commit" =>
           /\ \A l \in Lesson : TeacherOf[l] = req[q].teacher => SameEarning(l)
           /\ \A p \in payouts' : p.teacher = req[q].teacher =>
                \E o \in payouts : o.teacher = p.teacher /\ o.period = p.period
  PROVE  FoundOK(q)'
<1> SUFFICES ASSUME pc[q] = "commit" PROVE FoundOK(q)'
  BY DEF FoundOK
<1> DEFINE l == req[q].lesson
<1>1. AskedOK(q)
  BY DEF WInv
<1>2. ASSUME req[q].op = "complete"
      PROVE  lesson'[l].status = "SCHEDULED" /\ req[q].stamp \in Time
  BY <1>1, <1>2 DEF AskedOK, FoundOK, SameEarning
<1>3. ASSUME req[q].op = "submit"
      PROVE  /\ lesson'[l].status = "COMPLETED"
             /\ req[q].award => ~Finalized(l)'
  <2>1. /\ l \in Lesson /\ SameEarning(l) /\ TeacherOf[l] = req[q].teacher
        /\ lesson[l].status = "COMPLETED"
    BY <1>1, <1>3 DEF AskedOK, FoundOK
  <2>2. ASSUME req[q].award PROVE ~Finalized(l)'
    <3>1. ~Finalized(l) /\ lesson'[l].at = lesson[l].at
      BY <1>3, <2>1, <2>2 DEF FoundOK, SameEarning
    <3>2. l' = l
      OBVIOUS
    <3> HIDE DEF l
    <3> QED
      BY <2>1, <3>1, <3>2 DEF Finalized, Within
  <2> QED
    BY <2>1, <2>2 DEF SameEarning
<1>4. ASSUME req[q].op = "calculate"
      PROVE  req[q].amounts = Amounts(req[q].teacher, req[q].period)'
  <2>1. PICK t, p : t = req[q].teacher /\ p = req[q].period
    OBVIOUS
  <2>2. Amounts(t, p)' = Amounts(t, p)
    BY <2>1, AmountsKept
  <2>3. t = req'[q].teacher /\ p = req'[q].period
    BY <2>1
  <2>4. Amounts(req[q].teacher, req[q].period)' = Amounts(t, p)'
    BY <2>3 DEF Amounts
  <2>5. Amounts(req[q].teacher, req[q].period) = Amounts(t, p)
    BY <2>1
  <2> QED
    BY <1>4, <2>2, <2>4, <2>5 DEF FoundOK
<1> QED
  BY <1>2, <1>3, <1>4 DEF FoundOK

\* A step of one request changes what lessons of its own teacher earn, and stores
\* payouts of its own teacher, only; so the others find what they found.
LEMMA OthersFoundOK ==
  ASSUME PInv, WInv, BInv, NEW r \in Request, FoundOK(r)', TimesOK', PayoutsOK',
         IsFiniteSet(Completed)', Others(r),
         \A l \in Lesson : SameEarning(l) \/ holder[TeacherOf[l]] = r,
         \A p \in payouts' : \/ \E o \in payouts : o.teacher = p.teacher /\ o.period = p.period
                             \/ holder[p.teacher] = r
  PROVE  BInv'
<1>1. ASSUME NEW q \in Request \ {r} PROVE FoundOK(q)'
  <2>1. FoundOK(q) /\ RequestOK(q) /\ pc'[q] = pc[q] /\ req'[q] = req[q]
    BY <1>1 DEF PInv, BInv, Others
  <2>2. pc[q] = "commit" => holder[req[q].teacher] # r
    BY <1>1, <2>1 DEF RequestOK
  <2> QED
    BY <2>1, <2>2, FoundKept
<1> QED
  BY <1>1 DEF BInv

\* The totals of payouts stay right while no lesson of their periods earns less or more.
LEMMA PayoutsKept ==
  ASSUME BInv, TimesOK',
         \A p \in payouts : TotalBonus(Amounts(p.teacher, p.period)') =
                              TotalBonus(Amounts(p.teacher, p.period)),
         \A p \in payouts' : \E o \in payouts :
           /\ o.teacher = p.teacher /\ o.period = p.period
           /\ o.base = p.base /\ o.bonus = p.bonus
           /\ p.paidAt \in Time \/ p.paidAt = o.paidAt
  PROVE  PayoutsOK'
<1> SUFFICES ASSUME NEW p \in payouts' PROVE PayoutOK(p)'
  BY DEF PayoutsOK
<1>1. PICK o \in payouts :
        /\ o.teacher = p.teacher /\ o.period = p.period
        /\ o.base = p.base /\ o.bonus = p.bonus
        /\ p.paidAt \in Time \/ p.paidAt = o.paidAt
  OBVIOUS
<1>2. PayoutOK(o)
  BY DEF BInv, PayoutsOK
<1>3. p.base \in Nat /\ p.bonus \in Nat /\ p.paidAt \in Time \cup {None}
  BY <1>1, <1>2 DEF PayoutOK
<1>4. p.bonus = TotalBonus(Amounts(o.teacher, o.period)')
  BY <1>1, <1>2 DEF PayoutOK
<1>5. Amounts(o.teacher, o.period)' = Amounts(p.teacher, p.period)'
  BY <1>1
<1> QED
  BY <1>3, <1>4, <1>5 DEF PayoutOK

\* A step of a request that leaves the tables.
LEMMA TablesLeft ==
  ASSUME PInv, WInv, BInv, NEW r \in Request, FoundOK(r)', Others(r),
         UNCHANGED <<now, window, lesson, report, payouts>>
  PROVE  BInv'
<1>1. TimesOK'
  BY DEF BInv, TimesOK
<1>2. IsFiniteSet(Completed)'
  BY DEF BInv, Completed
<1>3. \A l \in Lesson : SameEarning(l)
  BY DEF SameEarning
<1>4. PayoutsOK'
  <2>1. \A p \in payouts : Amounts(p.teacher, p.period)' = Amounts(p.teacher, p.period)
    BY <1>3, AmountsKept
  <2> QED
    BY <1>1, <2>1, PayoutsKept
<1> QED
  BY <1>1, <1>2, <1>3, <1>4, OthersFoundOK

\* A request that asks, goes on to the lock or ends.
LEMMA NotCommitting ==
  ASSUME PInv, WInv, BInv, NEW r \in Request,
         Begin(r) \/ Save(r) \/ LockTeacherProfile(r) \/ Abort(r) \/ Reject(r)
  PROVE  BInv'
<1>1. req \in [Request -> AskType] /\ pc \in [Request -> Label]
  BY DEF PInv, TablesOK
<1>2. CASE Begin(r)
  <2>1. \E ask, label : label \in {"lock", "pay"} /\ Start(r, ask, label)
    <3>1. ASSUME NEW l \in Lesson, BeginComplete(r, l) \/ BeginSubmit(r, l)
          PROVE  \E ask : Start(r, ask, "lock")
      BY <3>1 DEF BeginComplete, BeginSubmit
    <3>2. ASSUME NEW p \in Period, BeginCalculateAll(r, p) \/ \E t \in Teacher : BeginPreview(r, t, p)
          PROVE  \E ask : Start(r, ask, "lock")
      BY <3>2, Zenon DEF BeginCalculateAll, BeginPreview
    <3>3. ASSUME NEW payout \in payouts, BeginPay(r, payout)
          PROVE  \E ask : Start(r, ask, "pay")
      BY <3>3 DEF BeginPay
    <3> QED
      BY <1>2, <3>1, <3>2, <3>3 DEF Begin
  <2>2. PICK ask, label : label \in {"lock", "pay"} /\ Start(r, ask, label)
    BY <2>1
  <2>3. pc'[r] # "commit" /\ Others(r) /\ UNCHANGED <<now, window, lesson, report, payouts>>
    BY <1>1, <2>2 DEF Start, Goto, Others
  <2> QED
    BY <2>3, TablesLeft DEF FoundOK
<1>3. CASE Save(r) \/ LockTeacherProfile(r) \/ Abort(r)
  <2>1. pc'[r] # "commit" /\ UNCHANGED <<now, window, lesson, report, payouts>>
    BY <1>1, <1>3 DEF Save, LockTeacherProfile, Abort, Goto
  <2>2. \A q \in Request \ {r} : pc'[q] = pc[q] /\ req'[q] = req[q]
    BY <1>1, <1>3 DEF Save, LockTeacherProfile, Abort, Goto
  <2>3. \A t \in Teacher : holder[t] \notin {None, r} => holder'[t] = holder[t]
    <3>1. CASE Save(r)
      BY <3>1 DEF Save
    <3>2. CASE LockTeacherProfile(r)
      BY <3>2 DEF LockTeacherProfile, PInv, TablesOK
    <3>3. CASE Abort(r)
      BY <3>3, ReleaseOK DEF Abort
    <3> QED
      BY <1>3, <3>1, <3>2, <3>3
  <2> QED
    BY <2>1, <2>2, <2>3, TablesLeft DEF FoundOK, Others
<1>4. CASE Reject(r)
  <2>1. Others(r) /\ pc'[r] # "commit" /\ UNCHANGED <<now, window, lesson, report, payouts>>
    BY <1>4, EndOK, EndAsks DEF Reject
  <2> QED
    BY <2>1, TablesLeft DEF FoundOK
<1> QED
  BY <1>2, <1>3, <1>4

\* What a request reads under the lock is so.
LEMMA ReadFound ==
  ASSUME PInv, WInv, BInv, NEW r \in Request, ReadComplete(r) \/ ReadSubmit(r) \/ ReadPeriod(r)
  PROVE  BInv'
<1>1. req \in [Request -> AskType] /\ pc \in [Request -> Label] /\ now \in Time
  BY DEF PInv, TablesOK, BInv, TimesOK
<1>2. CASE Reject(r)
  BY <1>2, NotCommitting
<1>3. ASSUME NEW ask, Proceed(r, ask)
      PROVE  /\ req'[r] = ask /\ Others(r) /\ UNCHANGED <<now, window, lesson, report, payouts>>
             /\ req' = [req EXCEPT ![r] = ask]
  BY <1>1, <1>3 DEF Proceed, Goto, Others
<1>4. CASE ReadComplete(r)
  <2> DEFINE ask == [req[r] EXCEPT !.stamp = now]
  <2>1. ask.op = "complete" /\ ask.lesson = req[r].lesson /\ ask.stamp = now
    BY <1>1, <1>4 DEF AskType, ReadComplete
  <2>2. CASE Proceed(r, ask) /\ lesson[req[r].lesson].status = "SCHEDULED"
    <3> HIDE DEF ask
    <3>1. FoundOK(r)'
      BY <1>1, <1>3, <2>1, <2>2 DEF FoundOK
    <3> QED
      BY <1>3, <2>2, <3>1, TablesLeft
  <2> QED
    BY <1>2, <1>4, <2>2 DEF ReadComplete
<1>5. CASE ReadSubmit(r)
  <2> DEFINE l == req[r].lesson
             ask == [req[r] EXCEPT !.award = AwardsBonus(l)]
  <2>1. ask.op = "submit" /\ ask.lesson = l /\ ask.award = AwardsBonus(l)
    BY <1>1, <1>5 DEF AskType, ReadSubmit
  <2>2. CASE Proceed(r, ask) /\ lesson[l].status = "COMPLETED"
    <3> HIDE DEF ask
    <3>1. req'[r].op = "submit" /\ req'[r].lesson = l /\ req'[r].award = AwardsBonus(l)
      BY <1>3, <2>1, <2>2
    <3>2. UNCHANGED <<lesson, payouts>>
      BY <1>3, <2>2
    <3>3. AwardsBonus(l) => ~Finalized(req[r].lesson)'
      BY <3>1, <3>2 DEF AwardsBonus, Finalized
    <3>4. FoundOK(r)'
      BY <2>2, <3>1, <3>2, <3>3 DEF FoundOK
    <3> QED
      BY <1>3, <2>2, <3>4, TablesLeft
  <2> QED
    BY <1>2, <1>5, <2>2 DEF ReadSubmit
<1>6. CASE ReadPeriod(r)
  <2> DEFINE t == req[r].teacher
             p == req[r].period
             ask == [req[r] EXCEPT !.amounts = Amounts(t, p)]
  <2>1. ask.op = req[r].op /\ ask.teacher = t /\ ask.period = p /\ ask.amounts = Amounts(t, p)
    BY <1>1 DEF AskType
  <2>2. req[r].op \in {"preview", "calculate"}
    BY <1>6 DEF ReadPeriod
  <2>3. CASE Proceed(r, ask)
    <3> HIDE DEF ask
    <3>1. /\ req'[r].op \in {"preview", "calculate"} /\ req'[r].teacher = t /\ req'[r].period = p
          /\ req'[r].amounts = Amounts(t, p)
      BY <1>3, <2>1, <2>2, <2>3
    <3>2. Amounts(req[r].teacher, req[r].period)' = Amounts(t, p)
      <4>1. UNCHANGED <<lesson, report>>
        BY <1>3, <2>3
      <4> QED
        BY <3>1, <4>1 DEF Amounts, Within
    <3>3. FoundOK(r)'
      BY <3>1, <3>2 DEF FoundOK
    <3> QED
      BY <1>3, <2>3, <3>3, TablesLeft
  <2>4. CASE /\ req' = [req EXCEPT ![r].token = Amounts(t, p)] /\ pc' = [pc EXCEPT ![r] = "reviewed"]
             /\ Release(r) /\ UNCHANGED <<now, window, lesson, report, payouts>>
    <3>1. pc'[r] # "commit" /\ Others(r)
      BY <1>1, <2>4, ReleaseOK DEF Others
    <3> QED
      BY <2>4, <3>1, TablesLeft DEF FoundOK
  <2> QED
    BY <1>2, <1>6, <2>3, <2>4 DEF ReadPeriod, Goto
<1> QED
  BY <1>4, <1>5, <1>6

\* Completing a lesson adds an amount without a bonus.
LEMMA CommitCompletePays ==
  ASSUME PInv, WInv, BInv, NEW r \in Request, CommitComplete(r)
  PROVE  BInv'
<1> DEFINE l == req[r].lesson
<1>1. /\ AskedOK(r) /\ RequestOK(r) /\ FoundOK(r) /\ LessonsOK /\ TimesOK
      /\ pc[r] = "commit" /\ req[r].op = "complete"
  BY DEF PInv, WInv, BInv, CommitComplete
<1>2. /\ l \in Lesson /\ holder[TeacherOf[l]] = r
      /\ lesson[l].status = "SCHEDULED" /\ req[r].stamp \in Time
  BY <1>1 DEF AskedOK, RequestOK, FoundOK
<1>3. /\ lesson'[l].status = "COMPLETED" /\ lesson'[l].completedAt = req[r].stamp
      /\ lesson'[l].at = lesson[l].at
      /\ \A k \in Lesson : k # l => lesson'[k] = lesson[k]
      /\ UNCHANGED <<now, window, report, payouts>> /\ End(r)
  <2>1. lesson \in [Lesson -> LessonType] /\ lesson[l] \in LessonType
    BY <1>1, <1>2 DEF LessonsOK
  <2> HIDE DEF l
  <2> QED
    BY <1>2, <2>1 DEF CommitComplete, LessonType, l
<1>4. FoundOK(r)' /\ Others(r)
  BY <1>3, EndOK, EndAsks DEF FoundOK
<1>5. PICK k \in Lesson : k = l
  BY <1>2
<1> HIDE DEF l
<1>6. IsFiniteSet(Completed)'
  <2>1. Completed' = Completed \cup {k}
    BY <1>3, <1>5 DEF Completed
  <2> QED
    BY <2>1, FS_AddElement DEF BInv
<1>7. TimesOK'
  <2>1. ASSUME NEW m \in Lesson
        PROVE  /\ lesson'[m].status # "COMPLETED" => report[m].bonus = 0
               /\ lesson'[m].completedAt \in Time \cup {None}
               /\ lesson'[m].status = "COMPLETED" <=> lesson'[m].completedAt # None
    <3>1. None \notin Time
      BY PayoutAssumption
    <3>2. CASE m = l
      BY <1>2, <1>3, <3>1, <3>2
    <3>3. CASE m # l
      BY <1>1, <1>3, <3>3 DEF TimesOK
    <3> QED
      BY <3>2, <3>3
  <2> QED
    BY <1>1, <1>3, <2>1 DEF TimesOK
<1>8. ASSUME NEW p \in payouts
      PROVE  TotalBonus(Amounts(p.teacher, p.period)') = TotalBonus(Amounts(p.teacher, p.period))
  <2> DEFINE a == [lesson |-> k, base |-> Rate[k], bonus |-> report[k].bonus]
             S == Amounts(p.teacher, p.period)
             counts == TeacherOf[k] = p.teacher /\ Within(lesson[k].at, p.period)
  <2>1. Amounts(p.teacher, p.period)' = IF counts THEN S \cup {a} ELSE S
    BY <1>2, <1>3, <1>5 DEF Amounts, Within
  <2>2. a \in AmountType /\ a.bonus = 0 /\ a \notin S
    <3>1. report[k] \in ReportType /\ report[k].bonus = 0
      BY <1>1, <1>2, <1>5 DEF TimesOK, PInv, TablesOK
    <3>2. Rate[k] \in Nat
      BY PayoutAssumption
    <3>3. \A b \in S : b.lesson # k
      BY <1>2, <1>5 DEF Amounts
    <3> QED
      BY <3>1, <3>2, <3>3 DEF AmountType
  <2>3. IsFiniteSet(S) /\ S \in SUBSET AmountType
    BY AmountsFinite, AmountsTyped
  <2> HIDE DEF a, S, counts
  <2>4. TotalBonus(S \cup {a}) = TotalBonus(S)
    BY <2>2, <2>3, NoBonusAdded
  <2> QED
    BY <2>1, <2>4 DEF S
<1>9. PayoutsOK'
  <2>1. UNCHANGED payouts
    BY <1>3
  <2> QED
    BY <1>7, <1>8, <2>1, PayoutsKept
<1>10. \A m \in Lesson : SameEarning(m) \/ holder[TeacherOf[m]] = r
  BY <1>2, <1>3 DEF SameEarning
<1> QED
  BY <1>3, <1>4, <1>6, <1>7, <1>9, <1>10, OthersFoundOK

\* A submission that earns a bonus is of a lesson no payout covers.
LEMMA CommitSubmitPays ==
  ASSUME PInv, WInv, BInv, NEW r \in Request, CommitSubmit(r)
  PROVE  BInv'
<1> DEFINE l == req[r].lesson
<1>1. /\ AskedOK(r) /\ RequestOK(r) /\ FoundOK(r) /\ LessonsOK /\ TimesOK
      /\ pc[r] = "commit" /\ req[r].op = "submit"
  BY DEF PInv, WInv, BInv, CommitSubmit
<1>2. /\ l \in Lesson /\ holder[TeacherOf[l]] = r
      /\ lesson[l].status = "COMPLETED" /\ (req[r].award => ~Finalized(l))
  BY <1>1 DEF AskedOK, RequestOK, FoundOK
<1>3. /\ report'[l].bonus = IF req[r].award THEN BonusAmount ELSE report[l].bonus
      /\ \A k \in Lesson : k # l => report'[k] = report[k]
      /\ UNCHANGED <<now, window, lesson, payouts>> /\ End(r)
  <2>1. report \in [Lesson -> ReportType]
    BY DEF PInv, TablesOK
  <2> HIDE DEF l
  <2> QED
    BY <1>2, <2>1 DEF CommitSubmit, l
<1>4. FoundOK(r)' /\ Others(r)
  BY <1>3, EndOK, EndAsks DEF FoundOK
<1> HIDE DEF l
<1>5. IsFiniteSet(Completed)'
  BY <1>3 DEF BInv, Completed
<1>6. TimesOK'
  BY <1>1, <1>2, <1>3 DEF TimesOK
<1>7. ASSUME NEW p \in payouts
      PROVE  TotalBonus(Amounts(p.teacher, p.period)') = TotalBonus(Amounts(p.teacher, p.period))
  <2>1. Amounts(p.teacher, p.period)' = Amounts(p.teacher, p.period)
    <3> DEFINE S == {m \in Lesson : /\ TeacherOf[m] = p.teacher
                                    /\ lesson[m].status = "COMPLETED"
                                    /\ Within(lesson[m].at, p.period)}
    <3>1. \A m \in S : report'[m].bonus = report[m].bonus
      BY <1>2, <1>3 DEF Finalized
    <3> HIDE DEF S
    <3>2. {[lesson |-> m, base |-> Rate[m], bonus |-> report'[m].bonus] : m \in S}
          = {[lesson |-> m, base |-> Rate[m], bonus |-> report[m].bonus] : m \in S}
      BY <3>1
    <3>3. S' = S
      BY <1>3 DEF S, Within
    <3> QED
      BY <3>2, <3>3 DEF Amounts, S
  <2> QED
    BY <2>1
<1>8. PayoutsOK'
  <2>1. UNCHANGED payouts
    BY <1>3
  <2> QED
    BY <1>6, <1>7, <2>1, PayoutsKept
<1>9. \A m \in Lesson : SameEarning(m) \/ holder[TeacherOf[m]] = r
  BY <1>2, <1>3 DEF SameEarning
<1> QED
  BY <1>3, <1>4, <1>5, <1>6, <1>8, <1>9, OthersFoundOK

\* A payout is stored with the totals its lessons have now.
LEMMA CommitPayoutPays ==
  ASSUME PInv, WInv, BInv, NEW r \in Request, CommitPayout(r)
  PROVE  BInv'
<1>1. /\ FoundOK(r) /\ pc[r] = "commit" /\ req[r].op = "calculate" /\ End(r)
      /\ UNCHANGED <<now, window, lesson, report>>
  BY DEF BInv, CommitPayout
<1>2. /\ payouts' = payouts \cup {NewPayout(r)} /\ holder[req[r].teacher] = r
      /\ NewPayout(r).teacher = req[r].teacher /\ NewPayout(r).period = req[r].period
      /\ NewPayout(r).base = TotalBase(req[r].amounts)
      /\ NewPayout(r).bonus = TotalBonus(req[r].amounts) /\ NewPayout(r).paidAt = None
  BY CommitPayoutFacts DEF NewPayout
<1>3. FoundOK(r)' /\ Others(r)
  BY <1>1, EndOK, EndAsks DEF FoundOK
<1>4. TimesOK' /\ IsFiniteSet(Completed)'
  BY <1>1 DEF BInv, TimesOK, Completed
<1>5. \A l \in Lesson : SameEarning(l)
  BY <1>1 DEF SameEarning
<1>6. \A t, p : Amounts(t, p)' = Amounts(t, p)
  BY <1>5, AmountsKept
<1>7. PICK new : new = NewPayout(r)
  OBVIOUS
<1>8. PayoutsOK'
  <2>1. ASSUME NEW p \in payouts PROVE PayoutOK(p)'
    BY <1>6 DEF BInv, PayoutsOK, PayoutOK
  <2>2. PayoutOK(new)'
    <3> DEFINE S == Amounts(req[r].teacher, req[r].period)
    <3>1. req[r].amounts = S
      BY <1>1 DEF FoundOK
    <3>2. TotalBase(S) \in Nat /\ TotalBonus(S) \in Nat
      BY AmountsFinite, AmountsTyped, TotalsAreNumbers
    <3>3. Amounts(new.teacher, new.period)' = S
      BY <1>2, <1>6, <1>7
    <3> HIDE DEF S
    <3> QED
      BY <1>2, <1>7, <3>1, <3>2, <3>3 DEF PayoutOK
  <2> QED
    BY <1>2, <1>7, <2>1, <2>2 DEF PayoutsOK
<1>9. \A p \in payouts' : \/ \E o \in payouts : o.teacher = p.teacher /\ o.period = p.period
                          \/ holder[p.teacher] = r
  BY <1>2
<1> QED
  BY <1>3, <1>4, <1>5, <1>8, <1>9, OthersFoundOK

\* Paying leaves the totals.
LEMMA PayPays == ASSUME PInv, WInv, BInv, NEW r \in Request, Pay(r) PROVE BInv'
<1>1. /\ payouts' = {PaidOf(p, r) : p \in payouts} /\ End(r)
      /\ UNCHANGED <<now, window, lesson, report>>
  BY DEF Pay, PaidOf
<1>2. FoundOK(r)' /\ Others(r)
  BY <1>1, EndOK, EndAsks DEF FoundOK
<1>3. TimesOK' /\ IsFiniteSet(Completed)'
  BY <1>1 DEF BInv, TimesOK, Completed
<1>4. \A l \in Lesson : SameEarning(l)
  BY <1>1 DEF SameEarning
<1>5. \A p \in payouts : Amounts(p.teacher, p.period)' = Amounts(p.teacher, p.period)
  BY <1>4, AmountsKept
<1>6. ASSUME NEW p \in payouts'
      PROVE  \E o \in payouts : /\ o.teacher = p.teacher /\ o.period = p.period
                                /\ o.base = p.base /\ o.bonus = p.bonus
                                /\ p.paidAt \in Time \/ p.paidAt = o.paidAt
  <2>1. PICK o \in payouts : p = PaidOf(o, r)
    BY <1>1
  <2>2. PaidOf(o, r).paidAt \in {now, o.paidAt} /\ now \in Time
    BY DEF PaidOf, BInv, TimesOK, PInv, TablesOK, PayoutType
  <2> QED
    BY <2>1, <2>2, PaidFacts
<1>7. PayoutsOK'
  BY <1>3, <1>5, <1>6, PayoutsKept
<1> QED
  BY <1>2, <1>3, <1>4, <1>6, <1>7, OthersFoundOK

\* Steps that no request takes change no lesson that counts, and no bonus.
LEMMA AlonePays ==
  ASSUME PInv, WInv, BInv,
         \/ \E l \in Lesson : CreateReport(l) \/ UpdateReport(l) \/ \E at \in Slot : MoveLesson(l, at)
         \/ GrowWindow \/ Tick \/ UNCHANGED vars
  PROVE  BInv'
<1>1. /\ LessonsOK /\ TimesOK /\ report \in [Lesson -> ReportType]
  BY DEF WInv, BInv, PInv, TablesOK
<1>2. UNCHANGED <<payouts, holder, pc, req>>
  BY DEF CreateReport, UpdateReport, MoveLesson, GrowWindow, Tick, vars
<1>3. ASSUME NEW l \in Lesson
      PROVE  SameEarning(l) /\ lesson'[l].completedAt = lesson[l].completedAt
  <2>1. CASE UNCHANGED <<lesson, report>>
    BY <2>1 DEF SameEarning
  <2>2. ASSUME NEW k \in Lesson, NEW at \in Slot, MoveLesson(k, at)
        PROVE  SameEarning(l) /\ lesson'[l].completedAt = lesson[l].completedAt
    BY <1>1, <2>2 DEF MoveLesson, SameEarning, LessonsOK, LessonType
  <2>3. ASSUME NEW k \in Lesson, CreateReport(k) \/ UpdateReport(k)
        PROVE  SameEarning(l) /\ lesson'[l].completedAt = lesson[l].completedAt
    BY <1>1, <2>3 DEF CreateReport, UpdateReport, SameEarning, ReportType
  <2> QED
    BY <2>1, <2>2, <2>3 DEF GrowWindow, Tick, vars
<1>4. now' \in Time /\ window' \in Windows
  <2>1. now \in Time /\ window \in Windows
    BY <1>1 DEF TimesOK
  <2>2. Tick => now' \in Time
    BY <2>1, PayoutAssumption DEF Tick, Time
  <2>3. GrowWindow => window' \in Windows
    BY DEF GrowWindow
  <2> QED
    BY <2>1, <2>2, <2>3 DEF CreateReport, UpdateReport, MoveLesson, GrowWindow, Tick, vars
<1>5. TimesOK'
  BY <1>1, <1>3, <1>4 DEF TimesOK, SameEarning
<1>6. IsFiniteSet(Completed)'
  <2>1. Completed' = Completed
    BY <1>3 DEF Completed, SameEarning
  <2> QED
    BY <2>1 DEF BInv
<1>7. PayoutsOK'
  <2>1. \A p \in payouts : Amounts(p.teacher, p.period)' = Amounts(p.teacher, p.period)
    BY <1>3, AmountsKept
  <2> QED
    BY <1>2, <1>5, <2>1, PayoutsKept
<1>8. ASSUME NEW q \in Request PROVE FoundOK(q)'
  BY <1>2, <1>3, FoundKept DEF BInv
<1> QED
  BY <1>5, <1>6, <1>7, <1>8 DEF BInv

\* At first nothing is completed and nothing is paid.
LEMMA BInit == Init => BInv
<1> SUFFICES ASSUME Init PROVE BInv
  OBVIOUS
<1>1. IsFiniteSet(Completed)
  <2>1. Completed = {}
    BY DEF Init, Completed
  <2> QED
    BY <2>1, FS_EmptySet
<1>2. TimesOK
  BY PayoutAssumption DEF Init, TimesOK, NoReport, Time
<1>3. (\A r \in Request : FoundOK(r)) /\ PayoutsOK
  BY DEF Init, FoundOK, PayoutsOK
<1> QED
  BY <1>1, <1>2, <1>3 DEF BInv

LEMMA BStep == PInv /\ WInv /\ BInv /\ [Next]_vars => BInv'
<1> SUFFICES ASSUME PInv, WInv, BInv, [Next]_vars PROVE BInv'
  OBVIOUS
<1>1. ASSUME NEW r \in Request, Statement(r) PROVE BInv'
  BY <1>1, NotCommitting, ReadFound, CommitCompletePays, CommitSubmitPays, CommitPayoutPays,
     PayPays DEF Statement
<1> QED
  BY <1>1, NotCommitting, AlonePays DEF Next

\* What completions, submissions, calculations and payments keep, together.
LEMMA BInvariance == Spec => []BInv
BY PInvariance, WInit, WStep, BInit, BStep, PTL DEF Spec

\* The bonus of a stored payout is for ever the sum of the bonuses of its period's
\* lessons: the amounts found under the teacher's lock are those at the commit; a
\* lesson completed later for the period brings no bonus, and none is awarded for
\* a lesson a payout covers (payouts.service.ts, reports.service.ts).
THEOREM BonusesArePaid == Spec => []BonusesPaid
<1>1. BInv => BonusesPaid
  BY DEF BInv, PayoutsOK, PayoutOK, BonusesPaid
<1> QED
  BY <1>1, BInvariance, PTL

\* Every variable keeps its type, and a lesson has a completion time exactly when
\* it is completed.
THEOREM PayoutsTypeCorrect == Spec => []TypeOK
<1>1. PInv /\ WInv /\ BInv => TypeOK
  <2> SUFFICES ASSUME PInv, WInv, BInv PROVE TypeOK
    OBVIOUS
  <2>1. TablesOK /\ LessonsOK /\ TimesOK /\ PayoutsOK
    BY DEF PInv, WInv, BInv
  <2>2. lesson \in [Lesson -> [status: {"SCHEDULED", "COMPLETED"}, at: Slot,
                               completedAt: Time \cup {None}]]
    BY <2>1 DEF LessonsOK, LessonType, TimesOK
  <2>3. report \in [Lesson -> [status: {"NONE", "DRAFT", "SUBMITTED"},
                               submitted: BOOLEAN, bonus: {0, BonusAmount}]]
    BY <2>1 DEF TablesOK, ReportType
  <2>4. ASSUME NEW payout \in payouts
        PROVE  payout \in [teacher: Teacher, period: Period, base: Nat, bonus: Nat,
                           status: {"PENDING", "PAID"}, paidAt: Time \cup {None}]
    BY <2>1 DEF TablesOK, PayoutType, PayoutsOK, PayoutOK
  <2> QED
    BY <2>1, <2>2, <2>3, <2>4 DEF TypeOK, TablesOK, TimesOK, Label
<1> QED
  BY <1>1, PInvariance, WInit, WStep, BInvariance, PTL DEF Spec
===============================================================================
