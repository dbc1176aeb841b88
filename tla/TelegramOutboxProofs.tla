------------------------- MODULE TelegramOutboxProofs -------------------------
(***************************************************************************)
(* Proofs about TelegramOutbox for any number of events, recipients,       *)
(* workers, attempts, texts and bindings, whether or not workers are       *)
(* timely.  The first part is about rows and leases.  The second is about  *)
(* what the outbox leaves in the chats: every step is reduced to what it   *)
(* may do to one row, one worker, one chat and the report (StepEffect);    *)
(* the invariants are then shown to survive these effects, whichever       *)
(* action they come from.  The third shows that timely workers implement   *)
(* TelegramNotices, the fourth gives every variable its bounds.            *)
(***************************************************************************)
EXTENDS TelegramOutbox, SequenceTheorems, TLAPS

RowType == [desired: Nat, delivered: Nat, message: Nat, attempts: Nat,
            canceled: BOOLEAN, failed: BOOLEAN, due: BOOLEAN,
            lease: Worker \cup {None}, leaseVersion: Nat, expired: BOOLEAN]

Label == {"idle", "resolve", "check", "send", "ack", "record", "cancel", "deactivate"}

MessageType == [text: Nat, had: SUBSET Nat]

BindingType == [version: Nat, linked: BOOLEAN]

JobType == [key: Key \cup {None}, version: Nat, message: Nat, attempts: Nat,
            outcome: Outcome]

\* A row is leased only while it is open: whoever closes it takes the lease
\* away.  No more is delivered than was asked for.
RowOK(k) ==
    /\ row[k] \in RowType
    /\ row[k].delivered <= row[k].desired
    /\ row[k].lease # None => Open(row[k])
    /\ Open(row[k]) => Current(k)

RowsOK == row \in [Key -> RowType] /\ \A k \in Key : RowOK(k)

\* A worker that is not idle has claimed a row.
WorkersOK ==
    /\ pc \in [Worker -> Label]
    /\ job \in [Worker -> JobType]
    /\ \A w \in Worker : pc[w] # "idle" => job[w].key \in Key

ShownOK == shown \in [Key -> Seq(MessageType)]

BindingsOK == binding \in [Recipient -> BindingType]

OInv == BindingsOK /\ RowsOK /\ WorkersOK /\ ShownOK

\* The recipient of a row is a recipient, and its version a number.
LEMMA KeyFacts ==
  ASSUME NEW k \in Key
  PROVE  /\ EventOf(k) \in Event /\ VersionOf(k) \in Nat
         /\ RecipientOf[EventOf(k)] \in Recipient
BY OutboxAssumption DEF Key, EventOf, VersionOf

\* Nothing is queued, nobody works and every row is missing at first.
LEMMA OInit == Init => OInv
<1> SUFFICES ASSUME Init PROVE OInv
  OBVIOUS
<1>1. BindingsOK
  BY DEF Init, BindingsOK, BindingType
<1>2. RowsOK
  BY DEF Init, RowsOK, RowOK, RowType, NoRow, Open, Waiting
<1>3. WorkersOK
  BY DEF Init, WorkersOK, JobType, NoJob, Outcome, Label
<1>4. ShownOK
  BY DEF Init, ShownOK
<1> QED
  BY <1>1, <1>2, <1>3, <1>4 DEF OInv

\* While the bindings stay, it is enough that each row keeps its type and its
\* lease in order, and opens only under the present binding.
LEMMA RowsKept ==
  ASSUME OInv, UNCHANGED binding, row' \in [Key -> RowType],
         \A k \in Key : /\ row'[k].delivered <= row'[k].desired
                        /\ row'[k].lease # None => Open(row'[k])
                        /\ Open(row'[k]) => Open(row[k]) \/ Current(k)
  PROVE  BindingsOK' /\ RowsOK'
BY DEF OInv, BindingsOK, RowsOK, RowOK, Current

\* A worker that ends is idle.
LEMMA FinishOK ==
  ASSUME OInv, NEW w \in Worker, Finish(w)
  PROVE  WorkersOK'
<1>1. NoJob \in JobType
  BY DEF NoJob, JobType, Outcome
<1> QED
  BY <1>1 DEF OInv, WorkersOK, Finish, Label

\* A worker that goes on keeps its claim.
LEMMA GotoOK ==
  ASSUME OInv, NEW w \in Worker, NEW label \in Label, Goto(w, label), pc[w] # "idle",
         job' \in [Worker -> JobType],
         \A v \in Worker : job'[v].key = job[v].key
  PROVE  WorkersOK'
BY DEF OInv, WorkersOK, Goto

\* A producer gives a text to rows of the present binding only.
LEMMA EnqueueOK ==
  ASSUME OInv, NEW es, Enqueue(es), UNCHANGED binding
  PROVE  BindingsOK' /\ RowsOK'
<1> DEFINE asked == {k \in Key : EventOf(k) \in es /\ Current(k)}
<1>1. row' = [k \in Key |-> IF k \in asked THEN Rewritten(row[k]) ELSE row[k]]
  BY DEF Enqueue
<1>2. \A k \in Key : row[k] \in RowType
  BY DEF OInv, RowsOK
<1>3. \A k \in Key : Rewritten(row[k]) \in RowType
  <2> TAKE k \in Key
  <2>1. row[k].desired + 1 \in Nat
    BY <1>2 DEF RowType
  <2> QED
    BY <1>2, <2>1 DEF Rewritten, RowType
<1>4. \A k \in Key : /\ Rewritten(row[k]).delivered <= Rewritten(row[k]).desired
                     /\ Open(Rewritten(row[k]))
  BY <1>2 DEF Rewritten, RowType, Open, Waiting, OInv, RowsOK, RowOK
<1>5. row' \in [Key -> RowType]
  BY <1>1, <1>2, <1>3
<1>6. ASSUME NEW k \in Key
      PROVE  /\ row'[k].delivered <= row'[k].desired
             /\ row'[k].lease # None => Open(row'[k])
             /\ Open(row'[k]) => Open(row[k]) \/ Current(k)
  <2>1. CASE k \in asked
    BY <1>1, <1>4, <2>1
  <2>2. CASE k \notin asked
    BY <1>1, <2>2 DEF OInv, RowsOK, RowOK
  <2> QED
    BY <2>1, <2>2
<1> QED
  BY <1>5, <1>6, RowsKept

\* A change of binding closes every row of the recipient that was open.
LEMMA RebindOK ==
  ASSUME OInv, NEW u \in Recipient, NEW linked \in BOOLEAN, NextBinding(u, linked),
         row' \in [Key -> RowType],
         \A k \in Key :
            /\ row'[k] = row[k] \/ row'[k] = Canceled(row[k])
            /\ Bound(u, k) /\ Open(row[k]) => row'[k] = Canceled(row[k])
  PROVE  BindingsOK' /\ RowsOK'
<1>1. BindingsOK'
  BY DEF NextBinding, OInv, BindingsOK, BindingType
<1>2. ASSUME NEW k \in Key PROVE RowOK(k)'
  <2>1. row[k] \in RowType /\ RowOK(k)
    BY DEF OInv, RowsOK
  <2>2. CASE row'[k] = Canceled(row[k])
    <3>1. /\ row'[k].canceled /\ row'[k].lease = None
          /\ row'[k].delivered = row[k].delivered /\ row'[k].desired = row[k].desired
      BY <2>1, <2>2 DEF Canceled, RowType
    <3> QED
      BY <2>1, <3>1 DEF RowOK, Open
  <2>3. CASE row'[k] = row[k] /\ row'[k] # Canceled(row[k])
    <3>1. ~(Bound(u, k) /\ Open(row[k]))
      BY <2>3
    <3>2. CASE ~Open(row[k])
      BY <2>1, <2>3, <3>2 DEF RowOK
    <3>3. CASE ~Bound(u, k)
      <4>1. binding'[RecipientOf[EventOf(k)]] = binding[RecipientOf[EventOf(k)]]
        BY <3>3, KeyFacts DEF Bound, NextBinding, OInv, BindingsOK
      <4>2. Current(k)' <=> Current(k)
        BY <4>1 DEF Current
      <4> QED
        BY <2>1, <2>3, <4>2 DEF RowOK
    <3> QED
      BY <3>1, <3>2, <3>3
  <2> QED
    BY <2>2, <2>3
<1> QED
  BY <1>1, <1>2 DEF RowsOK

\* cancelRecipient closes every open row of its recipient.
LEMMA CancelOpenOK ==
  ASSUME OInv, NEW u \in Recipient, NEW linked \in BOOLEAN,
         NextBinding(u, linked), CancelOpen(u)
  PROVE  BindingsOK' /\ RowsOK'
<1>1. \A k \in Key : row[k] \in RowType /\ Canceled(row[k]) \in RowType
  BY DEF OInv, RowsOK, Canceled, RowType
<1>2. row' \in [Key -> RowType]
  BY <1>1 DEF CancelOpen
<1>3. \A k \in Key :
         /\ row'[k] = row[k] \/ row'[k] = Canceled(row[k])
         /\ Bound(u, k) /\ Open(row[k]) => row'[k] = Canceled(row[k])
  BY DEF CancelOpen
<1> QED
  BY <1>2, <1>3, RebindOK

\* Deactivating a user closes more rows than a change of binding does.
LEMMA DeactivateUserOK ==
  ASSUME OInv, NEW u \in Recipient, DeactivateUser(u)
  PROVE  OInv'
<1>1. \A k \in Key : row[k] \in RowType /\ Canceled(row[k]) \in RowType
  BY DEF OInv, RowsOK, Canceled, RowType
<1>2. row' \in [Key -> RowType]
  BY <1>1 DEF DeactivateUser
<1>3. \A k \in Key : Open(row[k]) => row[k].desired > 0 /\ ~row[k].canceled
  BY <1>1 DEF Open, Waiting, RowType
<1>4. \A k \in Key :
         /\ row'[k] = row[k] \/ row'[k] = Canceled(row[k])
         /\ Bound(u, k) /\ Open(row[k]) => row'[k] = Canceled(row[k])
  BY <1>3 DEF DeactivateUser
<1>5. NextBinding(u, FALSE)
  BY DEF DeactivateUser
<1>6. WorkersOK' /\ ShownOK'
  BY DEF DeactivateUser, OInv, WorkersOK, ShownOK
<1> QED
  BY <1>2, <1>4, <1>5, <1>6, RebindOK DEF OInv

\* No producer and no change of a binding leaves a row of an old binding open.
LEMMA ProduceOK == ASSUME OInv, Produce PROVE OInv'
<1>1. ASSUME NEW e \in Event, Announce(e) PROVE OInv'
  BY <1>1, EnqueueOK DEF Announce, OInv, WorkersOK, ShownOK
<1>2. ASSUME NEW e \in Event, ChangeSubject(e) PROVE OInv'
  BY <1>2 DEF ChangeSubject, OInv, WorkersOK, ShownOK, RowsOK, RowOK, BindingsOK, Current
<1>3. CASE UpdateReport
  BY <1>3 DEF UpdateReport, OInv, WorkersOK, ShownOK, RowsOK, RowOK, BindingsOK, Current
<1>4. ASSUME NEW changed \in SUBSET Part, SubmitReport(changed) PROVE OInv'
  BY <1>4, EnqueueOK DEF SubmitReport, OInv, WorkersOK, ShownOK
<1>5. ASSUME NEW u \in Recipient, NEW linked \in BOOLEAN, Rebind(u, linked) PROVE OInv'
  BY <1>5, CancelOpenOK DEF Rebind, OInv, WorkersOK, ShownOK
<1> QED
  BY <1>1, <1>2, <1>3, <1>4, <1>5, DeactivateUserOK DEF Produce

\* Sweeping only closes rows.
LEMMA SweptOK ==
  ASSUME OInv, NEW k \in Key
  PROVE  /\ Swept[k] \in RowType
         /\ Swept[k].delivered <= Swept[k].desired
         /\ Swept[k].lease # None => Open(Swept[k])
         /\ Open(Swept[k]) => Open(row[k])
<1>1. row[k] \in RowType /\ RowOK(k)
  BY DEF OInv, RowsOK
<1>2. CASE Abandoned(row[k])
  <2>1. Swept[k] = [Unleased(row[k]) EXCEPT !.failed = TRUE]
    BY <1>2 DEF Swept
  <2>2. /\ Swept[k] \in RowType
        /\ Swept[k].failed /\ Swept[k].lease = None
        /\ Swept[k].delivered = row[k].delivered /\ Swept[k].desired = row[k].desired
    BY <1>1, <2>1 DEF Unleased, RowType
  <2> QED
    BY <1>1, <2>2 DEF Open, RowOK
<1>3. CASE ~Abandoned(row[k])
  BY <1>1, <1>3 DEF Swept, RowOK
<1> QED
  BY <1>2, <1>3

\* A claim takes an open row and leaves it open.
LEMMA ClaimRowOK ==
  ASSUME OInv, NEW w \in Worker, NEW k \in Key, ClaimRow(w, k)
  PROVE  OInv'
<1> DEFINE claimed == [Swept[k] EXCEPT !.lease = w, !.leaseVersion = row[k].desired,
                                       !.expired = FALSE, !.attempts = @ + 1]
<1>1. row[k] \in RowType /\ Open(row[k]) /\ ~Abandoned(row[k])
  BY OutboxAssumption DEF OInv, RowsOK, RowOK, ClaimRow, Claimable, Abandoned, RowType
<1>2. Swept[k] = row[k]
  BY <1>1 DEF Swept
<1>3. row' = [Swept EXCEPT ![k] = claimed]
  BY DEF ClaimRow, Swept
<1>4. /\ claimed \in RowType /\ claimed.delivered = row[k].delivered
      /\ claimed.desired = row[k].desired /\ Open(claimed)
  <2>1. row[k].attempts + 1 \in Nat /\ row[k].desired \in Nat
    BY <1>1 DEF RowType
  <2>2. claimed \in RowType
    BY <1>1, <1>2, <2>1 DEF RowType
  <2>3. /\ claimed.delivered = row[k].delivered /\ claimed.desired = row[k].desired
        /\ claimed.canceled = row[k].canceled /\ claimed.failed = row[k].failed
    BY <1>1, <1>2 DEF RowType
  <2> QED
    BY <1>1, <2>2, <2>3 DEF Open, Waiting
<1>5. \A q \in Key : row'[q] = IF q = k THEN claimed ELSE Swept[q]
  BY <1>3 DEF Swept
<1>6. row' \in [Key -> RowType]
  BY <1>3, <1>4, SweptOK DEF Swept
<1>7. \A q \in Key : /\ row'[q].delivered <= row'[q].desired
                     /\ row'[q].lease # None => Open(row'[q])
                     /\ Open(row'[q]) => Open(row[q]) \/ Current(q)
  <2> TAKE q \in Key
  <2>1. CASE q = k
    <3>1. row[k].delivered <= row[k].desired
      BY DEF OInv, RowsOK, RowOK
    <3> QED
      BY <1>1, <1>4, <1>5, <2>1, <3>1
  <2>2. CASE q # k
    BY <1>5, <2>2, SweptOK
  <2> QED
    BY <2>1, <2>2
<1>8. BindingsOK' /\ RowsOK'
  BY <1>6, <1>7, RowsKept DEF ClaimRow
<1>9. WorkersOK'
  <2>1. job'[w].key = k /\ \A v \in Worker \ {w} : job'[v] = job[v] /\ pc'[v] = pc[v]
    BY DEF ClaimRow, Goto, OInv, WorkersOK
  <2>2. pc' \in [Worker -> Label]
    BY DEF ClaimRow, Goto, OInv, WorkersOK, Label
  <2>3. job' \in [Worker -> JobType]
    BY <1>1 DEF ClaimRow, OInv, WorkersOK, JobType, RowType, Outcome
  <2> QED
    BY <2>1, <2>2, <2>3 DEF OInv, WorkersOK
<1> QED
  BY <1>8, <1>9 DEF OInv, ClaimRow, ShownOK

\* Claiming and sweeping leave the invariant.
LEMMA ClaimOK ==
  ASSUME OInv, NEW w \in Worker, Claim(w)
  PROVE  OInv'
<1>1. CASE SweepOnly(w)
  <2>1. row' = Swept /\ UNCHANGED <<binding, pc, job>>
    BY <1>1 DEF SweepOnly
  <2>2. row' \in [Key -> RowType]
    BY <2>1, SweptOK DEF Swept
  <2>3. BindingsOK' /\ RowsOK'
    BY <2>1, <2>2, SweptOK, RowsKept
  <2> QED
    BY <1>1, <2>1, <2>3 DEF OInv, WorkersOK, ShownOK, SweepOnly
<1> QED
  BY <1>1, ClaimRowOK DEF Claim

\* A worker that holds the lease of its row closes it, or leaves it open
\* without its lease.
LEMMA LetGo ==
  ASSUME OInv, NEW k \in Key, NEW new \in RowType, UNCHANGED binding,
         row' = [row EXCEPT ![k] = new],
         new.lease = None, new.delivered <= new.desired,
         Open(row[k])
  PROVE  BindingsOK' /\ RowsOK'
<1>1. row' \in [Key -> RowType]
  BY DEF OInv, RowsOK
<1>2. \A q \in Key : row'[q] = IF q = k THEN new ELSE row[q]
  BY DEF OInv, RowsOK
<1>3. \A q \in Key : /\ row'[q].delivered <= row'[q].desired
                     /\ row'[q].lease # None => Open(row'[q])
                     /\ Open(row'[q]) => Open(row[q]) \/ Current(q)
  BY <1>2 DEF OInv, RowsOK, RowOK
<1> QED
  BY <1>1, <1>3, RowsKept

\* The lease of a worker's row is held by nobody but an open row's worker.
LEMMA HeldIsOpen ==
  ASSUME OInv, NEW w \in Worker, pc[w] # "idle", HoldsLease(w)
  PROVE  job[w].key \in Key /\ Open(row[job[w].key])
BY OutboxAssumption DEF OInv, WorkersOK, RowsOK, RowOK, HoldsLease

\* Rows and bindings that do not change stay in order.
LEMMA RowsStay ==
  ASSUME OInv, UNCHANGED <<binding, row>>
  PROVE  BindingsOK' /\ RowsOK'
BY DEF OInv, BindingsOK, RowsOK, RowOK, Current

\* Before and while it calls Telegram a worker writes no row.
LEMMA CallOK ==
  ASSUME OInv, NEW w \in Worker, Resolve(w) \/ CheckSubject(w) \/ Send(w)
  PROVE  OInv'
<1>1. BindingsOK' /\ RowsOK'
  BY RowsStay DEF Resolve, CheckSubject, Send, SendSucceeds, AnswerLost, SendFails
<1>2. ASSUME Resolve(w) \/ CheckSubject(w) PROVE WorkersOK'
  <2>1. PICK label \in Label : Goto(w, label)
    BY <1>2 DEF Resolve, CheckSubject, Label
  <2>2. pc[w] # "idle" /\ UNCHANGED job
    BY <1>2 DEF Resolve, CheckSubject
  <2> QED
    BY <2>1, <2>2, GotoOK DEF OInv, WorkersOK
<1>3. ASSUME Send(w) PROVE WorkersOK'
  <2>1. pc[w] = "send"
    BY <1>3 DEF Send, SendSucceeds, AnswerLost, SendFails
  <2>2. Goto(w, "ack") \/ Goto(w, "record")
    BY <1>3 DEF Send, SendSucceeds, AnswerLost, SendFails
  <2>3. \A v \in Worker : job'[v].key = job[v].key
    <3>1. CASE SendSucceeds(w)
      BY <3>1 DEF SendSucceeds, OInv, WorkersOK, JobType
    <3>2. CASE AnswerLost(w)
      BY <3>2 DEF AnswerLost, OInv, WorkersOK, JobType
    <3>3. ASSUME NEW outcome \in {"transient", "permanent", "blocked"}, SendFails(w, outcome)
          PROVE  \A v \in Worker : job'[v].key = job[v].key
      BY <3>3 DEF SendFails, OInv, WorkersOK, JobType
    <3> QED
      BY <1>3, <3>1, <3>2, <3>3 DEF Send
  <2>4. job' \in [Worker -> JobType]
    <3>1. CASE SendSucceeds(w)
      <4> DEFINE m == IF job[w].message = 0 THEN Len(shown[job[w].key]) + 1
                      ELSE job[w].message
      <4>1. m \in Nat
        <5>1. job[w] \in JobType /\ job[w].key \in Key
          BY <2>1 DEF OInv, WorkersOK
        <5>2. Len(shown[job[w].key]) \in Nat
          BY <5>1 DEF OInv, ShownOK
        <5> QED
          BY <5>1, <5>2 DEF JobType
      <4>2. job' = [job EXCEPT ![w] = [job[w] EXCEPT !.outcome = "shown", !.message = m]]
        BY <3>1 DEF SendSucceeds, OInv, WorkersOK, JobType
      <4>3. [job[w] EXCEPT !.outcome = "shown", !.message = m] \in JobType
        BY <4>1 DEF OInv, WorkersOK, JobType, Outcome
      <4> QED
        BY <4>2, <4>3 DEF OInv, WorkersOK
    <3>2. CASE AnswerLost(w)
      BY <3>2 DEF AnswerLost, OInv, WorkersOK, JobType, Outcome
    <3>3. ASSUME NEW outcome \in {"transient", "permanent", "blocked"}, SendFails(w, outcome)
          PROVE  job' \in [Worker -> JobType]
      BY <3>3 DEF SendFails, OInv, WorkersOK, JobType, Outcome
    <3> QED
      BY <1>3, <3>1, <3>2, <3>3 DEF Send
  <2> QED
    <3>1. PICK label \in Label : Goto(w, label)
      BY <2>2 DEF Label
    <3> QED
      BY <2>1, <2>3, <2>4, <3>1, GotoOK
<1>4. ASSUME Arrived(w), pc[w] = "send" PROVE ShownOK'
  <2> DEFINE k == job[w].key
             m == job[w].message
             text == job[w].version
             again == [text |-> text, had |-> shown[k][m].had \cup {text}]
  <2>1. k \in Key /\ m \in Nat /\ text \in Nat
    BY <1>4 DEF OInv, WorkersOK, JobType
  <2>2. shown[k] \in Seq(MessageType)
    BY <2>1 DEF OInv, ShownOK
  <2>3. Written(shown[k], text) \in Seq(MessageType)
    BY <2>1, <2>2 DEF MessageType, Written
  <2>4. Edited(shown[k], m, text) \in Seq(MessageType)
    <3>1. CASE m \in 1 .. Len(shown[k])
      <4>1. again \in MessageType
        <5>1. shown[k][m] \in MessageType
          BY <2>2, <3>1
        <5>2. shown[k][m].had \cup {text} \in SUBSET Nat
          BY <2>1, <5>1 DEF MessageType
        <5> QED
          BY <2>1, <5>2 DEF MessageType
      <4> QED
        BY <2>2, <3>1, <4>1 DEF Edited
    <3>2. CASE m \notin 1 .. Len(shown[k])
      <4>1. Edited(shown[k], m, text) = shown[k]
        BY <2>2, <3>2 DEF Edited
      <4> QED
        BY <2>2, <4>1
    <3> QED
      BY <3>1, <3>2
  <2>5. shown' = [shown EXCEPT ![k] = IF m = 0 THEN Written(shown[k], text)
                                      ELSE Edited(shown[k], m, text)]
    BY <1>4 DEF Arrived
  <2> QED
    BY <2>1, <2>3, <2>4, <2>5 DEF OInv, ShownOK
<1>5. ShownOK'
  BY <1>4 DEF Resolve, CheckSubject, Send, SendSucceeds, AnswerLost, SendFails, OInv, ShownOK
<1> QED
  BY <1>1, <1>2, <1>3, <1>5 DEF OInv

\* An acknowledgement writes only a row its worker still has the lease of.
LEMMA AcknowledgeOK ==
  ASSUME OInv, NEW w \in Worker, Acknowledge(w)
  PROVE  OInv'
<1> DEFINE k == job[w].key
           latest == job[w].version = row[k].desired
           acked == [Unleased(row[k]) EXCEPT !.message = job[w].message]
           done == [acked EXCEPT !.delivered = job[w].version, !.failed = FALSE]
<1>1. k \in Key /\ job[w] \in JobType /\ row[k] \in RowType
  BY DEF Acknowledge, OInv, WorkersOK, RowsOK
<1>2. BindingsOK' /\ RowsOK'
  <2>1. CASE HoldsLease(w) /\ ~row[k].canceled
    <3>1. Open(row[k])
      BY <2>1, HeldIsOpen DEF Acknowledge
    <3>2. /\ acked \in RowType /\ acked.lease = None
          /\ acked.delivered = row[k].delivered /\ acked.desired = row[k].desired
      BY <1>1 DEF Unleased, RowType, JobType
    <3>3. /\ done \in RowType /\ done.lease = None
          /\ done.delivered = job[w].version /\ done.desired = row[k].desired
      BY <1>1, <3>2 DEF RowType, JobType
    <3>4. row' = [row EXCEPT ![k] = IF latest THEN done ELSE acked]
      BY <2>1 DEF Acknowledge
    <3>5. UNCHANGED binding
      BY DEF Acknowledge
    <3>6. row[k].delivered <= row[k].desired
      BY <1>1 DEF OInv, RowsOK, RowOK
    <3>7. CASE latest
      <4>1. row' = [row EXCEPT ![k] = done] /\ done.delivered <= done.desired
        BY <1>1, <3>3, <3>4, <3>7 DEF RowType
      <4> QED
        BY <1>1, <3>1, <3>3, <3>5, <4>1, LetGo
    <3>8. CASE ~latest
      <4>1. row' = [row EXCEPT ![k] = acked] /\ acked.delivered <= acked.desired
        BY <3>2, <3>4, <3>6, <3>8
      <4> QED
        BY <1>1, <3>1, <3>2, <3>5, <4>1, LetGo
    <3> QED
      BY <3>7, <3>8
  <2>2. CASE ~(HoldsLease(w) /\ ~row[k].canceled)
    BY <2>2, RowsStay DEF Acknowledge
  <2> QED
    BY <2>1, <2>2
<1> QED
  BY <1>2, FinishOK DEF Acknowledge, OInv, ShownOK

\* A cancellation closes a row its worker has the lease of, or does nothing.
LEMMA CancelLeaseOK ==
  ASSUME OInv, NEW w \in Worker, CancelLease(w)
  PROVE  OInv'
<1> DEFINE k == job[w].key
<1>1. k \in Key /\ row[k] \in RowType
  BY DEF CancelLease, OInv, WorkersOK, RowsOK
<1>2. BindingsOK' /\ RowsOK'
  <2>1. CASE HoldsLease(w)
    <3>1. Open(row[k])
      BY <2>1, HeldIsOpen DEF CancelLease
    <3>2. /\ Canceled(row[k]) \in RowType /\ Canceled(row[k]).lease = None
          /\ Canceled(row[k]).delivered <= Canceled(row[k]).desired
      BY <1>1 DEF Canceled, RowType, OInv, RowsOK, RowOK
    <3>3. row' = [row EXCEPT ![k] = Canceled(row[k])] /\ UNCHANGED binding
      BY <2>1 DEF CancelLease
    <3> QED
      BY <1>1, <3>1, <3>2, <3>3, LetGo
  <2>2. CASE ~HoldsLease(w)
    BY <2>2, RowsStay DEF CancelLease
  <2> QED
    BY <2>1, <2>2
<1> QED
  BY <1>2, FinishOK DEF CancelLease, OInv, ShownOK

\* A failure closes the row or leaves it to be tried again, without its lease.
LEMMA RecordFailureOK ==
  ASSUME OInv, NEW w \in Worker, RecordFailure(w)
  PROVE  OInv'
<1> DEFINE k == job[w].key
           recorded == HoldsLease(w) /\ ~row[k].canceled
           terminal == job[w].outcome # "transient" \/ job[w].attempts >= MaxAttempts
           new == [Unleased(row[k]) EXCEPT !.failed = terminal, !.due = FALSE]
<1>1. k \in Key /\ row[k] \in RowType
  BY DEF RecordFailure, OInv, WorkersOK, RowsOK
<1>2. BindingsOK' /\ RowsOK'
  <2>1. CASE recorded
    <3>1. Open(row[k])
      BY <2>1, HeldIsOpen DEF RecordFailure
    <3>2. /\ new \in RowType /\ new.lease = None
          /\ new.delivered = row[k].delivered /\ new.desired = row[k].desired
      BY <1>1 DEF Unleased, RowType
    <3>3. new.delivered <= new.desired
      BY <1>1, <3>2 DEF OInv, RowsOK, RowOK
    <3>4. row' = [row EXCEPT ![k] = new] /\ UNCHANGED binding
      BY <2>1 DEF RecordFailure
    <3> QED
      BY <1>1, <3>1, <3>2, <3>3, <3>4, LetGo
  <2>2. CASE ~recorded
    BY <2>2, RowsStay DEF RecordFailure
  <2> QED
    BY <2>1, <2>2
<1>3. WorkersOK'
  <2>1. CASE Finish(w)
    BY <2>1, FinishOK
  <2>2. CASE Goto(w, "deactivate") /\ UNCHANGED job
    BY <2>2, GotoOK DEF RecordFailure, OInv, WorkersOK, Label
  <2> QED
    BY <2>1, <2>2 DEF RecordFailure
<1> QED
  BY <1>2, <1>3 DEF RecordFailure, OInv, ShownOK

\* A blocked chat is a change of binding, or none.
LEMMA DeactivateRecipientOK ==
  ASSUME OInv, NEW w \in Worker, DeactivateRecipient(w)
  PROVE  OInv'
<1>1. RecipientOf[EventOf(job[w].key)] \in Recipient
  BY KeyFacts DEF DeactivateRecipient, OInv, WorkersOK
<1>2. BindingsOK' /\ RowsOK'
  BY <1>1, CancelOpenOK, RowsStay DEF DeactivateRecipient
<1> QED
  BY <1>2, FinishOK DEF DeactivateRecipient, OInv, ShownOK

\* A worker that dies leaves its row leased and open.
LEMMA CrashOK ==
  ASSUME OInv, NEW w \in Worker, Crash(w)
  PROVE  OInv'
BY RowsStay, FinishOK DEF Crash, OInv, ShownOK

\* The passing of time opens and closes nothing.
LEMMA TickOK == ASSUME OInv, Tick PROVE OInv'
<1>1. ASSUME NEW k \in Key, BecomeDue(k) \/ ExpireLease(k) PROVE OInv'
  <2> DEFINE due == [row[k] EXCEPT !.due = TRUE]
             late == [row[k] EXCEPT !.expired = TRUE]
  <2>1. row[k] \in RowType
    BY DEF OInv, RowsOK
  <2>2. PICK new \in {due, late} : row' = [row EXCEPT ![k] = new]
    BY <1>1 DEF BecomeDue, ExpireLease, OInv, RowsOK
  <2>3. /\ new \in RowType /\ new.lease = row[k].lease
        /\ new.delivered = row[k].delivered /\ new.desired = row[k].desired
        /\ new.canceled = row[k].canceled /\ new.failed = row[k].failed
    BY <2>1, <2>2 DEF RowType
  <2>4. Open(new) <=> Open(row[k])
    BY <2>3 DEF Open, Waiting
  <2>5. row' \in [Key -> RowType] /\ \A q \in Key : row'[q] = IF q = k THEN new ELSE row[q]
    BY <2>2, <2>3 DEF OInv, RowsOK
  <2>6. UNCHANGED <<binding, pc, job, shown>>
    BY <1>1 DEF BecomeDue, ExpireLease
  <2>7. BindingsOK' /\ RowsOK'
    <3>1. \A q \in Key : /\ row'[q].delivered <= row'[q].desired
                         /\ row'[q].lease # None => Open(row'[q])
                         /\ Open(row'[q]) => Open(row[q])
      <4> TAKE q \in Key
      <4>1. RowOK(q)
        BY DEF OInv, RowsOK
      <4>2. CASE q = k
        BY <2>3, <2>4, <2>5, <4>1, <4>2 DEF RowOK
      <4>3. CASE q # k
        BY <2>5, <4>1, <4>3 DEF RowOK
      <4> QED
        BY <4>2, <4>3
    <3> QED
      BY <2>5, <2>6, <3>1, RowsKept
  <2> QED
    BY <2>6, <2>7 DEF OInv, WorkersOK, ShownOK
<1> QED
  BY <1>1 DEF Tick

\* Every step keeps the rows in order.
LEMMA OStep == OInv /\ [Next]_vars => OInv'
<1> SUFFICES ASSUME OInv, [Next]_vars PROVE OInv'
  OBVIOUS
<1>1. ASSUME NEW w \in Worker, Work(w) PROVE OInv'
  BY <1>1, CallOK, AcknowledgeOK, CancelLeaseOK, RecordFailureOK, DeactivateRecipientOK DEF Work
<1>2. CASE UNCHANGED vars
  BY <1>2, RowsStay DEF vars, OInv, WorkersOK, ShownOK
<1> QED
  BY <1>1, <1>2, ProduceOK, ClaimOK, CrashOK, TickOK DEF Next

\* However bindings, edits, workers and leases interleave, a job that is still
\* to be delivered was written under the binding its recipient has now
\* (cancelRecipient and lockUser of telegram.service.ts): no message waits for
\* a chat that was unlinked or replaced.
THEOREM OldBindingsAreClosed == Spec => []OldBindingsClosed
<1>1. OInv => OldBindingsClosed
  BY DEF OInv, RowsOK, RowOK, OldBindingsClosed
<1> QED
  BY <1>1, OInit, OStep, PTL DEF Spec

\* The rows, the claims and the chats stay in order in every behaviour.
LEMMA OInvariance == Spec => []OInv
<1> QED
  BY OInit, OStep, PTL DEF Spec

-------------------------------------------------------------------------------
\* What a step may do to a row, a worker, the chats and the report.

Working(w) == pc[w] \in {"resolve", "check", "send", "ack", "record", "cancel"}

GivenUp(r) == [Unleased(r) EXCEPT !.failed = TRUE]

Recorded(k, failed) == [Unleased(row[k]) EXCEPT !.failed = failed, !.due = FALSE]

Acked(w) == [Unleased(row[job[w].key]) EXCEPT !.message = job[w].message]

Delivered(w) == [Acked(w) EXCEPT !.delivered = job[w].version, !.failed = FALSE]

Claimed(k, w) ==
    [row[k] EXCEPT !.lease = w, !.leaseVersion = row[k].desired,
                   !.expired = FALSE, !.attempts = @ + 1]

\* A producer gives the row a text.
AskedFor(k) ==
    /\ Current(k) /\ binding' = binding /\ row[k].desired < MaxDesired
    /\ row'[k] = Rewritten(row[k])
    /\ EventOf(k) \in Part => ~report'.sentToTelegram

\* A change of the binding closes it.
ClosedBy(k) ==
    /\ row'[k] = Canceled(row[k])
    /\ Open(row[k]) => binding'[RecipientOf[EventOf(k)]].version > VersionOf(k)

\* A worker claims it.
ClaimedBy(k, w) ==
    /\ pc[w] = "idle" /\ Claimable(row[k])
    /\ pc'[w] = "resolve" /\ job'[w].key = k
    /\ row'[k] = Claimed(k, w)

\* The worker that holds it ends with it.
LetGoBy(k, w) ==
    /\ Working(w) /\ job[w].key = k /\ row[k].lease = w
    /\ pc'[w] \in {"idle", "deactivate"}
    /\ shown' = shown
    /\ \/ row'[k] = Canceled(row[k])
       \/ \E failed \in BOOLEAN : row'[k] = Recorded(k, failed)
       \/ pc[w] = "ack" /\ job[w].version # row[k].desired /\ row'[k] = Acked(w)
       \/ pc[w] = "ack" /\ job[w].version = row[k].desired /\ row'[k] = Delivered(w)

\* Time passes over it.
Aged(k) ==
    \/ row'[k] = [row[k] EXCEPT !.due = TRUE]
    \/ /\ row'[k] = [row[k] EXCEPT !.expired = TRUE]
       /\ Timely => row[k].lease \in Worker /\ job[row[k].lease].key # k

RowStep(k) ==
    \/ row'[k] = row[k]
    \/ AskedFor(k) \/ ClosedBy(k) \/ Aged(k)
    \/ Abandoned(row[k]) /\ row'[k] = GivenUp(row[k])
    \/ \E w \in Worker : ClaimedBy(k, w) \/ LetGoBy(k, w)

\* What a worker knows of its message once its text has arrived.
NewMessage(w) == IF job[w].message = 0 THEN Len(shown[job[w].key]) + 1 ELSE job[w].message

\* A worker keeps its claim while it works on it.
SameClaim(w) ==
    /\ job'[w].key = job[w].key /\ job'[w].version = job[w].version
    /\ job'[w].attempts = job[w].attempts

\* A worker does nothing, ends, claims, goes on, or has its text accepted.
WorkerStep(w) ==
    \/ pc'[w] = pc[w] /\ job'[w] = job[w]
    \/ pc'[w] = "idle" /\ job'[w] = NoJob
    \/ /\ pc'[w] = "resolve" /\ shown' = shown
       /\ \E k \in Key : /\ ClaimedBy(k, w)
                         /\ job'[w].message = row[k].message
                         /\ job'[w].version = row[k].desired
                         /\ job'[w].attempts = row[k].attempts + 1
    \/ /\ Working(w) /\ pc'[w] \in {"check", "send", "record", "cancel", "deactivate"}
       /\ pc'[w] # "deactivate" => row' = row
       /\ SameClaim(w) /\ job'[w].message = job[w].message
    \/ /\ pc[w] = "send" /\ pc'[w] = "ack" /\ row' = row /\ Arrived(w)
       /\ SameClaim(w) /\ job'[w].message = NewMessage(w)

ChatStep ==
    \/ shown' = shown
    \/ \E w \in Worker : pc[w] = "send" /\ Arrived(w) /\ row' = row

ReportOK == report \in [status: {"DRAFT", "SUBMITTED"}, sentToTelegram: BOOLEAN]

ReportStep ==
    \/ report'.sentToTelegram = FALSE
    \/ report' = report
    \/ \E w \in Worker :
         /\ pc[w] = "ack" /\ HoldsLease(w) /\ EventOf(job[w].key) \in Part
         /\ binding' = binding
         /\ report'.sentToTelegram = NoPartWaits(row', job[w].key)

BindingStep(u) ==
    \/ binding'[u] = binding[u]
    \/ /\ binding[u].version <= MaxVersion
       /\ \E linked \in BOOLEAN :
             binding'[u] = [version |-> binding[u].version + 1, linked |-> linked]

StepEffect ==
    /\ \A k \in Key : RowStep(k)
    /\ \A w \in Worker : WorkerStep(w)
    /\ ChatStep
    /\ ReportStep
    /\ \A u \in Recipient : BindingStep(u)

-------------------------------------------------------------------------------
\* Every step has one of these effects.

\* A producer asks for a text of the events it names.
LEMMA EnqueueEffect ==
  ASSUME OInv, NEW es, Enqueue(es), UNCHANGED binding,
         es \cap Part # {} => ~report'.sentToTelegram
  PROVE  \A k \in Key : RowStep(k)
<1> SUFFICES ASSUME NEW k \in Key PROVE RowStep(k)
  OBVIOUS
<1>1. CASE EventOf(k) \in es /\ Current(k)
  <2>1. row'[k] = Rewritten(row[k]) /\ row[k].desired < MaxDesired
    BY <1>1 DEF Enqueue
  <2> QED
    BY <1>1, <2>1 DEF RowStep, AskedFor
<1>2. CASE ~(EventOf(k) \in es /\ Current(k))
  BY <1>2 DEF Enqueue, RowStep
<1> QED
  BY <1>1, <1>2

\* Whoever is not named in an action keeps its place.
LEMMA WorkersRest ==
  ASSUME UNCHANGED <<pc, job>>
  PROVE  \A w \in Worker : WorkerStep(w)
BY DEF WorkerStep

\* A step that leaves the bindings has the least effect on them.
LEMMA BindingsRest ==
  ASSUME UNCHANGED binding
  PROVE  \A u \in Recipient : BindingStep(u)
BY DEF BindingStep

\* A step that leaves the rows has the least effect on them.
LEMMA RowsRest ==
  ASSUME UNCHANGED row
  PROVE  \A k \in Key : RowStep(k)
BY DEF RowStep

\* A change of a binding ends the version it replaces.
LEMMA NextBindingEffect ==
  ASSUME OInv, NEW u \in Recipient, NEW linked \in BOOLEAN, NextBinding(u, linked),
         binding[u].version <= MaxVersion,
         \A k \in Key : row'[k] = row[k] \/ (Bound(u, k) /\ row'[k] = Canceled(row[k]))
  PROVE  /\ \A k \in Key : RowStep(k)
         /\ \A v \in Recipient : BindingStep(v)
<1>1. /\ binding'[u] = [version |-> binding[u].version + 1, linked |-> linked]
      /\ \A v \in Recipient \ {u} : binding'[v] = binding[v]
  BY DEF NextBinding, OInv, BindingsOK, BindingType
<1>2. ASSUME NEW k \in Key, Bound(u, k), row'[k] = Canceled(row[k]) PROVE ClosedBy(k)
  <2>1. binding[u].version \in Nat
    BY DEF OInv, BindingsOK, BindingType
  <2>2. Open(row[k]) => binding[u].version = VersionOf(k)
    BY <1>2 DEF OInv, RowsOK, RowOK, Current, Bound
  <2> QED
    BY <1>1, <1>2, <2>1, <2>2 DEF ClosedBy, Bound
<1> QED
  BY <1>1, <1>2 DEF RowStep, BindingStep

\* Producers and changes of bindings.
LEMMA ProduceEffect == ASSUME OInv, Produce PROVE StepEffect
<1>1. ASSUME NEW e \in Event, Announce(e) PROVE StepEffect
  <2>1. {e} \cap Part = {}
    BY <1>1 DEF Announce
  <2> QED
    BY <1>1, <2>1, EnqueueEffect, WorkersRest, BindingsRest
    DEF Announce, StepEffect, ChatStep, ReportStep
<1>2. ASSUME NEW e \in Event, ChangeSubject(e) PROVE StepEffect
  BY <1>2, RowsRest, WorkersRest, BindingsRest
  DEF ChangeSubject, StepEffect, ChatStep, ReportStep
<1>3. CASE UpdateReport
  BY <1>3, RowsRest, WorkersRest, BindingsRest
  DEF UpdateReport, StepEffect, ChatStep, ReportStep
<1>4. ASSUME NEW changed \in SUBSET Part, SubmitReport(changed) PROVE StepEffect
  <2>1. report'.sentToTelegram = FALSE
    BY <1>4 DEF SubmitReport
  <2> QED
    BY <1>4, <2>1, EnqueueEffect, WorkersRest, BindingsRest
    DEF SubmitReport, StepEffect, ChatStep, ReportStep
<1>5. ASSUME NEW u \in Recipient, NEW linked \in BOOLEAN, Rebind(u, linked) PROVE StepEffect
  <2>1. \A k \in Key : row'[k] = row[k] \/ (Bound(u, k) /\ row'[k] = Canceled(row[k]))
    BY <1>5 DEF Rebind, CancelOpen
  <2>2. binding[u].version <= MaxVersion
    BY <1>5, OutboxAssumption DEF Rebind, OInv, BindingsOK, BindingType
  <2>3. NextBinding(u, linked) /\ UNCHANGED <<shown, report, pc, job>>
    BY <1>5 DEF Rebind
  <2> QED
    BY <2>1, <2>2, <2>3, NextBindingEffect, WorkersRest DEF StepEffect, ChatStep, ReportStep
<1>6. ASSUME NEW u \in Recipient, DeactivateUser(u) PROVE StepEffect
  <2>1. \A k \in Key : row'[k] = row[k] \/ (Bound(u, k) /\ row'[k] = Canceled(row[k]))
    BY <1>6 DEF DeactivateUser
  <2>2. binding[u].version <= MaxVersion
    BY <1>6, OutboxAssumption DEF DeactivateUser, OInv, BindingsOK, BindingType
  <2>3. NextBinding(u, FALSE) /\ UNCHANGED <<shown, report, pc, job>>
    BY <1>6 DEF DeactivateUser
  <2> QED
    BY <2>1, <2>2, <2>3, NextBindingEffect, WorkersRest DEF StepEffect, ChatStep, ReportStep
<1> QED
  BY <1>1, <1>2, <1>3, <1>4, <1>5, <1>6 DEF Produce

\* A worker that finishes has nothing in hand, and no other worker moves.
LEMMA FinishEffect ==
  ASSUME OInv, NEW w \in Worker, Finish(w)
  PROVE  \A v \in Worker : WorkerStep(v)
BY DEF Finish, WorkerStep, OInv, WorkersOK

\* An action of one worker leaves the others where they are.
LEMMA OneWorker ==
  ASSUME OInv, NEW w \in Worker, WorkerStep(w),
         \A v \in Worker \ {w} : pc'[v] = pc[v] /\ job'[v] = job[v]
  PROVE  \A v \in Worker : WorkerStep(v)
BY DEF WorkerStep

\* Claiming takes one row, and sweeping closes what was abandoned.
LEMMA ClaimEffect ==
  ASSUME OInv, NEW w \in Worker, Claim(w)
  PROVE  StepEffect
<1>1. ASSUME NEW k \in Key
      PROVE  \/ Swept[k] = row[k]
             \/ Abandoned(row[k]) /\ Swept[k] = GivenUp(row[k])
  BY DEF Swept, GivenUp
<1>2. CASE SweepOnly(w)
  <2>1. \A k \in Key : RowStep(k)
    BY <1>1, <1>2 DEF SweepOnly, RowStep
  <2> QED
    BY <1>2, <2>1, WorkersRest, BindingsRest DEF SweepOnly, StepEffect, ChatStep, ReportStep
<1>3. ASSUME NEW k \in Key, ClaimRow(w, k) PROVE StepEffect
  <2>1. row[k] \in RowType /\ ~Abandoned(row[k])
    BY <1>3, OutboxAssumption DEF OInv, RowsOK, ClaimRow, Claimable, Abandoned, RowType
  <2>2. Swept[k] = row[k]
    BY <2>1 DEF Swept
  <2>3. row' = [Swept EXCEPT ![k] = [Swept[k] EXCEPT !.lease = w,
                  !.leaseVersion = row[k].desired, !.expired = FALSE, !.attempts = @ + 1]]
    BY <1>3 DEF ClaimRow, Swept
  <2>4. row'[k] = Claimed(k, w) /\ \A q \in Key \ {k} : row'[q] = Swept[q]
    BY <2>2, <2>3 DEF Swept, Claimed
  <2>5. pc[w] = "idle" /\ pc'[w] = "resolve" /\ Claimable(row[k])
    BY <1>3 DEF ClaimRow, Goto, OInv, WorkersOK
  <2>6. /\ job'[w].key = k /\ job'[w].message = row[k].message
        /\ job'[w].version = row[k].desired /\ job'[w].attempts = row[k].attempts + 1
    BY <1>3 DEF ClaimRow, OInv, WorkersOK
  <2>7. ClaimedBy(k, w)
    BY <2>4, <2>5, <2>6 DEF ClaimedBy
  <2>8. \A q \in Key : RowStep(q)
    BY <1>1, <2>4, <2>7 DEF RowStep
  <2>9. \A v \in Worker \ {w} : pc'[v] = pc[v] /\ job'[v] = job[v]
    BY <1>3 DEF ClaimRow, Goto, OInv, WorkersOK
  <2>10. WorkerStep(w)
    BY <1>3, <2>5, <2>6, <2>7 DEF WorkerStep, ClaimRow
  <2> QED
    BY <1>3, <2>8, <2>9, <2>10, OneWorker, BindingsRest
    DEF ClaimRow, StepEffect, ChatStep, ReportStep
<1> QED
  BY <1>2, <1>3 DEF Claim

\* Before and while it calls Telegram, a worker moves itself and the chat.
LEMMA CallEffect ==
  ASSUME OInv, NEW w \in Worker, Resolve(w) \/ CheckSubject(w) \/ Send(w)
  PROVE  StepEffect
<1>1. UNCHANGED <<binding, row, report>>
  BY DEF Resolve, CheckSubject, Send, SendSucceeds, AnswerLost, SendFails
<1>2. ASSUME WorkerStep(w), ChatStep,
             \A v \in Worker \ {w} : pc'[v] = pc[v] /\ job'[v] = job[v]
      PROVE  StepEffect
  BY <1>1, <1>2, RowsRest, BindingsRest, OneWorker DEF StepEffect, ReportStep
<1>3. CASE Resolve(w) \/ CheckSubject(w)
  <2>1. /\ pc[w] \in {"resolve", "check"} /\ pc'[w] \in {"check", "send", "cancel"}
        /\ UNCHANGED <<job, shown>>
        /\ \A v \in Worker \ {w} : pc'[v] = pc[v]
    BY <1>3 DEF Resolve, CheckSubject, Goto, OInv, WorkersOK
  <2> QED
    BY <1>1, <1>2, <2>1 DEF WorkerStep, SameClaim, Working, ChatStep
<1>4. CASE SendSucceeds(w)
  <2>1. /\ pc[w] = "send" /\ pc'[w] = "ack" /\ Arrived(w)
        /\ \A v \in Worker \ {w} : pc'[v] = pc[v] /\ job'[v] = job[v]
    BY <1>4 DEF SendSucceeds, Goto, OInv, WorkersOK
  <2>2. job' = [job EXCEPT ![w] = [job[w] EXCEPT !.outcome = "shown",
                                                 !.message = NewMessage(w)]]
    BY <1>4 DEF SendSucceeds, NewMessage, OInv, WorkersOK, JobType
  <2>3. SameClaim(w) /\ job'[w].message = NewMessage(w)
    BY <2>2 DEF SameClaim, OInv, WorkersOK, JobType
  <2> QED
    BY <1>1, <1>2, <2>1, <2>3 DEF WorkerStep, ChatStep
<1>5. ASSUME NEW outcome,
             (AnswerLost(w) /\ outcome = "transient") \/ SendFails(w, outcome)
      PROVE  StepEffect
  <2>1. /\ pc[w] = "send" /\ pc'[w] = "record"
        /\ job' = [job EXCEPT ![w].outcome = outcome]
        /\ Arrived(w) \/ shown' = shown
        /\ \A v \in Worker \ {w} : pc'[v] = pc[v] /\ job'[v] = job[v]
    BY <1>5 DEF AnswerLost, SendFails, Goto, OInv, WorkersOK
  <2>2. SameClaim(w) /\ job'[w].message = job[w].message
    BY <2>1 DEF SameClaim, OInv, WorkersOK, JobType
  <2> QED
    BY <1>1, <1>2, <2>1, <2>2 DEF WorkerStep, Working, ChatStep
<1> QED
  BY <1>3, <1>4, <1>5 DEF Send

\* A worker that holds the lease of its row lets go of that row only.
LEMMA LetGoEffect ==
  ASSUME OInv, NEW w \in Worker, Working(w), HoldsLease(w), NEW new,
         row' = [row EXCEPT ![job[w].key] = new],
         LetGoBy(job[w].key, w)
  PROVE  \A k \in Key : RowStep(k)
BY DEF RowStep, OInv, RowsOK

\* An acknowledgement.
LEMMA AcknowledgeEffect ==
  ASSUME OInv, ReportOK, NEW w \in Worker, Acknowledge(w)
  PROVE  StepEffect
<1> DEFINE k == job[w].key
           latest == job[w].version = row[k].desired
<1>1. k \in Key /\ pc[w] = "ack" /\ pc'[w] = "idle" /\ UNCHANGED <<binding, shown>>
  BY DEF Acknowledge, Finish, OInv, WorkersOK
<1>2. /\ \A v \in Worker : WorkerStep(v)
      /\ \A u \in Recipient : BindingStep(u)
      /\ ChatStep
  BY <1>1, FinishEffect, BindingsRest DEF Acknowledge, ChatStep
<1>3. CASE HoldsLease(w) /\ ~row[k].canceled
  <2> DEFINE new == IF latest THEN Delivered(w) ELSE Acked(w)
  <2>1. row' = [row EXCEPT ![k] = new]
    BY <1>3 DEF Acknowledge, Delivered, Acked
  <2>2. row'[k] = new
    BY <1>1, <2>1 DEF OInv, RowsOK
  <2>3. LetGoBy(k, w)
    BY <1>1, <1>3, <2>2 DEF LetGoBy, Working, HoldsLease
  <2>4. \A q \in Key : RowStep(q)
    BY <1>1, <1>3, <2>1, <2>3, LetGoEffect DEF Working
  <2>5. ReportStep
    <3>1. CASE latest /\ EventOf(k) \in Part
      <4>1. report' = [report EXCEPT !.sentToTelegram = NoPartWaits(row', k)]
        BY <1>3, <3>1 DEF Acknowledge
      <4>2. report'.sentToTelegram = NoPartWaits(row', k)
        BY <4>1 DEF ReportOK
      <4> QED
        BY <1>1, <1>3, <3>1, <4>2 DEF ReportStep
    <3>2. CASE ~(latest /\ EventOf(k) \in Part)
      BY <1>3, <3>2 DEF Acknowledge, ReportStep
    <3> QED
      BY <3>1, <3>2
  <2> QED
    BY <1>2, <2>4, <2>5 DEF StepEffect
<1>4. CASE ~(HoldsLease(w) /\ ~row[k].canceled)
  BY <1>2, <1>4, RowsRest DEF Acknowledge, StepEffect, ReportStep
<1> QED
  BY <1>3, <1>4

\* A cancellation by the worker.
LEMMA CancelLeaseEffect ==
  ASSUME OInv, NEW w \in Worker, CancelLease(w)
  PROVE  StepEffect
<1> DEFINE k == job[w].key
<1>1. /\ k \in Key /\ pc[w] = "cancel" /\ pc'[w] = "idle"
      /\ UNCHANGED <<binding, shown, report>>
  BY DEF CancelLease, Finish, OInv, WorkersOK
<1>2. \A q \in Key : RowStep(q)
  <2>1. CASE HoldsLease(w)
    <3>1. row' = [row EXCEPT ![k] = Canceled(row[k])]
      BY <2>1 DEF CancelLease
    <3>2. row'[k] = Canceled(row[k])
      BY <1>1, <3>1 DEF OInv, RowsOK
    <3>3. LetGoBy(k, w)
      BY <1>1, <2>1, <3>2 DEF LetGoBy, Working, HoldsLease
    <3> QED
      BY <1>1, <2>1, <3>1, <3>3, LetGoEffect DEF Working
  <2>2. CASE ~HoldsLease(w)
    BY <2>2, RowsRest DEF CancelLease
  <2> QED
    BY <2>1, <2>2
<1> QED
  BY <1>1, <1>2, FinishEffect, BindingsRest DEF CancelLease, StepEffect, ChatStep, ReportStep

\* A failure that is written down.
LEMMA RecordFailureEffect ==
  ASSUME OInv, NEW w \in Worker, RecordFailure(w)
  PROVE  StepEffect
<1> DEFINE k == job[w].key
           recorded == HoldsLease(w) /\ ~row[k].canceled
           terminal == job[w].outcome # "transient" \/ job[w].attempts >= MaxAttempts
<1>1. /\ k \in Key /\ pc[w] = "record" /\ pc'[w] \in {"idle", "deactivate"}
      /\ UNCHANGED <<binding, shown, report>>
  BY DEF RecordFailure, Finish, Goto, OInv, WorkersOK
<1>2. \A q \in Key : RowStep(q)
  <2>1. CASE recorded
    <3>1. row' = [row EXCEPT ![k] = Recorded(k, terminal)]
      BY <2>1 DEF RecordFailure, Recorded
    <3>2. row'[k] = Recorded(k, terminal) /\ terminal \in BOOLEAN
      BY <1>1, <3>1 DEF OInv, RowsOK
    <3>3. LetGoBy(k, w)
      BY <1>1, <2>1, <3>2 DEF LetGoBy, Working, HoldsLease
    <3> QED
      BY <1>1, <2>1, <3>1, <3>3, LetGoEffect DEF Working
  <2>2. CASE ~recorded
    BY <2>2, RowsRest DEF RecordFailure
  <2> QED
    BY <2>1, <2>2
<1>3. \A v \in Worker : WorkerStep(v)
  <2>1. CASE Finish(w)
    BY <2>1, FinishEffect
  <2>2. CASE Goto(w, "deactivate") /\ UNCHANGED job
    <3>1. /\ pc'[w] = "deactivate" /\ UNCHANGED job
          /\ \A v \in Worker \ {w} : pc'[v] = pc[v]
      BY <2>2 DEF Goto, OInv, WorkersOK
    <3> QED
      BY <1>1, <3>1 DEF WorkerStep, Working, SameClaim
  <2> QED
    BY <2>1, <2>2 DEF RecordFailure
<1> QED
  BY <1>1, <1>2, <1>3, BindingsRest DEF StepEffect, ChatStep, ReportStep

\* A chat that blocked the bot is unlinked.
LEMMA DeactivateRecipientEffect ==
  ASSUME OInv, NEW w \in Worker, DeactivateRecipient(w)
  PROVE  StepEffect
<1> DEFINE k == job[w].key
           u == RecipientOf[EventOf(k)]
<1>1. k \in Key /\ u \in Recipient /\ UNCHANGED <<shown, report>>
  BY KeyFacts DEF DeactivateRecipient, OInv, WorkersOK
<1>2. /\ \A q \in Key : RowStep(q)
      /\ \A v \in Recipient : BindingStep(v)
  <2>1. CASE Current(k)
    <3>1. NextBinding(u, FALSE) /\ CancelOpen(u)
      BY <2>1 DEF DeactivateRecipient
    <3>2. binding[u].version <= MaxVersion
      BY <1>1, <2>1, OutboxAssumption DEF Current, Key, VersionOf
    <3>3. \A q \in Key : row'[q] = row[q] \/ (Bound(u, q) /\ row'[q] = Canceled(row[q]))
      BY <3>1 DEF CancelOpen
    <3> QED
      BY <1>1, <3>1, <3>2, <3>3, NextBindingEffect
  <2>2. CASE ~Current(k)
    BY <2>2, RowsRest, BindingsRest DEF DeactivateRecipient
  <2> QED
    BY <2>1, <2>2
<1> QED
  BY <1>1, <1>2, FinishEffect DEF DeactivateRecipient, StepEffect, ChatStep, ReportStep

\* The passing of time.
LEMMA TickEffect == ASSUME OInv, Tick PROVE StepEffect
<1>1. UNCHANGED <<binding, pc, job, shown, report>>
  BY DEF Tick, BecomeDue, ExpireLease
<1>2. ASSUME NEW k \in Key, BecomeDue(k) PROVE \A q \in Key : RowStep(q)
  BY <1>2 DEF BecomeDue, RowStep, Aged, OInv, RowsOK
<1>3. ASSUME NEW k \in Key, ExpireLease(k) PROVE \A q \in Key : RowStep(q)
  <2>1. row[k].lease \in Worker
    BY <1>3 DEF ExpireLease, OInv, RowsOK, RowType
  <2>2. /\ row'[k] = [row[k] EXCEPT !.expired = TRUE]
        /\ \A q \in Key \ {k} : row'[q] = row[q]
    BY <1>3 DEF ExpireLease, OInv, RowsOK
  <2> QED
    BY <1>3, <2>1, <2>2 DEF ExpireLease, RowStep, Aged
<1> QED
  BY <1>1, <1>2, <1>3, WorkersRest, BindingsRest DEF Tick, StepEffect, ChatStep, ReportStep

\* Every step has an effect of the kind described.
LEMMA Effects == ASSUME OInv, ReportOK, [Next]_vars PROVE StepEffect
<1>1. ASSUME NEW w \in Worker, Work(w) PROVE StepEffect
  BY <1>1, CallEffect, AcknowledgeEffect, CancelLeaseEffect, RecordFailureEffect,
     DeactivateRecipientEffect DEF Work
<1>2. ASSUME NEW w \in Worker, Crash(w) PROVE StepEffect
  BY <1>2, FinishEffect, RowsRest, BindingsRest DEF Crash, StepEffect, ChatStep, ReportStep
<1>3. CASE UNCHANGED vars
  BY <1>3, WorkersRest, RowsRest, BindingsRest DEF vars, StepEffect, ChatStep, ReportStep
<1> QED
  BY <1>1, <1>2, <1>3, ProduceEffect, ClaimEffect, TickEffect DEF Next

-------------------------------------------------------------------------------
\* What was once shown.

\* A text is only asked for under a version of the binding that was reached.
RowsReached ==
    \A k \in Key : row[k].desired > 0 => VersionOf(k) <= binding[RecipientOf[EventOf(k)]].version

\* Rows and claims point to messages of their chat.
RowsPoint == \A k \in Key : row[k].message \in 0 .. Len(shown[k])

ClaimsPoint ==
    \A w \in Worker : Working(w) => job[w].message \in 0 .. Len(shown[job[w].key])

\* A text about to be acknowledged has been in the message that will be stored.
AcksShown ==
    \A w \in Worker : pc[w] = "ack" =>
        /\ job[w].message \in 1 .. Len(shown[job[w].key])
        /\ job[w].version \in shown[job[w].key][job[w].message].had

SInv == ReportOK /\ RowsReached /\ RowsPoint /\ ClaimsPoint /\ AcksShown /\ WasShown

\* What a step does to the texts of a row: nothing, one more is asked for, or
\* the row takes the message of a worker that holds it.
SameTexts(k) ==
    /\ row'[k].desired = row[k].desired
    /\ row'[k].delivered = row[k].delivered
    /\ row'[k].message = row[k].message

OneMoreText(k) ==
    /\ Current(k) /\ row[k].desired < MaxDesired
    /\ row'[k].desired = row[k].desired + 1
    /\ row'[k].delivered = row[k].delivered
    /\ row'[k].message = row[k].message
    /\ EventOf(k) \in Part => ~report'.sentToTelegram

AckedBy(k, w) ==
    /\ pc[w] = "ack" /\ job[w].key = k /\ row[k].lease = w
    /\ shown' = shown
    /\ row'[k].desired = row[k].desired
    /\ row'[k].message = job[w].message
    /\ row'[k].delivered = IF job[w].version = row[k].desired THEN job[w].version
                           ELSE row[k].delivered

\* A step does one of these to the texts of a row.
LEMMA RowTexts ==
  ASSUME OInv, NEW k \in Key, RowStep(k)
  PROVE  SameTexts(k) \/ OneMoreText(k) \/ \E w \in Worker : AckedBy(k, w)
<1>1. row[k] \in RowType
  BY DEF OInv, RowsOK
<1>2. CASE AskedFor(k)
  <2>1. OneMoreText(k)
    BY <1>1, <1>2 DEF AskedFor, OneMoreText, Rewritten, RowType
  <2> QED
    BY <2>1
<1>3. CASE row'[k] = row[k] \/ ClosedBy(k) \/ Aged(k) \/ row'[k] = GivenUp(row[k])
  BY <1>1, <1>3 DEF SameTexts, ClosedBy, Canceled, Aged, GivenUp, Unleased, RowType
<1>4. ASSUME NEW w \in Worker, ClaimedBy(k, w) PROVE SameTexts(k)
  BY <1>1, <1>4 DEF SameTexts, ClaimedBy, Claimed, RowType
<1>5. ASSUME NEW w \in Worker, LetGoBy(k, w) PROVE SameTexts(k) \/ AckedBy(k, w)
  <2>1. CASE row'[k] = Canceled(row[k])
    BY <1>1, <2>1 DEF SameTexts, Canceled, RowType
  <2>2. ASSUME NEW failed \in BOOLEAN, row'[k] = Recorded(k, failed) PROVE SameTexts(k)
    BY <1>1, <2>2 DEF SameTexts, Recorded, Unleased, RowType
  <2>3. CASE pc[w] = "ack" /\ job[w].version # row[k].desired /\ row'[k] = Acked(w)
    BY <1>1, <1>5, <2>3 DEF LetGoBy, AckedBy, Acked, Unleased, RowType
  <2>4. CASE pc[w] = "ack" /\ job[w].version = row[k].desired /\ row'[k] = Delivered(w)
    BY <1>1, <1>5, <2>4 DEF LetGoBy, AckedBy, Delivered, Acked, Unleased, RowType
  <2> QED
    BY <1>5, <2>1, <2>2, <2>3, <2>4 DEF LetGoBy
<1> QED
  BY <1>2, <1>3, <1>4, <1>5 DEF RowStep

\* The text of a worker arrives in the message it knows, or in a new one.
LEMMA Arrival ==
  ASSUME OInv, NEW w \in Worker, pc[w] = "send", Arrived(w),
         job[w].message \in 0 .. Len(shown[job[w].key])
  PROVE  LET k == job[w].key
             n == NewMessage(w)
             had == shown'[k][n].had
         IN  /\ k \in Key /\ \A q \in Key \ {k} : shown'[q] = shown[q]
             /\ Len(shown'[k]) \in Nat /\ Len(shown[k]) <= Len(shown'[k])
             /\ n \in 1 .. Len(shown'[k])
             /\ shown'[k][n].text = job[w].version /\ job[w].version \in had
             /\ n \in 1 .. Len(shown[k]) => had = shown[k][n].had \cup {job[w].version}
             /\ \A m \in 1 .. Len(shown[k]) : m # n => shown'[k][m] = shown[k][m]
<1> DEFINE k == job[w].key
           m == job[w].message
           text == job[w].version
<1>1. k \in Key /\ m \in Nat /\ text \in Nat
  BY DEF OInv, WorkersOK, JobType
<1>2. shown[k] \in Seq(MessageType) /\ Len(shown[k]) \in Nat
  BY <1>1 DEF OInv, ShownOK
<1>3. \A q \in Key \ {k} : shown'[q] = shown[q]
  BY DEF Arrived, OInv, ShownOK
<1>4. CASE m = 0
  <2>1. shown'[k] = Append(shown[k], [text |-> text, had |-> {text}])
    BY <1>1, <1>4 DEF Arrived, Written, OInv, ShownOK
  <2>2. NewMessage(w) = Len(shown[k]) + 1
    BY <1>4 DEF NewMessage
  <2> DEFINE new == [text |-> text, had |-> {text}]
  <2>3. new \in MessageType
    BY <1>1 DEF MessageType
  <2>4. /\ Len(shown'[k]) = Len(shown[k]) + 1
        /\ shown'[k][Len(shown[k]) + 1] = new
        /\ \A j \in 1 .. Len(shown[k]) : shown'[k][j] = shown[k][j]
    <3> HIDE DEF new
    <3> QED
      BY <1>2, <2>1, <2>3 DEF new
  <2> QED
    BY <1>1, <1>2, <1>3, <2>2, <2>4
<1>5. CASE m # 0
  <2> DEFINE new == [text |-> text, had |-> shown[k][m].had \cup {text}]
  <2>1. shown'[k] = [shown[k] EXCEPT ![m] = new]
    BY <1>1, <1>5 DEF Arrived, Edited, OInv, ShownOK
  <2>2. NewMessage(w) = m /\ m \in 1 .. Len(shown[k])
    BY <1>1, <1>2, <1>5 DEF NewMessage
  <2>3. Len(shown'[k]) = Len(shown[k])
    BY <1>2, <2>1, <2>2
  <2>4. /\ shown'[k][m] = new
        /\ \A j \in 1 .. Len(shown[k]) : j # m => shown'[k][j] = shown[k][j]
    BY <1>2, <2>1, <2>2
  <2> QED
    BY <1>1, <1>2, <1>3, <2>2, <2>3, <2>4
<1> QED
  BY <1>4, <1>5

\* After that every message shows what it showed before, or the worker's text.
LEMMA ArrivedTexts ==
  ASSUME OInv, NEW w \in Worker, pc[w] = "send", Arrived(w),
         job[w].message \in 0 .. Len(shown[job[w].key])
  PROVE  LET k == job[w].key
         IN  \A m \in 1 .. Len(shown'[k]) :
               \/ shown'[k][m].text = job[w].version
               \/ m \in 1 .. Len(shown[k]) /\ shown'[k][m].text = shown[k][m].text
<1> DEFINE k == job[w].key
           n == job[w].message
           text == job[w].version
<1>1. k \in Key /\ n \in Nat /\ text \in Nat
  BY DEF OInv, WorkersOK, JobType
<1>2. shown[k] \in Seq(MessageType) /\ Len(shown[k]) \in Nat
  BY <1>1 DEF OInv, ShownOK
<1>3. CASE n = 0
  <2> DEFINE new == [text |-> text, had |-> {text}]
  <2>1. shown'[k] = Append(shown[k], new)
    BY <1>1, <1>3 DEF Arrived, Written, OInv, ShownOK
  <2>2. new \in MessageType /\ new.text = text
    BY <1>1 DEF MessageType
  <2>3. \A m \in 1 .. Len(shown'[k]) :
          shown'[k][m] = new \/ (m \in 1 .. Len(shown[k]) /\ shown'[k][m] = shown[k][m])
    <3> HIDE DEF new
    <3> QED
      BY <1>2, <2>1, <2>2
  <2> HIDE DEF new
  <2> QED
    BY <2>2, <2>3
<1>4. CASE n # 0
  <2> DEFINE new == [text |-> text, had |-> shown[k][n].had \cup {text}]
  <2>1. shown'[k] = [shown[k] EXCEPT ![n] = new]
    BY <1>1, <1>4 DEF Arrived, Edited, OInv, ShownOK
  <2>2. new.text = text
    OBVIOUS
  <2> HIDE DEF new
  <2>3. \A m \in 1 .. Len(shown'[k]) :
          m \in 1 .. Len(shown[k]) /\ (shown'[k][m] = new \/ shown'[k][m] = shown[k][m])
    BY <1>2, <2>1
  <2> QED
    BY <2>2, <2>3
<1> QED
  BY <1>3, <1>4

\* No chat loses a message, and no message forgets a text it has had.
LEMMA ChatsGrow ==
  ASSUME OInv, SInv, StepEffect, NEW k \in Key
  PROVE  /\ Len(shown[k]) \in Nat /\ Len(shown'[k]) \in Nat
         /\ Len(shown[k]) <= Len(shown'[k])
         /\ \A m \in 1 .. Len(shown[k]) : shown[k][m].had \subseteq shown'[k][m].had
<1>1. Len(shown[k]) \in Nat
  BY DEF OInv, ShownOK
<1>2. CASE shown' = shown
  BY <1>1, <1>2
<1>3. ASSUME NEW w \in Worker, pc[w] = "send", Arrived(w)
      PROVE  /\ Len(shown'[k]) \in Nat /\ Len(shown[k]) <= Len(shown'[k])
             /\ \A m \in 1 .. Len(shown[k]) : shown[k][m].had \subseteq shown'[k][m].had
  <2>1. job[w].message \in 0 .. Len(shown[job[w].key])
    BY <1>3 DEF SInv, ClaimsPoint, Working
  <2>2. CASE k = job[w].key
    BY <1>3, <2>1, <2>2, Arrival
  <2>3. CASE k # job[w].key
    BY <1>1, <1>3, <2>1, <2>3, Arrival
  <2> QED
    BY <2>2, <2>3
<1> QED
  BY <1>1, <1>2, <1>3 DEF StepEffect, ChatStep

\* No binding goes back to an earlier version.
LEMMA VersionsGrow ==
  ASSUME OInv, StepEffect, NEW u \in Recipient
  PROVE  /\ binding[u].version \in Nat /\ binding'[u].version \in Nat
         /\ binding[u].version <= binding'[u].version
<1>1. binding[u].version \in Nat
  BY DEF OInv, BindingsOK, BindingType
<1>2. BindingStep(u)
  BY DEF StepEffect
<1>3. ASSUME NEW linked \in BOOLEAN,
             binding'[u] = [version |-> binding[u].version + 1, linked |-> linked]
      PROVE  binding'[u].version = binding[u].version + 1
  BY <1>3
<1>4. binding'[u] = binding[u] \/ binding'[u].version = binding[u].version + 1
  BY <1>2, <1>3 DEF BindingStep
<1> QED
  BY <1>1, <1>4

\* Texts are asked for under the present binding only.
LEMMA RowsReachedStep ==
  ASSUME OInv, SInv, StepEffect
  PROVE  RowsReached'
<1> SUFFICES ASSUME NEW k \in Key, row'[k].desired > 0
             PROVE  VersionOf(k) <= binding'[RecipientOf[EventOf(k)]].version
  BY DEF RowsReached
<1> DEFINE u == RecipientOf[EventOf(k)]
<1>1. /\ VersionOf(k) \in Nat /\ binding[u].version \in Nat /\ binding'[u].version \in Nat
      /\ binding[u].version <= binding'[u].version
  BY KeyFacts, VersionsGrow
<1>2. CASE row'[k].desired = row[k].desired
  BY <1>1, <1>2 DEF SInv, RowsReached
<1>3. CASE OneMoreText(k)
  BY <1>1, <1>3 DEF OneMoreText, Current
<1> QED
  BY <1>2, <1>3, RowTexts DEF StepEffect, SameTexts, AckedBy

\* A row that waits no longer points to a message that has had its text.
LEMMA RowsShownStep ==
  ASSUME OInv, SInv, StepEffect
  PROVE  RowsPoint' /\ WasShown'
<1> SUFFICES ASSUME NEW k \in Key
             PROVE  /\ row'[k].message \in 0 .. Len(shown'[k])
                    /\ row'[k].desired > 0 /\ ~Waiting(row'[k]) =>
                          /\ row'[k].message \in 1 .. Len(shown'[k])
                          /\ row'[k].desired \in shown'[k][row'[k].message].had
  BY DEF RowsPoint, WasShown
<1>1. /\ Len(shown[k]) \in Nat /\ Len(shown'[k]) \in Nat
      /\ Len(shown[k]) <= Len(shown'[k])
      /\ \A m \in 1 .. Len(shown[k]) : shown[k][m].had \subseteq shown'[k][m].had
  BY ChatsGrow
<1>2. /\ row[k].desired \in Nat /\ row[k].delivered \in Nat
      /\ row[k].delivered <= row[k].desired
  BY DEF OInv, RowsOK, RowOK, RowType
<1>3. row[k].message \in 0 .. Len(shown[k])
  BY DEF SInv, RowsPoint
<1>4. CASE SameTexts(k)
  <2>1. row[k].desired > 0 /\ ~Waiting(row[k]) =>
          /\ row[k].message \in 1 .. Len(shown[k])
          /\ row[k].desired \in shown[k][row[k].message].had
    BY DEF SInv, WasShown
  <2> QED
    BY <1>1, <1>3, <1>4, <2>1 DEF SameTexts, Waiting
<1>5. CASE OneMoreText(k)
  BY <1>1, <1>2, <1>3, <1>5 DEF OneMoreText, Waiting
<1>6. ASSUME NEW w \in Worker, AckedBy(k, w)
      PROVE  /\ row'[k].message \in 0 .. Len(shown'[k])
             /\ row'[k].desired > 0 /\ ~Waiting(row'[k]) =>
                   /\ row'[k].message \in 1 .. Len(shown'[k])
                   /\ row'[k].desired \in shown'[k][row'[k].message].had
  <2>1. /\ job[w].message \in 1 .. Len(shown[k])
        /\ job[w].version \in shown[k][job[w].message].had
    BY <1>6 DEF SInv, AcksShown, AckedBy
  <2>2. Open(row[k])
    BY <1>6, OutboxAssumption DEF OInv, RowsOK, RowOK, AckedBy
  <2>3. row[k].delivered < row[k].desired
    BY <2>2 DEF Open, Waiting
  <2>4. CASE job[w].version = row[k].desired
    BY <1>1, <1>6, <2>1, <2>4 DEF AckedBy
  <2>5. CASE job[w].version # row[k].desired
    BY <1>1, <1>2, <1>6, <2>1, <2>3, <2>5 DEF AckedBy, Waiting
  <2> QED
    BY <2>4, <2>5
<1> QED
  BY <1>4, <1>5, <1>6, RowTexts DEF StepEffect

\* What a worker knows stays true while others write to the chat.
LEMMA ClaimsShownStep ==
  ASSUME OInv, SInv, StepEffect
  PROVE  ClaimsPoint' /\ AcksShown'
<1> SUFFICES ASSUME NEW w \in Worker
             PROVE  /\ Working(w)' => job'[w].message \in 0 .. Len(shown'[job'[w].key])
                    /\ pc'[w] = "ack" =>
                          /\ job'[w].message \in 1 .. Len(shown'[job'[w].key])
                          /\ job'[w].version \in shown'[job'[w].key][job'[w].message].had
  BY DEF ClaimsPoint, AcksShown
<1> DEFINE k == job[w].key
           m == job[w].message
<1>1. Working(w) =>
        /\ k \in Key /\ m \in 0 .. Len(shown[k])
        /\ Len(shown[k]) \in Nat /\ Len(shown'[k]) \in Nat
        /\ Len(shown[k]) <= Len(shown'[k])
        /\ \A j \in 1 .. Len(shown[k]) : shown[k][j].had \subseteq shown'[k][j].had
  BY ChatsGrow DEF OInv, WorkersOK, Working, SInv, ClaimsPoint
<1>2. CASE pc'[w] = "idle" \/ pc'[w] = "deactivate"
  BY <1>2 DEF Working
<1>3. CASE pc'[w] = pc[w] /\ job'[w] = job[w]
  <2>1. pc[w] = "ack" => /\ m \in 1 .. Len(shown[k])
                         /\ job[w].version \in shown[k][m].had
    BY DEF SInv, AcksShown
  <2>2. pc[w] = "ack" => Working(w)
    BY DEF Working
  <2>3. Working(w)' => Working(w)
    BY <1>3 DEF Working
  <2>4. Working(w) => job'[w].message \in 0 .. Len(shown'[job'[w].key])
    BY <1>1, <1>3
  <2>5. pc'[w] = "ack" => /\ job'[w].message \in 1 .. Len(shown'[job'[w].key])
                          /\ job'[w].version \in shown'[job'[w].key][job'[w].message].had
    BY <1>1, <1>3, <2>1, <2>2
  <2> QED
    BY <2>3, <2>4, <2>5
<1>4. ASSUME NEW q \in Key, shown' = shown, pc'[w] = "resolve", job'[w].key = q,
             job'[w].message = row[q].message
      PROVE  Working(w)' => job'[w].message \in 0 .. Len(shown'[job'[w].key])
  BY <1>4 DEF SInv, RowsPoint
<1>5. CASE /\ Working(w) /\ pc'[w] \in {"check", "send", "record", "cancel", "deactivate"}
           /\ SameClaim(w) /\ job'[w].message = job[w].message
  BY <1>1, <1>5 DEF SameClaim
<1>6. CASE /\ pc[w] = "send" /\ pc'[w] = "ack" /\ Arrived(w)
           /\ SameClaim(w) /\ job'[w].message = NewMessage(w)
  <2>1. m \in 0 .. Len(shown[k])
    BY <1>1, <1>6 DEF Working
  <2>2. /\ NewMessage(w) \in 1 .. Len(shown'[k]) /\ Len(shown'[k]) \in Nat
        /\ job[w].version \in shown'[k][NewMessage(w)].had
    BY <1>6, <2>1, Arrival
  <2> QED
    BY <1>6, <2>2 DEF SameClaim
<1>7. WorkerStep(w)
  BY DEF StepEffect
<1> QED
  BY <1>2, <1>3, <1>4, <1>5, <1>6, <1>7 DEF WorkerStep, ClaimedBy

\* The report keeps its type.
LEMMA ReportTyped ==
  ASSUME OInv, ReportOK, [Next]_vars
  PROVE  ReportOK'
<1>1. CASE Produce
  <2>1. \/ report' = report
        \/ \E status \in {"DRAFT", "SUBMITTED"} :
              report' = [status |-> status, sentToTelegram |-> FALSE]
    BY <1>1 DEF Produce, Announce, ChangeSubject, UpdateReport, SubmitReport,
                DeactivateUser, Rebind
  <2>2. CASE report' = report
    BY <2>2 DEF ReportOK
  <2>3. ASSUME NEW status \in {"DRAFT", "SUBMITTED"},
               report' = [status |-> status, sentToTelegram |-> FALSE]
        PROVE  ReportOK'
    BY <2>3 DEF ReportOK
  <2> QED
    BY <2>1, <2>2, <2>3
<1>2. ASSUME NEW w \in Worker, Acknowledge(w) PROVE ReportOK'
  BY <1>2 DEF Acknowledge, ReportOK, NoPartWaits
<1>3. ASSUME NEW w \in Worker, Work(w), ~Acknowledge(w) PROVE ReportOK'
  BY <1>3 DEF Work, Resolve, CheckSubject, Send, SendSucceeds, AnswerLost, SendFails,
              CancelLease, RecordFailure, DeactivateRecipient, ReportOK
<1>4. ASSUME NEW w \in Worker, Claim(w) \/ Crash(w) PROVE ReportOK'
  BY <1>4 DEF Claim, SweepOnly, ClaimRow, Crash, ReportOK
<1>5. CASE Tick \/ UNCHANGED vars
  BY <1>5 DEF Tick, BecomeDue, ExpireLease, vars, ReportOK
<1> QED
  BY <1>1, <1>2, <1>3, <1>4, <1>5 DEF Next

\* Nothing is asked for, claimed or shown at first.
LEMMA SInit == Init => SInv
<1> SUFFICES ASSUME Init PROVE SInv
  OBVIOUS
<1>1. \A k \in Key : row[k] = NoRow /\ shown[k] = <<>>
  BY DEF Init
<1>2. \A w \in Worker : ~Working(w) /\ pc[w] # "ack"
  BY DEF Init, Working
<1>3. RowsReached /\ RowsPoint /\ WasShown
  BY <1>1 DEF RowsReached, RowsPoint, WasShown, NoRow
<1>4. ClaimsPoint /\ AcksShown
  BY <1>2 DEF ClaimsPoint, AcksShown
<1>5. ReportOK
  BY DEF Init, ReportOK
<1> QED
  BY <1>3, <1>4, <1>5 DEF SInv

\* Every step keeps what is known of the messages.
LEMMA SStep == OInv /\ SInv /\ [Next]_vars => SInv'
<1> SUFFICES ASSUME OInv, SInv, [Next]_vars PROVE SInv'
  OBVIOUS
<1>1. StepEffect
  BY Effects DEF SInv
<1> QED
  BY <1>1, RowsReachedStep, RowsShownStep, ClaimsShownStep, ReportTyped DEF SInv

\* It is known in every behaviour.
LEMMA SInvariance == Spec => []SInv
<1> QED
  BY OInvariance, SInit, SStep, PTL DEF Spec

\* A row that counts as delivered (sentAt) points to a message that has shown
\* the text asked for last (acknowledgeDelivery of telegram.service.ts compares
\* the version it sent with desiredVersion): an edit made while an older text
\* was on its way is never taken for sent, however slow or often replaced the
\* workers are.
THEOREM DeliveredTextsWereShown == Spec => []WasShown
<1>1. SInv => WasShown
  BY DEF SInv
<1> QED
  BY <1>1, SInvariance, PTL

-------------------------------------------------------------------------------
\* The report.

\* Only a new text takes back the cancellation of a row.
LEMMA CanceledStays ==
  ASSUME OInv, NEW k \in Key, RowStep(k), row[k].canceled
  PROVE  row'[k].canceled \/ AskedFor(k)
<1>1. row[k] \in RowType /\ row[k].lease = None
  BY DEF OInv, RowsOK, RowOK, Open
<1>2. CASE row'[k] = row[k] \/ ClosedBy(k) \/ Aged(k)
  BY <1>1, <1>2 DEF ClosedBy, Canceled, Aged, RowType
<1>3. ~Abandoned(row[k])
  BY DEF Abandoned
<1>4. ASSUME NEW w \in Worker PROVE ~ClaimedBy(k, w) /\ ~LetGoBy(k, w)
  BY <1>1, OutboxAssumption DEF ClaimedBy, Claimable, Open, LetGoBy
<1> QED
  BY <1>2, <1>3, <1>4 DEF RowStep

\* A row that waits for nothing is no worker's.
LEMMA NotAckedTwice ==
  ASSUME OInv, NEW k \in Key, ~Waiting(row[k]), NEW w \in Worker
  PROVE  ~AckedBy(k, w)
BY OutboxAssumption DEF OInv, RowsOK, RowOK, Open, AckedBy

\* The mark of the report survives every step but a new text of a part.
LEMMA SentKept ==
  ASSUME OInv, SInv, SentMeansAllParts, StepEffect,
         report' = report, report.sentToTelegram
  PROVE  SentMeansAllParts'
<1> SUFFICES ASSUME NEW k \in Key, EventOf(k) \in Part, Current(k)', ~row'[k].canceled
             PROVE  ~Waiting(row'[k])
  BY DEF SentMeansAllParts
<1> DEFINE u == RecipientOf[EventOf(k)]
<1>1. u \in Recipient /\ VersionOf(k) \in Nat
  BY KeyFacts
<1>2. RowStep(k) /\ BindingStep(u) /\ ~AskedFor(k) /\ ~OneMoreText(k)
  BY <1>1 DEF StepEffect, AskedFor, OneMoreText
<1>3. ~row[k].canceled
  BY <1>2, CanceledStays
<1>4. ~Waiting(row[k])
  <2>1. CASE binding'[u] = binding[u]
    <3>1. Current(k)
      BY <2>1 DEF Current
    <3> QED
      BY <1>3, <3>1 DEF SentMeansAllParts
  <2>2. ASSUME NEW linked \in BOOLEAN,
               binding'[u] = [version |-> binding[u].version + 1, linked |-> linked]
        PROVE  ~Waiting(row[k])
    <3>1. VersionOf(k) = binding[u].version + 1 /\ binding[u].version \in Nat
      BY <1>1, <2>2 DEF Current, OInv, BindingsOK, BindingType
    <3>2. ~(row[k].desired > 0)
      BY <3>1 DEF SInv, RowsReached
    <3> QED
      BY <3>2 DEF Waiting, OInv, RowsOK, RowType
  <2> QED
    BY <1>2, <2>1, <2>2 DEF BindingStep
<1>5. SameTexts(k)
  BY <1>2, <1>4, RowTexts, NotAckedTwice
<1> QED
  BY <1>4, <1>5 DEF SameTexts, Waiting

\* An acknowledgement looks at every part under the binding of now.
LEMMA SentByAcknowledgement ==
  ASSUME OInv, NEW w \in Worker, pc[w] = "ack", HoldsLease(w), EventOf(job[w].key) \in Part,
         binding' = binding, NoPartWaits(row', job[w].key)
  PROVE  SentMeansAllParts'
<1> SUFFICES ASSUME NEW k \in Key, EventOf(k) \in Part, Current(k)', ~row'[k].canceled
             PROVE  ~Waiting(row'[k])
  BY DEF SentMeansAllParts
<1>1. job[w].key \in Key /\ Open(row[job[w].key])
  BY HeldIsOpen
<1>2. Current(job[w].key)
  BY <1>1 DEF OInv, RowsOK, RowOK
<1>3. RecipientOf[EventOf(job[w].key)] = RecipientOf[EventOf(k)]
  BY OutboxAssumption
<1>4. VersionOf(job[w].key) = VersionOf(k)
  BY <1>2, <1>3 DEF Current
<1>5. k = <<EventOf(k), VersionOf(k)>>
  BY DEF Key, EventOf, VersionOf
<1> QED
  BY <1>4, <1>5 DEF NoPartWaits

\* No step marks a report too early, or keeps a mark too long.
LEMMA SentStep == OInv /\ SInv /\ SentMeansAllParts /\ [Next]_vars => SentMeansAllParts'
<1> SUFFICES ASSUME OInv, SInv, SentMeansAllParts, [Next]_vars PROVE SentMeansAllParts'
  OBVIOUS
<1>1. StepEffect
  BY Effects DEF SInv
<1>2. CASE report' = report /\ report.sentToTelegram
  BY <1>1, <1>2, SentKept
<1>3. CASE ~report'.sentToTelegram
  BY <1>3 DEF SentMeansAllParts
<1>4. ASSUME NEW w \in Worker, pc[w] = "ack", HoldsLease(w), EventOf(job[w].key) \in Part,
             binding' = binding, report'.sentToTelegram = NoPartWaits(row', job[w].key),
             report'.sentToTelegram
      PROVE  SentMeansAllParts'
  BY <1>4, SentByAcknowledgement
<1> QED
  BY <1>1, <1>2, <1>3, <1>4 DEF StepEffect, ReportStep

\* Whatever order parts, edits, acknowledgements and changes of the chat come
\* in, a report marked as sent (sentToTelegramAt, written by the
\* acknowledgement of a part) has no part that still waits to reach the group
\* linked now.
THEOREM SentReportsAreComplete == Spec => []SentMeansAllParts
<1>1. Init => SentMeansAllParts
  BY DEF Init, SentMeansAllParts
<1> QED
  BY <1>1, OInvariance, SInvariance, SentStep, PTL DEF Spec

-------------------------------------------------------------------------------
\* What is shown, while leases outlive the deliveries they cover.

\* The worker's claim is in force.
Held(w) == HoldsLease(w) /\ ~row[job[w].key].expired

\* The row was closed under the worker, with its binding.
Bypassed(w) ==
    LET k == job[w].key
    IN  /\ row[k].canceled /\ Waiting(row[k])
        /\ VersionOf(k) < binding[RecipientOf[EventOf(k)]].version

ClaimsInForce == \A w \in Worker : Working(w) => Held(w) \/ Bypassed(w)

AcksShow ==
    \A w \in Worker : pc[w] = "ack" /\ HoldsLease(w) =>
        shown[job[w].key][job[w].message].text = job[w].version

TInv == ClaimsInForce /\ AcksShow /\ ShowsLatest


\* A claim in force stays in force until its worker ends or the binding changes.
LEMMA HeldKept ==
  ASSUME Timely, OInv, StepEffect, NEW w \in Worker, Working(w), Held(w),
         Working(w)', job'[w].key = job[w].key
  PROVE  Held(w)' \/ Bypassed(w)'
<1> DEFINE k == job[w].key
<1>1. k \in Key /\ row[k] \in RowType /\ row[k].lease = w /\ ~row[k].expired /\ Open(row[k])
  BY OutboxAssumption DEF OInv, WorkersOK, RowsOK, RowOK, Working, Held, HoldsLease
<1>2. RowStep(k)
  BY <1>1 DEF StepEffect
<1>3. CASE row'[k] = row[k]
  BY <1>1, <1>3 DEF Held, HoldsLease
<1>4. CASE AskedFor(k)
  BY <1>1, <1>4 DEF AskedFor, Rewritten, RowType, Held, HoldsLease
<1>5. CASE ClosedBy(k)
  <2>1. row'[k].canceled /\ Waiting(row'[k])
    BY <1>1, <1>5 DEF ClosedBy, Canceled, RowType, Open, Waiting
  <2>2. VersionOf(k) < binding'[RecipientOf[EventOf(k)]].version
    <3>1. VersionOf(k) \in Nat /\ binding'[RecipientOf[EventOf(k)]].version \in Nat
      BY <1>1, KeyFacts, VersionsGrow
    <3> QED
      BY <1>1, <1>5, <3>1 DEF ClosedBy
  <2> QED
    BY <2>1, <2>2 DEF Bypassed
<1>6. CASE Aged(k)
  BY <1>1, <1>6 DEF Aged, RowType, Held, HoldsLease
<1>7. ~Abandoned(row[k])
  BY <1>1 DEF Abandoned
<1>8. ASSUME NEW v \in Worker PROVE ~ClaimedBy(k, v) /\ ~LetGoBy(k, v)
  <2>1. ~ClaimedBy(k, v)
    BY <1>1, OutboxAssumption DEF ClaimedBy, Claimable
  <2>2. ~LetGoBy(k, v)
    BY <1>1 DEF LetGoBy, Working
  <2> QED
    BY <2>1, <2>2
<1> QED
  BY <1>2, <1>3, <1>4, <1>5, <1>6, <1>7, <1>8 DEF RowStep

\* A row closed with its binding stays closed: no producer writes to it again.
LEMMA BypassedKept ==
  ASSUME OInv, StepEffect, NEW w \in Worker, Working(w), Bypassed(w),
         job'[w].key = job[w].key
  PROVE  Bypassed(w)'
<1> DEFINE k == job[w].key
           u == RecipientOf[EventOf(k)]
<1>1. k \in Key /\ row[k].canceled /\ Waiting(row[k]) /\ VersionOf(k) < binding[u].version
  BY DEF OInv, WorkersOK, Working, Bypassed
<1>2. /\ RowStep(k) /\ VersionOf(k) \in Nat
      /\ binding[u].version \in Nat /\ binding'[u].version \in Nat
      /\ binding[u].version <= binding'[u].version
  BY <1>1, KeyFacts, VersionsGrow DEF StepEffect
<1>3. ~AskedFor(k) /\ ~OneMoreText(k)
  BY <1>1, <1>2 DEF AskedFor, OneMoreText, Current
<1>4. row'[k].canceled
  BY <1>1, <1>2, <1>3, CanceledStays
<1>5. ASSUME NEW v \in Worker PROVE ~AckedBy(k, v)
  BY <1>1, OutboxAssumption DEF OInv, RowsOK, RowOK, Open, AckedBy
<1>6. SameTexts(k)
  BY <1>1, <1>2, <1>3, <1>5, RowTexts
<1>7. Waiting(row'[k])
  BY <1>1, <1>6 DEF SameTexts, Waiting
<1> QED
  BY <1>1, <1>2, <1>4, <1>7 DEF Bypassed

\* A worker that works has its claim in force, or was bypassed.
LEMMA ClaimsInForceStep ==
  ASSUME Timely, OInv, TInv, StepEffect
  PROVE  ClaimsInForce'
<1> SUFFICES ASSUME NEW w \in Worker, Working(w)' PROVE Held(w)' \/ Bypassed(w)'
  BY DEF ClaimsInForce
<1>1. CASE Working(w) /\ job'[w].key = job[w].key
  BY <1>1, HeldKept, BypassedKept DEF TInv, ClaimsInForce
<1>2. ASSUME NEW k \in Key, ClaimedBy(k, w) PROVE Held(w)'
  <2>1. row[k] \in RowType
    BY DEF OInv, RowsOK
  <2>2. row'[k].lease = w /\ ~row'[k].expired
    BY <1>2, <2>1 DEF ClaimedBy, Claimed, RowType
  <2> QED
    BY <1>2, <2>2 DEF ClaimedBy, Held, HoldsLease
<1>3. WorkerStep(w)
  BY DEF StepEffect
<1> QED
  BY <1>1, <1>2, <1>3 DEF WorkerStep, SameClaim, Working

\* Only the worker whose claim is in force, or one whose row was closed, writes
\* to the chat.
LEMMA OthersDoNotWrite ==
  ASSUME OInv, SInv, TInv, NEW v \in Worker, pc[v] = "send", Arrived(v),
         NEW k \in Key, \/ ~Waiting(row[k])
                        \/ \E w \in Worker : row[k].lease = w /\ pc[w] = "ack"
  PROVE  shown'[k] = shown[k]
<1>1. Working(v)
  BY DEF Working
<1>2. job[v].message \in 0 .. Len(shown[job[v].key]) /\ (Held(v) \/ Bypassed(v))
  BY <1>1 DEF SInv, ClaimsPoint, TInv, ClaimsInForce
<1>3. ASSUME job[v].key = k PROVE FALSE
  <2>1. CASE Held(v)
    <3>1. row[k].lease = v /\ Open(row[k])
      BY <1>3, <2>1, OutboxAssumption DEF Held, HoldsLease, OInv, RowsOK, RowOK
    <3> QED
      BY <3>1 DEF Open
  <2>2. CASE Bypassed(v)
    <3>1. row[k].canceled /\ Waiting(row[k])
      BY <1>3, <2>2 DEF Bypassed
    <3> QED
      BY <3>1, OutboxAssumption DEF OInv, RowsOK, RowOK, Open
  <2> QED
    BY <1>2, <2>1, <2>2
<1> QED
  BY <1>2, <1>3, Arrival

\* A text to be acknowledged under a claim in force is still on top.
LEMMA AcksShowStep ==
  ASSUME OInv, SInv, TInv, StepEffect
  PROVE  AcksShow'
<1> SUFFICES ASSUME NEW w \in Worker, pc'[w] = "ack", HoldsLease(w)'
             PROVE  shown'[job'[w].key][job'[w].message].text = job'[w].version
  BY DEF AcksShow
<1> DEFINE k == job[w].key
<1>1. CASE pc'[w] = pc[w] /\ job'[w] = job[w]
  <2>1. k \in Key /\ row[k] \in RowType
    BY <1>1 DEF OInv, WorkersOK, RowsOK
  <2>2. row'[k].lease = w
    BY <1>1 DEF HoldsLease
  <2>3. row[k].lease = w
    <3>1. RowStep(k)
      BY <2>1 DEF StepEffect
    <3>2. ASSUME NEW v \in Worker PROVE ~LetGoBy(k, v) /\ ~ClaimedBy(k, v)
      <4>1. ~ClaimedBy(k, v)
        BY <1>1, <2>1, <2>2 DEF ClaimedBy, Claimed, RowType
      <4>2. ASSUME LetGoBy(k, v) PROVE FALSE
        <5>1. row'[k].lease = None
          BY <2>1, <4>2 DEF LetGoBy, Canceled, Recorded, Acked, Delivered, Unleased, RowType
        <5> QED
          BY <2>2, <5>1, OutboxAssumption
      <4> QED
        BY <4>1, <4>2
    <3>3. ASSUME row'[k] = GivenUp(row[k]) \/ row'[k] = Canceled(row[k]) PROVE FALSE
      <4>1. row'[k].lease = None
        BY <2>1, <3>3 DEF GivenUp, Canceled, Unleased, RowType
      <4> QED
        BY <2>2, <4>1, OutboxAssumption
    <3>4. CASE row'[k] = row[k] \/ AskedFor(k) \/ Aged(k)
      BY <2>1, <2>2, <3>4 DEF AskedFor, Rewritten, Aged, RowType
    <3> QED
      BY <3>1, <3>2, <3>3, <3>4 DEF RowStep, ClosedBy
  <2>4. shown[k][job[w].message].text = job[w].version
    BY <1>1, <2>3 DEF TInv, AcksShow, HoldsLease
  <2>5. shown'[k] = shown[k]
    BY <1>1, <2>1, <2>3, OthersDoNotWrite DEF StepEffect, ChatStep
  <2> QED
    BY <1>1, <2>4, <2>5
<1>2. CASE /\ pc[w] = "send" /\ Arrived(w)
           /\ SameClaim(w) /\ job'[w].message = NewMessage(w)
  <2>1. job[w].message \in 0 .. Len(shown[k])
    BY <1>2 DEF SInv, ClaimsPoint, Working
  <2> QED
    BY <1>2, <2>1, Arrival DEF SameClaim
<1>3. WorkerStep(w)
  BY DEF StepEffect
<1> QED
  BY <1>1, <1>2, <1>3 DEF WorkerStep

\* A row that waits no longer shows its last text.
LEMMA ShowsLatestStep ==
  ASSUME OInv, SInv, TInv, StepEffect, WasShown'
  PROVE  ShowsLatest'
<1> SUFFICES ASSUME NEW k \in Key, row'[k].desired > 0, ~Waiting(row'[k])
             PROVE  shown'[k][row'[k].message].text = row'[k].desired
  BY DEF ShowsLatest, WasShown
<1>1. RowStep(k) /\ ChatStep
  BY DEF StepEffect
<1>2. CASE SameTexts(k)
  <2>1. row[k].desired > 0 /\ ~Waiting(row[k])
    BY <1>2 DEF SameTexts, Waiting
  <2>2. shown[k][row[k].message].text = row[k].desired
    BY <2>1 DEF TInv, ShowsLatest
  <2>3. shown'[k] = shown[k]
    BY <1>1, <2>1, OthersDoNotWrite DEF ChatStep
  <2> QED
    BY <1>2, <2>2, <2>3 DEF SameTexts
<1>3. ~OneMoreText(k)
  BY DEF OneMoreText, Waiting, OInv, RowsOK, RowOK, RowType
<1>4. ASSUME NEW w \in Worker, AckedBy(k, w)
      PROVE  shown'[k][row'[k].message].text = row'[k].desired
  <2>1. Waiting(row[k])
    BY <1>4, OutboxAssumption DEF AckedBy, OInv, RowsOK, RowOK, Open
  <2>2. job[w].version = row[k].desired
    BY <1>4, <2>1 DEF AckedBy, Waiting
  <2>3. shown[k][job[w].message].text = job[w].version
    BY <1>4 DEF AckedBy, TInv, AcksShow, HoldsLease
  <2> QED
    BY <1>4, <2>2, <2>3 DEF AckedBy
<1> QED
  BY <1>1, <1>2, <1>3, <1>4, RowTexts

\* Nobody works at first.
LEMMA TInit == Init => TInv
<1> SUFFICES ASSUME Init PROVE TInv
  OBVIOUS
<1>1. \A w \in Worker : ~Working(w) /\ pc[w] # "ack"
  BY DEF Init, Working
<1>2. \A k \in Key : row[k] = NoRow
  BY DEF Init
<1>3. ShowsLatest
  BY <1>2 DEF ShowsLatest, NoRow
<1> QED
  BY <1>1, <1>3 DEF TInv, ClaimsInForce, AcksShow

\* While workers are timely, every step keeps their claims in force.
LEMMA TStep == Timely /\ OInv /\ SInv /\ TInv /\ [Next]_vars => TInv'
<1> SUFFICES ASSUME Timely, OInv, SInv, TInv, [Next]_vars PROVE TInv'
  OBVIOUS
<1>1. StepEffect
  BY Effects DEF SInv
<1>2. WasShown'
  BY SStep DEF SInv
<1> QED
  BY <1>1, <1>2, ClaimsInForceStep, AcksShowStep, ShowsLatestStep DEF TInv

\* While no lease runs out under a worker that still delivers (LEASE_MS of
\* telegram.service.ts against the timeout of the API call), a row that counts
\* as delivered points to a message that shows the text asked for last: neither
\* an edit that came while an older text was on its way, nor a worker of a
\* replaced binding, nor a restart leaves an older text on top.
THEOREM LatestTextIsShown == ASSUME Timely PROVE Spec => []ShowsLatest
<1>1. TInv => ShowsLatest
  BY DEF TInv
<1>2. OInv /\ SInv /\ TInv /\ [Next]_vars => TInv'
  BY TStep
<1> QED
  BY <1>1, <1>2, OInvariance, SInvariance, TInit, PTL DEF Spec

-------------------------------------------------------------------------------
\* What the outbox promises (TelegramNotices), while workers are timely.

\* A row is worked on by one worker at a time, also when it has been closed
\* under that worker.
OneAtATime ==
    \A v, w \in Worker : Working(v) /\ Working(w) /\ job[v].key = job[w].key => v = w

\* No message shows more than was asked for.
TextsAsked ==
    \A k \in Key : \A m \in 1 .. Len(shown[k]) : shown[k][m].text <= row[k].desired

\* Nothing newer is shown than what a worker is about to send.
NothingNewer ==
    \A w \in Worker : Working(w) =>
        LET k == job[w].key
        IN  /\ 0 < job[w].version /\ job[w].version <= row[k].desired
            /\ \A m \in 1 .. Len(shown[k]) : shown[k][m].text <= job[w].version

NInv == OneAtATime /\ TextsAsked /\ NothingNewer

\* Whoever works after a step has worked before it, or has just claimed a row.
LEMMA WorkGoesOn ==
  ASSUME OInv, StepEffect, NEW w \in Worker, Working(w)'
  PROVE  \/ Working(w) /\ SameClaim(w)
         \/ /\ shown' = shown
            /\ \E k \in Key : /\ ClaimedBy(k, w)
                              /\ job'[w].version = row[k].desired
<1>1. WorkerStep(w)
  BY DEF StepEffect
<1> QED
  BY <1>1 DEF WorkerStep, SameClaim, Working

\* The number of texts asked for never falls.
LEMMA DesiredGrows ==
  ASSUME OInv, StepEffect, NEW k \in Key
  PROVE  /\ row[k].desired \in Nat /\ row'[k].desired \in Nat
         /\ row[k].desired <= row'[k].desired
<1>1. row[k].desired \in Nat
  BY DEF OInv, RowsOK, RowType
<1>2. RowStep(k)
  BY DEF StepEffect
<1>3. row'[k].desired = row[k].desired \/ row'[k].desired = row[k].desired + 1
  BY <1>2, RowTexts DEF SameTexts, OneMoreText, AckedBy
<1> QED
  BY <1>1, <1>3

\* A row that is worked on is not claimed.
LEMMA NotClaimedTwice ==
  ASSUME OInv, TInv, NEW v \in Worker, NEW w \in Worker, NEW k \in Key,
         Working(v), job[v].key = k, ClaimedBy(k, w)
  PROVE  FALSE
<1>1. Held(v) \/ Bypassed(v)
  BY DEF TInv, ClaimsInForce
<1>2. Open(row[k]) /\ (row[k].lease = None \/ row[k].expired)
  BY DEF ClaimedBy, Claimable
<1>3. CASE Held(v)
  BY <1>2, <1>3, OutboxAssumption DEF Held, HoldsLease
<1>4. CASE Bypassed(v)
  BY <1>2, <1>4 DEF Bypassed, Open
<1> QED
  BY <1>1, <1>3, <1>4

\* One at a time: a claim finds nobody at work.
LEMMA OneAtATimeStep ==
  ASSUME OInv, TInv, NInv, StepEffect
  PROVE  OneAtATime'
<1> SUFFICES ASSUME NEW v \in Worker, NEW w \in Worker, Working(v)', Working(w)',
                    job'[v].key = job'[w].key
             PROVE  v = w
  BY DEF OneAtATime
<1>1. CASE Working(v) /\ SameClaim(v) /\ Working(w) /\ SameClaim(w)
  BY <1>1 DEF NInv, OneAtATime, SameClaim
<1>2. ASSUME NEW k \in Key, ClaimedBy(k, v) PROVE v = w
  <2>1. CASE Working(w) /\ SameClaim(w)
    <3>1. job[w].key = k
      BY <1>2, <2>1 DEF ClaimedBy, SameClaim
    <3> QED
      BY <1>2, <2>1, <3>1, NotClaimedTwice
  <2>2. ASSUME NEW q \in Key, ClaimedBy(q, w) PROVE v = w
    <3>1. q = k
      BY <1>2, <2>2 DEF ClaimedBy
    <3>2. row'[k] = Claimed(k, v) /\ row'[k] = Claimed(k, w)
      BY <1>2, <2>2, <3>1 DEF ClaimedBy
    <3>3. \A u \in Worker : Claimed(k, u).lease = u
      BY DEF Claimed, OInv, RowsOK, RowType
    <3> QED
      BY <3>2, <3>3
  <2> QED
    BY <2>1, <2>2, WorkGoesOn
<1>3. ASSUME NEW k \in Key, ClaimedBy(k, w), Working(v), SameClaim(v) PROVE v = w
  <2>1. job[v].key = k
    BY <1>3 DEF ClaimedBy, SameClaim
  <2> QED
    BY <1>3, <2>1, NotClaimedTwice
<1> QED
  BY <1>1, <1>2, <1>3, WorkGoesOn

\* What arrives was asked for.
LEMMA TextsAskedStep ==
  ASSUME OInv, SInv, NInv, StepEffect
  PROVE  TextsAsked'
<1> SUFFICES ASSUME NEW k \in Key, NEW m \in 1 .. Len(shown'[k])
             PROVE  shown'[k][m].text <= row'[k].desired
  BY DEF TextsAsked
<1>1. CASE shown' = shown
  <2>1. shown[k][m].text <= row[k].desired
    BY <1>1 DEF NInv, TextsAsked
  <2>2. shown[k][m].text \in Nat
    <3>1. shown[k] \in Seq(MessageType) /\ m \in 1 .. Len(shown[k])
      BY <1>1 DEF OInv, ShownOK
    <3>2. shown[k][m] \in MessageType
      BY <3>1
    <3> QED
      BY <3>2 DEF MessageType
  <2> QED
    BY <1>1, <2>1, <2>2, DesiredGrows
<1>2. ASSUME NEW w \in Worker, pc[w] = "send", Arrived(w), row' = row
      PROVE  shown'[k][m].text <= row'[k].desired
  <2>1. Working(w)
    BY <1>2 DEF Working
  <2>2. job[w].message \in 0 .. Len(shown[job[w].key])
    BY <2>1 DEF SInv, ClaimsPoint
  <2>3. CASE k # job[w].key
    BY <1>2, <2>2, <2>3, Arrival DEF NInv, TextsAsked
  <2>4. CASE k = job[w].key
    BY <1>2, <2>1, <2>2, <2>4, ArrivedTexts DEF NInv, TextsAsked, NothingNewer
  <2> QED
    BY <2>3, <2>4
<1> QED
  BY <1>1, <1>2 DEF StepEffect, ChatStep

\* Nothing newer arrives under a worker: no other writes to its chat.
LEMMA NothingNewerStep ==
  ASSUME OInv, SInv, TInv, NInv, StepEffect
  PROVE  NothingNewer'
<1> SUFFICES ASSUME NEW w \in Worker, Working(w)'
             PROVE  LET k == job'[w].key
                    IN  /\ 0 < job'[w].version /\ job'[w].version <= row'[k].desired
                        /\ \A m \in 1 .. Len(shown'[k]) : shown'[k][m].text <= job'[w].version
  BY DEF NothingNewer
<1>1. CASE Working(w) /\ SameClaim(w)
  <2> DEFINE k == job[w].key
  <2>1. k \in Key /\ job'[w].key = k /\ job'[w].version = job[w].version
    BY <1>1 DEF SameClaim, Working, OInv, WorkersOK
  <2>2. job[w].version \in Nat
    BY DEF OInv, WorkersOK, JobType
  <2>3. /\ 0 < job[w].version /\ job[w].version <= row[k].desired
        /\ \A m \in 1 .. Len(shown[k]) : shown[k][m].text <= job[w].version
    BY <1>1 DEF NInv, NothingNewer
  <2>4. job[w].version <= row'[k].desired
    BY <2>1, <2>2, <2>3, DesiredGrows
  <2>5. CASE shown' = shown
    BY <2>1, <2>3, <2>4, <2>5
  <2>6. ASSUME NEW v \in Worker, pc[v] = "send", Arrived(v)
        PROVE  \A m \in 1 .. Len(shown'[k]) : shown'[k][m].text <= job[w].version
    <3>1. Working(v)
      BY <2>6 DEF Working
    <3>2. job[v].message \in 0 .. Len(shown[job[v].key])
      BY <3>1 DEF SInv, ClaimsPoint
    <3>3. CASE job[v].key # k
      BY <2>1, <2>3, <2>6, <3>2, <3>3, Arrival
    <3>4. CASE job[v].key = k
      <4>1. v = w
        BY <1>1, <3>1, <3>4 DEF NInv, OneAtATime
      <4> QED
        BY <2>2, <2>3, <2>6, <3>2, <4>1, ArrivedTexts
    <3> QED
      BY <3>3, <3>4
  <2> QED
    BY <2>1, <2>3, <2>4, <2>5, <2>6 DEF StepEffect, ChatStep
<1>2. ASSUME NEW k \in Key, ClaimedBy(k, w), shown' = shown, job'[w].version = row[k].desired
      PROVE  /\ job'[w].key = k /\ 0 < job'[w].version /\ job'[w].version <= row'[k].desired
             /\ \A m \in 1 .. Len(shown'[k]) : shown'[k][m].text <= job'[w].version
  <2>1. row[k] \in RowType /\ Open(row[k]) /\ job'[w].key = k
    BY <1>2 DEF ClaimedBy, Claimable, OInv, RowsOK
  <2>2. 0 < row[k].desired
    BY <2>1 DEF Open, Waiting, RowType
  <2> QED
    BY <1>2, <2>1, <2>2, DesiredGrows DEF NInv, TextsAsked
<1> QED
  BY <1>1, <1>2, WorkGoesOn

\* Nobody works and nothing is shown at first.
LEMMA NInit == Init => NInv
<1> SUFFICES ASSUME Init PROVE NInv
  OBVIOUS
<1>1. \A w \in Worker : ~Working(w)
  BY DEF Init, Working
<1>2. \A k \in Key : Len(shown[k]) = 0
  BY DEF Init
<1> QED
  BY <1>1, <1>2 DEF NInv, OneAtATime, TextsAsked, NothingNewer

\* While workers are timely, a row keeps one worker and a chat its order.
LEMMA NStep == Timely /\ OInv /\ SInv /\ TInv /\ NInv /\ [Next]_vars => NInv'
<1> SUFFICES ASSUME OInv, SInv, TInv, NInv, [Next]_vars PROVE NInv'
  OBVIOUS
<1>1. StepEffect
  BY Effects DEF SInv
<1> QED
  BY <1>1, OneAtATimeStep, TextsAskedStep, NothingNewerStep DEF NInv

\* The variables of TelegramNotices, as TelegramOutbox gives them values.
Asked == [k \in Key |-> row[k].desired]
Chat == [k \in Key |-> [m \in 1 .. Len(shown[k]) |-> shown[k][m].text]]
Told == [k \in Key |-> row[k].delivered]
Closed == {k \in Key : Over(k)}

\* The outbox begins as a list of notices does.
LEMMA NoticesInit == Init => Notices!Init
<1> SUFFICES ASSUME Init PROVE Notices!Init
  OBVIOUS
<1>1. \A k \in Key : row[k] = NoRow /\ shown[k] = <<>>
  BY DEF Init
<1>2. \A k \in Key : ~Over(k)
  <2> TAKE k \in Key
  <2>1. 1 <= VersionOf(k) /\ VersionOf(k) \in Nat
    BY OutboxAssumption DEF Key, VersionOf
  <2>2. binding[RecipientOf[EventOf(k)]] = [version |-> 1, linked |-> TRUE]
    BY KeyFacts DEF Init
  <2> QED
    BY <2>1, <2>2 DEF Over
<1>3. Asked = [k \in Key |-> 0] /\ Told = [k \in Key |-> 0]
  BY <1>1 DEF Asked, Told, NoRow
<1>4. Chat = [k \in Key |-> <<>>]
  <2>1. ASSUME NEW k \in Key
        PROVE  [m \in 1 .. Len(shown[k]) |-> shown[k][m].text] = <<>>
    BY <1>1
  <2> QED
    BY <2>1 DEF Chat
<1>5. Closed = {}
  BY <1>2 DEF Closed
<1> QED
  BY <1>3, <1>4, <1>5 DEF Notices!Init, Asked, Chat, Told, Closed

\* A sequence that is one element longer.
LEMMA AppendedText ==
  ASSUME NEW texts \in Seq(Nat), NEW text \in Nat
  PROVE  Append(texts, text) = [m \in 1 .. Len(texts) + 1 |->
                                  IF m = Len(texts) + 1 THEN text ELSE texts[m]]
<1> DEFINE longer == [m \in 1 .. Len(texts) + 1 |->
                        IF m = Len(texts) + 1 THEN text ELSE texts[m]]
           appended == Append(texts, text)
<1>1. /\ appended \in Seq(Nat) /\ Len(appended) = Len(texts) + 1
      /\ \A m \in 1 .. Len(texts) : appended[m] = texts[m]
      /\ appended[Len(texts) + 1] = text
  BY AppendProperties
<1>2. Len(texts) \in Nat /\ longer \in Seq(Nat) /\ Len(longer) = Len(texts) + 1
  OBVIOUS
<1> HIDE DEF appended
<1>3. \A m \in 1 .. Len(appended) : appended[m] = longer[m]
  BY <1>1, <1>2
<1> HIDE DEF longer
<1>4. appended = longer
  BY <1>1, <1>2, <1>3, SeqEqual
<1> QED
  BY <1>4 DEF appended, longer

\* Each of these is a step of the notices.
LEMMA NoticeSteps ==
  /\ \A ns \in SUBSET Key : Notices!Ask(ns) \/ Notices!Close(ns) => Notices!Next
  /\ \A k \in Key : Notices!Report(k) => Notices!Next
  /\ \A k \in Key : \A text \in 1 .. Asked[k] : Notices!Show(k, text) => Notices!Next
<1>1. \A ns \in SUBSET Key : Notices!Ask(ns) \/ Notices!Close(ns) => Notices!Next
  BY Zenon DEF Notices!Next
<1>2. \A k \in Key : Notices!Report(k) => Notices!Next
  BY Zenon DEF Notices!Next
<1>3. \A k \in Key : \A text \in 1 .. Asked[k] : Notices!Show(k, text) => Notices!Next
  BY Zenon DEF Notices!Next, Asked
<1> QED
  BY <1>1, <1>2, <1>3

\* A row of the present binding is not over.
LEMMA CurrentIsNotOver ==
  ASSUME OInv, NEW k \in Key, Current(k)
  PROVE  ~Over(k)
BY KeyFacts DEF Current, Over

\* A step that asks for nothing, shows nothing and delivers nothing at most ends
\* bindings, and what is over stays over.
LEMMA QuietStep ==
  ASSUME OInv, StepEffect, shown' = shown,
         \A k \in Key : row'[k].desired = row[k].desired /\ row'[k].delivered = row[k].delivered
  PROVE  Notices!Next
<1>1. ASSUME NEW k \in Key, Over(k) PROVE Over(k)'
  <2> DEFINE u == RecipientOf[EventOf(k)]
  <2>1. VersionOf(k) \in Nat /\ BindingStep(u) /\ binding[u].version \in Nat
    BY KeyFacts DEF StepEffect, OInv, BindingsOK, BindingType
  <2>2. ASSUME NEW linked \in BOOLEAN,
               binding'[u] = [version |-> binding[u].version + 1, linked |-> linked]
        PROVE  Over(k)'
    <3>1. binding'[u].version = binding[u].version + 1
      BY <2>2
    <3>2. VersionOf(k) <= binding[u].version
      BY <1>1, <2>1 DEF Over
    <3>3. VersionOf(k) < binding'[u].version
      BY <2>1, <3>1, <3>2
    <3> QED
      BY <3>3 DEF Over
  <2>3. CASE binding'[u] = binding[u]
    BY <1>1, <2>3 DEF Over
  <2> QED
    BY <2>1, <2>2, <2>3 DEF BindingStep
<1>2. Closed' = Closed \cup Closed'
  BY <1>1 DEF Closed
<1>3. Asked' = Asked /\ Told' = Told /\ Chat' = Chat
  BY DEF Asked, Told, Chat
<1>4. Closed' \in SUBSET Key
  BY DEF Closed
<1>5. Notices!Close(Closed')
  BY <1>2, <1>3 DEF Notices!Close, Asked, Told, Chat, Closed
<1> QED
  BY <1>4, <1>5, NoticeSteps

\* A producer asks for texts of notices that are not over.
LEMMA EnqueueAsks ==
  ASSUME OInv, NEW es, Enqueue(es), UNCHANGED <<binding, shown>>
  PROVE  Notices!Next
<1>1. PICK ns \in SUBSET Key : ns = {k \in Key : EventOf(k) \in es /\ Current(k)}
  OBVIOUS
<1>2. \A k \in Key : /\ row[k] \in RowType
                     /\ row'[k] = IF k \in ns THEN Rewritten(row[k]) ELSE row[k]
  BY <1>1 DEF Enqueue, OInv, RowsOK
<1>3. ASSUME NEW k \in Key
      PROVE  /\ Rewritten(row[k]).desired = row[k].desired + 1
             /\ Rewritten(row[k]).delivered = row[k].delivered
  BY <1>2 DEF Rewritten, RowType
<1>4. Closed' = Closed /\ Chat' = Chat
  BY DEF Closed, Over, Chat
<1>5. \A k \in Key : /\ row'[k].desired = IF k \in ns THEN row[k].desired + 1 ELSE row[k].desired
                     /\ row'[k].delivered = row[k].delivered
  BY <1>2, <1>3
<1>6. Told' = Told
  BY <1>5 DEF Told
<1>7. Asked' = [k \in Key |-> IF k \in ns THEN Asked[k] + 1 ELSE Asked[k]]
  BY <1>5 DEF Asked
<1>8. ns \cap Closed = {}
  BY <1>1, CurrentIsNotOver DEF Closed
<1>9. Notices!Ask(ns)
  BY <1>4, <1>6, <1>7, <1>8 DEF Notices!Ask, Asked, Told, Chat, Closed
<1> QED
  BY <1>9, NoticeSteps

\* A text that arrives is nowhere older than what the chat shows.
LEMMA ArrivalShows ==
  ASSUME OInv, SInv, NInv, NEW w \in Worker, pc[w] = "send", Arrived(w),
         UNCHANGED <<binding, row>>
  PROVE  Notices!Next
<1> DEFINE k == job[w].key
           n == job[w].message
           text == job[w].version
<1>1. Working(w)
  BY DEF Working
<1>2. /\ k \in Key /\ text \in Nat /\ row[k].desired \in Nat
      /\ shown[k] \in Seq(MessageType) /\ Len(shown[k]) \in Nat
      /\ n \in 0 .. Len(shown[k])
  BY <1>1 DEF OInv, WorkersOK, JobType, RowsOK, RowType, ShownOK, SInv, ClaimsPoint
<1>3. /\ 0 < text /\ text <= row[k].desired
      /\ \A m \in 1 .. Len(shown[k]) : shown[k][m].text <= text
  BY <1>1 DEF NInv, NothingNewer
<1>4. text \in 1 .. Asked[k]
  BY <1>2, <1>3 DEF Asked
<1>5. Len(Chat[k]) = Len(shown[k])
  BY <1>2 DEF Chat
<1>6. \A m \in 1 .. Len(Chat[k]) : Chat[k][m] <= text
  BY <1>2, <1>3, <1>5 DEF Chat
<1>7. Asked' = Asked /\ Told' = Told /\ Closed' = Closed
  BY DEF Asked, Told, Closed, Over
<1>8. \A q \in Key \ {k} : shown'[q] = shown[q]
  BY <1>2, Arrival
<1>9. \/ Chat' = [Chat EXCEPT ![k] = Append(@, text)]
      \/ \E m \in 1 .. Len(Chat[k]) : Chat' = [Chat EXCEPT ![k][m] = text]
  <2> DEFINE texts == [m \in 1 .. Len(shown'[k]) |-> shown'[k][m].text]
  <2>1. Chat' = [Chat EXCEPT ![k] = texts]
    BY <1>2, <1>8 DEF Chat
  <2>2. CASE n = 0
    <3> DEFINE new == [text |-> text, had |-> {text}]
    <3>1. shown'[k] = Append(shown[k], new)
      BY <1>2, <2>2 DEF Arrived, Written, OInv, ShownOK
    <3>2. new \in MessageType /\ new.text = text
      BY <1>2 DEF MessageType
    <3> HIDE DEF new
    <3>3. /\ Len(shown'[k]) = Len(shown[k]) + 1
          /\ shown'[k][Len(shown[k]) + 1] = new
          /\ \A m \in 1 .. Len(shown[k]) : shown'[k][m] = shown[k][m]
      BY <1>2, <3>1, <3>2
    <3>4. Chat[k] \in Seq(Nat)
      <4>1. ASSUME NEW m \in 1 .. Len(shown[k]) PROVE shown[k][m].text \in Nat
        <5>1. shown[k][m] \in MessageType
          BY <1>2
        <5> QED
          BY <5>1 DEF MessageType
      <4> QED
        BY <1>2, <4>1 DEF Chat
    <3>5. texts = Append(Chat[k], text)
      <4>1. texts = [m \in 1 .. Len(Chat[k]) + 1 |-> IF m = Len(Chat[k]) + 1 THEN text ELSE Chat[k][m]]
        BY <1>2, <1>5, <3>2, <3>3 DEF Chat
      <4> HIDE DEF texts
      <4> QED
        BY <1>2, <3>4, <4>1, AppendedText
    <3> QED
      BY <2>1, <3>5
  <2>3. CASE n # 0
    <3> DEFINE new == [text |-> text, had |-> shown[k][n].had \cup {text}]
    <3>1. shown'[k] = [shown[k] EXCEPT ![n] = new]
      BY <1>2, <2>3 DEF Arrived, Edited, OInv, ShownOK
    <3>2. new.text = text /\ n \in 1 .. Len(shown[k])
      BY <1>2, <2>3
    <3> HIDE DEF new
    <3>3. /\ Len(shown'[k]) = Len(shown[k])
          /\ \A m \in 1 .. Len(shown[k]) :
               shown'[k][m] = IF m = n THEN new ELSE shown[k][m]
      BY <1>2, <3>1, <3>2
    <3>4. texts = [Chat[k] EXCEPT ![n] = text]
      BY <1>2, <1>5, <3>2, <3>3 DEF Chat
    <3> HIDE DEF texts
    <3>5. Chat' = [Chat EXCEPT ![k][n] = text]
      BY <2>1, <3>4
    <3> QED
      BY <1>5, <3>2, <3>5
  <2> QED
    BY <2>2, <2>3
<1>10. PICK q \in Key : q = k
  BY <1>2
<1>11. PICK t \in 1 .. Asked[q] : t = text
  BY <1>4, <1>10
<1> HIDE DEF k, text
<1>12. Notices!Show(q, t)
  BY <1>6, <1>7, <1>9, <1>10, <1>11 DEF Notices!Show, Asked, Told, Chat, Closed
<1> QED
  BY <1>12, NoticeSteps

\* An acknowledgement reports what the chat shows, or nothing.
LEMMA AcknowledgeReports ==
  ASSUME OInv, SInv, TInv, StepEffect, NEW w \in Worker, Acknowledge(w)
  PROVE  Notices!Next
<1> DEFINE k == job[w].key
           latest == job[w].version = row[k].desired
<1>1. /\ k \in Key /\ pc[w] = "ack" /\ row[k] \in RowType
      /\ UNCHANGED <<binding, shown>>
  BY DEF Acknowledge, OInv, WorkersOK, RowsOK
<1>2. CASE HoldsLease(w) /\ ~row[k].canceled /\ latest
  <2>1. row' = [row EXCEPT ![k] = Delivered(w)]
    BY <1>2 DEF Acknowledge, Delivered, Acked
  <2>2. row'[k] = Delivered(w) /\ \A q \in Key \ {k} : row'[q] = row[q]
    BY <1>1, <2>1 DEF OInv, RowsOK
  <2>3. Delivered(w).desired = row[k].desired /\ Delivered(w).delivered = row[k].desired
    BY <1>1, <1>2 DEF Delivered, Acked, Unleased, RowType
  <2>4. Current(k)
    BY <1>1, <1>2, OutboxAssumption DEF HoldsLease, OInv, RowsOK, RowOK
  <2>5. k \notin Closed
    BY <1>1, <2>4, CurrentIsNotOver DEF Closed
  <2>6. /\ job[w].message \in 1 .. Len(shown[k]) /\ Len(shown[k]) \in Nat
        /\ shown[k][job[w].message].text = row[k].desired
    BY <1>1, <1>2 DEF SInv, AcksShown, TInv, AcksShow, OInv, ShownOK
  <2>7. \E m \in 1 .. Len(Chat[k]) : Chat[k][m] = Asked[k]
    <3>1. Len(Chat[k]) = Len(shown[k]) /\ Chat[k][job[w].message] = Asked[k]
      BY <1>1, <2>6 DEF Chat, Asked
    <3> QED
      BY <2>6, <3>1
  <2>8. Asked' = Asked /\ Told' = [Told EXCEPT ![k] = Asked[k]]
    BY <1>1, <2>2, <2>3 DEF Asked, Told
  <2>9. Chat' = Chat /\ Closed' = Closed
    BY <1>1 DEF Chat, Closed, Over
  <2>10. PICK q \in Key : q = k
    BY <1>1
  <2> HIDE DEF k
  <2>11. Notices!Report(q)
    BY <2>5, <2>7, <2>8, <2>9, <2>10 DEF Notices!Report, Asked, Told, Chat, Closed
  <2> QED
    BY <2>11, NoticeSteps
<1>3. CASE HoldsLease(w) /\ ~row[k].canceled /\ ~latest
  <2>1. row' = [row EXCEPT ![k] = Acked(w)]
    BY <1>3 DEF Acknowledge, Acked
  <2>2. Acked(w).desired = row[k].desired /\ Acked(w).delivered = row[k].delivered
    BY <1>1 DEF Acked, Unleased, RowType
  <2>3. \A q \in Key : row'[q].desired = row[q].desired /\ row'[q].delivered = row[q].delivered
    BY <1>1, <2>1, <2>2 DEF OInv, RowsOK
  <2> QED
    BY <1>1, <2>3, QuietStep
<1>4. CASE ~(HoldsLease(w) /\ ~row[k].canceled)
  BY <1>1, <1>4, QuietStep DEF Acknowledge
<1> QED
  BY <1>2, <1>3, <1>4

\* Every step of the outbox is one of its notices.
LEMMA StepIsNoticeStep ==
  OInv /\ SInv /\ TInv /\ NInv /\ [Next]_vars => [Notices!Next]_Notices!noticeVars
<1> SUFFICES ASSUME OInv, SInv, TInv, NInv, [Next]_vars
             PROVE  Notices!Next
  OBVIOUS
<1>1. StepEffect
  BY Effects DEF SInv
<1>2. \A k \in Key : row[k] \in RowType
  BY DEF OInv, RowsOK
<1> DEFINE Kept == \A k \in Key : /\ row'[k].desired = row[k].desired
                                  /\ row'[k].delivered = row[k].delivered
<1>3. ASSUME NEW r \in RowType
      PROVE  /\ Canceled(r).desired = r.desired /\ Canceled(r).delivered = r.delivered
             /\ GivenUp(r).desired = r.desired /\ GivenUp(r).delivered = r.delivered
  BY DEF Canceled, GivenUp, Unleased, RowType
<1>4. CASE Produce
  <2>1. ASSUME NEW e \in Event, Announce(e) PROVE Notices!Next
    BY <2>1, EnqueueAsks DEF Announce
  <2>2. ASSUME NEW changed \in SUBSET Part, SubmitReport(changed) PROVE Notices!Next
    BY <2>2, EnqueueAsks DEF SubmitReport
  <2>3. ASSUME NEW e \in Event, ChangeSubject(e) PROVE Notices!Next
    BY <1>1, <2>3, QuietStep DEF ChangeSubject
  <2>4. CASE UpdateReport
    BY <1>1, <2>4, QuietStep DEF UpdateReport
  <2>5. ASSUME NEW u \in Recipient,
               DeactivateUser(u) \/ \E linked \in BOOLEAN : Rebind(u, linked)
        PROVE  Notices!Next
    <3>1. shown' = shown
      BY <2>5 DEF DeactivateUser, Rebind
    <3>2. \A k \in Key : row'[k] = row[k] \/ row'[k] = Canceled(row[k])
      BY <2>5 DEF DeactivateUser, Rebind, CancelOpen
    <3>3. Kept
      BY <1>2, <1>3, <3>2
    <3> QED
      BY <1>1, <3>1, <3>3, QuietStep
  <2> QED
    BY <1>4, <2>1, <2>2, <2>3, <2>4, <2>5 DEF Produce
<1>5. ASSUME NEW w \in Worker, Claim(w) PROVE Notices!Next
  <2>1. shown' = shown
    BY <1>5 DEF Claim, SweepOnly, ClaimRow
  <2>2. ASSUME NEW k \in Key
        PROVE  /\ Swept[k].desired = row[k].desired
               /\ Swept[k].delivered = row[k].delivered
    <3>1. Swept[k] = row[k] \/ Swept[k] = GivenUp(row[k])
      BY DEF Swept, GivenUp
    <3> QED
      BY <1>2, <1>3, <3>1
  <2>3. Kept
    <3>1. CASE SweepOnly(w)
      BY <2>2, <3>1 DEF SweepOnly
    <3>2. ASSUME NEW k \in Key, ClaimRow(w, k) PROVE Kept
      <4> DEFINE claimed == [Swept[k] EXCEPT !.lease = w, !.leaseVersion = row[k].desired,
                                             !.expired = FALSE, !.attempts = @ + 1]
      <4>1. row' = [Swept EXCEPT ![k] = claimed]
        BY <3>2 DEF ClaimRow, Swept
      <4>2. row'[k] = claimed /\ \A q \in Key \ {k} : row'[q] = Swept[q]
        BY <4>1 DEF Swept
      <4>3. claimed.desired = Swept[k].desired /\ claimed.delivered = Swept[k].delivered
        <5>1. Swept[k] \in RowType
          BY <1>2 DEF Swept, Unleased, RowType
        <5> QED
          BY <5>1 DEF RowType
      <4> HIDE DEF claimed
      <4> QED
        BY <2>2, <4>2, <4>3
    <3> QED
      BY <1>5, <3>1, <3>2 DEF Claim
  <2> QED
    BY <1>1, <2>1, <2>3, QuietStep
<1>6. ASSUME NEW w \in Worker, Resolve(w) \/ CheckSubject(w) \/ Crash(w) PROVE Notices!Next
  BY <1>1, <1>6, QuietStep DEF Resolve, CheckSubject, Crash
<1>7. ASSUME NEW w \in Worker, Send(w) PROVE Notices!Next
  <2>1. CASE SendSucceeds(w) \/ AnswerLost(w)
    BY <2>1, ArrivalShows DEF SendSucceeds, AnswerLost
  <2>2. ASSUME NEW outcome, SendFails(w, outcome) PROVE Notices!Next
    BY <1>1, <2>2, QuietStep DEF SendFails
  <2> QED
    BY <1>7, <2>1, <2>2 DEF Send
<1>8. ASSUME NEW w \in Worker, Acknowledge(w) PROVE Notices!Next
  BY <1>1, <1>8, AcknowledgeReports
<1>9. ASSUME NEW w \in Worker, CancelLease(w) \/ RecordFailure(w) \/ DeactivateRecipient(w)
      PROVE  Notices!Next
  <2>1. shown' = shown
    BY <1>9 DEF CancelLease, RecordFailure, DeactivateRecipient
  <2>2. job[w].key \in Key
    BY <1>9 DEF CancelLease, RecordFailure, DeactivateRecipient, OInv, WorkersOK
  <2>3. CASE CancelLease(w)
    <3>1. \A k \in Key : row'[k] = row[k] \/ row'[k] = Canceled(row[k])
      BY <2>3 DEF CancelLease, OInv, RowsOK
    <3>2. Kept
      BY <1>2, <1>3, <3>1
    <3> QED
      BY <1>1, <2>1, <3>2, QuietStep
  <2>4. CASE RecordFailure(w)
    <3> DEFINE k == job[w].key
    <3>1. row' = row \/ \E failed \in BOOLEAN : row' = [row EXCEPT ![k] = Recorded(k, failed)]
      BY <2>4, <2>2 DEF RecordFailure, Recorded
    <3>2. ASSUME NEW failed \in BOOLEAN
          PROVE  /\ Recorded(k, failed).desired = row[k].desired
                 /\ Recorded(k, failed).delivered = row[k].delivered
      BY <1>2, <2>2 DEF Recorded, Unleased, RowType
    <3>3. Kept
      BY <2>2, <3>1, <3>2 DEF OInv, RowsOK
    <3> QED
      BY <1>1, <2>1, <3>3, QuietStep
  <2>5. CASE DeactivateRecipient(w)
    <3>1. \A k \in Key : row'[k] = row[k] \/ row'[k] = Canceled(row[k])
      BY <2>5 DEF DeactivateRecipient, CancelOpen
    <3>2. Kept
      BY <1>2, <1>3, <3>1
    <3> QED
      BY <1>1, <2>1, <3>2, QuietStep
  <2> QED
    BY <1>9, <2>3, <2>4, <2>5
<1>10. CASE Tick
  <2>1. ASSUME NEW k \in Key, BecomeDue(k) \/ ExpireLease(k) PROVE Notices!Next
    <3>1. Kept
      BY <1>2, <2>1 DEF BecomeDue, ExpireLease, OInv, RowsOK, RowType
    <3> QED
      BY <1>1, <2>1, <3>1, QuietStep DEF BecomeDue, ExpireLease
  <2> QED
    BY <1>10, <2>1 DEF Tick
<1>11. CASE UNCHANGED vars
  BY <1>1, <1>11, QuietStep DEF vars
<1> QED
  BY <1>4, <1>5, <1>6, <1>7, <1>8, <1>9, <1>10, <1>11 DEF Next, Work

\* As long as no lease runs out under a worker that still delivers (LEASE_MS of
\* telegram.service.ts), the outbox promises what TelegramNotices says: however
\* edits, retries after lost answers, crashes of workers and changes of bindings
\* come together, a chat is never sent back to an older text, and
\* acknowledgeDelivery records only what the linked chat then shows.
THEOREM OutboxImplementsNotices == ASSUME Timely PROVE Spec => ImplementsNotices
<1>1. OInv /\ SInv /\ TInv /\ [Next]_vars => TInv'
  BY TStep
<1>2. OInv /\ SInv /\ TInv /\ NInv /\ [Next]_vars => NInv'
  BY NStep
<1> QED
  BY <1>1, <1>2, OInvariance, SInvariance, TInit, NInit, NoticesInit, StepIsNoticeStep, PTL
  DEF Spec, ImplementsNotices, Notices!Spec


-------------------------------------------------------------------------------
\* The bounds of every variable.

BindingsBounded == \A u \in Recipient : binding[u].version \in 1 .. MaxVersion + 1

RowsBounded ==
    \A k \in Key : /\ row[k].desired \in 0 .. MaxDesired
                   /\ row[k].attempts \in 0 .. MaxAttempts
                   /\ row[k].leaseVersion \in 0 .. MaxDesired

JobsBounded ==
    \A w \in Worker : /\ job[w].version \in 0 .. MaxDesired
                      /\ job[w].attempts \in 0 .. MaxAttempts
                      /\ Working(w) => job[w].version > 0

ChatsBounded ==
    \A k \in Key : \A m \in 1 .. Len(shown[k]) :
        /\ shown[k][m].text \in 1 .. MaxDesired
        /\ shown[k][m].had \subseteq 1 .. MaxDesired

BInv ==
    /\ BindingsBounded /\ RowsBounded /\ JobsBounded /\ ChatsBounded
    /\ obsolete \subseteq Guarded

\* A version grows by one, from at most MaxVersion.
LEMMA BindingsBoundedStep ==
  ASSUME OInv, BInv, StepEffect
  PROVE  BindingsBounded'
<1> SUFFICES ASSUME NEW u \in Recipient PROVE binding'[u].version \in 1 .. MaxVersion + 1
  BY DEF BindingsBounded
<1>1. binding[u].version \in 1 .. MaxVersion + 1 /\ MaxVersion \in Nat
  BY OutboxAssumption DEF BInv, BindingsBounded
<1>2. ASSUME NEW linked \in BOOLEAN, binding[u].version <= MaxVersion,
             binding'[u] = [version |-> binding[u].version + 1, linked |-> linked]
      PROVE  binding'[u].version \in 1 .. MaxVersion + 1
  BY <1>1, <1>2
<1>3. BindingStep(u)
  BY DEF StepEffect
<1> QED
  BY <1>1, <1>2, <1>3 DEF BindingStep

\* Only a claim counts an attempt, and only below MAX_ATTEMPTS.
LEMMA RowsBoundedStep ==
  ASSUME OInv, BInv, StepEffect
  PROVE  RowsBounded'
<1> SUFFICES ASSUME NEW k \in Key
             PROVE  /\ row'[k].desired \in 0 .. MaxDesired
                    /\ row'[k].attempts \in 0 .. MaxAttempts
                    /\ row'[k].leaseVersion \in 0 .. MaxDesired
  BY DEF RowsBounded
<1>1. /\ row[k] \in RowType /\ RowStep(k)
      /\ row[k].desired \in 0 .. MaxDesired
      /\ row[k].attempts \in 0 .. MaxAttempts
      /\ row[k].leaseVersion \in 0 .. MaxDesired
      /\ MaxDesired \in Nat /\ MaxAttempts \in Nat
  BY OutboxAssumption DEF OInv, RowsOK, BInv, RowsBounded, StepEffect
<1>2. CASE row'[k] = row[k] \/ ClosedBy(k) \/ Aged(k) \/ row'[k] = GivenUp(row[k])
  BY <1>1, <1>2 DEF ClosedBy, Canceled, Aged, GivenUp, Unleased, RowType
<1>3. CASE AskedFor(k)
  BY <1>1, <1>3 DEF AskedFor, Rewritten, RowType
<1>4. ASSUME NEW w \in Worker, ClaimedBy(k, w)
      PROVE  /\ row'[k].desired \in 0 .. MaxDesired
             /\ row'[k].attempts \in 0 .. MaxAttempts
             /\ row'[k].leaseVersion \in 0 .. MaxDesired
  BY <1>1, <1>4 DEF ClaimedBy, Claimed, Claimable, RowType
<1>5. ASSUME NEW w \in Worker, LetGoBy(k, w)
      PROVE  /\ row'[k].desired = row[k].desired
             /\ row'[k].attempts = row[k].attempts
             /\ row'[k].leaseVersion = row[k].leaseVersion
  BY <1>1, <1>5 DEF LetGoBy, Canceled, Recorded, Acked, Delivered, Unleased, RowType
<1> QED
  BY <1>1, <1>2, <1>3, <1>4, <1>5 DEF RowStep

\* A worker carries a text of the row it claimed.
LEMMA JobsBoundedStep ==
  ASSUME OInv, BInv, StepEffect
  PROVE  JobsBounded'
<1> SUFFICES ASSUME NEW w \in Worker
             PROVE  /\ job'[w].version \in 0 .. MaxDesired
                    /\ job'[w].attempts \in 0 .. MaxAttempts
                    /\ Working(w)' => job'[w].version > 0
  BY DEF JobsBounded
<1>1. /\ job[w].version \in 0 .. MaxDesired /\ job[w].attempts \in 0 .. MaxAttempts
      /\ Working(w) => job[w].version > 0
      /\ WorkerStep(w) /\ MaxDesired \in Nat /\ MaxAttempts \in Nat
  BY OutboxAssumption DEF BInv, JobsBounded, StepEffect
<1>2. CASE pc'[w] = pc[w] /\ job'[w] = job[w]
  BY <1>1, <1>2 DEF Working
<1>3. CASE pc'[w] = "idle" /\ job'[w] = NoJob
  BY <1>1, <1>3 DEF Working, NoJob
<1>4. ASSUME NEW k \in Key, ClaimedBy(k, w), job'[w].version = row[k].desired,
             job'[w].attempts = row[k].attempts + 1
      PROVE  /\ job'[w].version \in 0 .. MaxDesired
             /\ job'[w].attempts \in 0 .. MaxAttempts
             /\ job'[w].version > 0
  <2>1. /\ row[k].desired \in 0 .. MaxDesired /\ row[k].attempts \in 0 .. MaxAttempts
        /\ row[k].delivered \in Nat
    BY DEF BInv, RowsBounded, OInv, RowsOK, RowType
  <2>2. row[k].attempts < MaxAttempts /\ row[k].delivered < row[k].desired
    BY <1>4 DEF ClaimedBy, Claimable, Open, Waiting
  <2> QED
    BY <1>1, <1>4, <2>1, <2>2
<1>5. CASE Working(w) /\ SameClaim(w)
  BY <1>1, <1>5 DEF SameClaim
<1> QED
  BY <1>1, <1>2, <1>3, <1>4, <1>5 DEF WorkerStep, Working

\* Chats take texts from workers only.
LEMMA ChatsBoundedStep ==
  ASSUME OInv, SInv, BInv, StepEffect
  PROVE  ChatsBounded'
<1> SUFFICES ASSUME NEW k \in Key, NEW m \in 1 .. Len(shown'[k])
             PROVE  /\ shown'[k][m].text \in 1 .. MaxDesired
                    /\ shown'[k][m].had \subseteq 1 .. MaxDesired
  BY DEF ChatsBounded
<1>1. CASE shown'[k] = shown[k]
  BY <1>1 DEF BInv, ChatsBounded
<1>2. ASSUME NEW w \in Worker, pc[w] = "send", Arrived(w), job[w].key = k
      PROVE  /\ shown'[k][m].text \in 1 .. MaxDesired
             /\ shown'[k][m].had \subseteq 1 .. MaxDesired
  <2> DEFINE text == job[w].version
             old == job[w].message
             n == NewMessage(w)
  <2>1. text \in 1 .. MaxDesired /\ old \in 0 .. Len(shown[k]) /\ shown[k] \in Seq(MessageType)
    BY <1>2 DEF BInv, JobsBounded, Working, SInv, ClaimsPoint, OInv, ShownOK
  <2>2. \A j \in 1 .. Len(shown[k]) : /\ shown[k][j].text \in 1 .. MaxDesired
                                      /\ shown[k][j].had \subseteq 1 .. MaxDesired
    BY DEF BInv, ChatsBounded
  <2>3. CASE old = 0
    <3> DEFINE new == [text |-> text, had |-> {text}]
    <3>1. shown'[k] = Append(shown[k], new)
      BY <1>2, <2>3 DEF Arrived, Written, OInv, ShownOK
    <3>2. new \in MessageType /\ new.text \in 1 .. MaxDesired /\ new.had \subseteq 1 .. MaxDesired
      BY <2>1 DEF MessageType
    <3>3. m \in 1 .. Len(shown[k]) + 1
          /\ shown'[k][m] = IF m = Len(shown[k]) + 1 THEN new ELSE shown[k][m]
      <4> HIDE DEF new
      <4> QED
        BY <2>1, <3>1, <3>2
    <3> QED
      <4> HIDE DEF new
      <4> QED
        BY <2>1, <2>2, <3>2, <3>3
  <2>4. CASE old # 0
    <3> DEFINE new == [text |-> text, had |-> shown[k][old].had \cup {text}]
    <3>1. shown'[k] = [shown[k] EXCEPT ![old] = new]
      BY <1>2, <2>4 DEF Arrived, Edited, OInv, ShownOK
    <3>2. old \in 1 .. Len(shown[k])
      BY <2>1, <2>4
    <3>3. new.text \in 1 .. MaxDesired /\ new.had \subseteq 1 .. MaxDesired
      BY <2>1, <2>2, <3>2
    <3>4. m \in 1 .. Len(shown[k]) /\ shown'[k][m] = IF m = old THEN new ELSE shown[k][m]
      <4> HIDE DEF new
      <4> QED
        BY <2>1, <3>1, <3>2
    <3> QED
      <4> HIDE DEF new
      <4> QED
        BY <2>2, <3>3, <3>4
  <2> QED
    BY <2>3, <2>4
<1>3. ASSUME NEW w \in Worker, pc[w] = "send", Arrived(w), job[w].key # k
      PROVE  shown'[k] = shown[k]
  BY <1>3 DEF Arrived, OInv, ShownOK
<1> QED
  BY <1>1, <1>2, <1>3 DEF StepEffect, ChatStep

\* Only the subjects of guarded events change.
LEMMA ObsoleteStep ==
  ASSUME obsolete \subseteq Guarded, [Next]_vars
  PROVE  obsolete' \subseteq Guarded
<1>1. ASSUME NEW e \in Event, ChangeSubject(e) PROVE obsolete' \subseteq Guarded
  BY <1>1 DEF ChangeSubject
<1>2. ASSUME Produce, \A e \in Event : ~ChangeSubject(e) PROVE obsolete' = obsolete
  BY <1>2 DEF Produce, Announce, UpdateReport, SubmitReport, DeactivateUser, Rebind
<1>3. ASSUME NEW w \in Worker, Claim(w) \/ Work(w) \/ Crash(w) PROVE obsolete' = obsolete
  BY <1>3 DEF Claim, SweepOnly, ClaimRow, Work, Resolve, CheckSubject, Send, SendSucceeds,
              AnswerLost, SendFails, Acknowledge, CancelLease, RecordFailure,
              DeactivateRecipient, Crash
<1>4. CASE Tick \/ UNCHANGED vars
  BY <1>4 DEF Tick, BecomeDue, ExpireLease, vars
<1> QED
  BY <1>1, <1>2, <1>3, <1>4 DEF Next

\* Every count starts at zero, every binding at its first version.
LEMMA BInit == Init => BInv
<1> SUFFICES ASSUME Init PROVE BInv
  OBVIOUS
<1>1. {MaxVersion, MaxDesired, MaxAttempts} \subseteq Nat
  BY OutboxAssumption
<1>2. BindingsBounded
  BY <1>1 DEF Init, BindingsBounded
<1>3. \A k \in Key : row[k] = NoRow /\ shown[k] = <<>>
  BY DEF Init
<1>4. RowsBounded
  BY <1>1, <1>3 DEF RowsBounded, NoRow
<1>5. ChatsBounded
  BY <1>3 DEF ChatsBounded
<1>6. JobsBounded
  BY <1>1 DEF Init, JobsBounded, NoJob, Working
<1> QED
  BY <1>2, <1>4, <1>5, <1>6 DEF BInv, Init

\* Every step stays within the bounds.
LEMMA BStep == OInv /\ SInv /\ BInv /\ [Next]_vars => BInv'
<1> SUFFICES ASSUME OInv, SInv, BInv, [Next]_vars PROVE BInv'
  OBVIOUS
<1>1. StepEffect
  BY Effects DEF SInv
<1>2. obsolete' \subseteq Guarded
  BY ObsoleteStep DEF BInv
<1> QED
  BY <1>1, <1>2, BindingsBoundedStep, RowsBoundedStep, JobsBoundedStep, ChatsBoundedStep
  DEF BInv

\* The bounded types follow from the loose ones and the bounds.
LEMMA TypesFromBounds == OInv /\ SInv /\ BInv => TypeOK
<1> SUFFICES ASSUME OInv, SInv, BInv PROVE TypeOK
  OBVIOUS
<1>1. binding \in [Recipient -> [version: 1 .. MaxVersion + 1, linked: BOOLEAN]]
  <2>1. ASSUME NEW u \in Recipient
        PROVE  binding[u] \in [version: 1 .. MaxVersion + 1, linked: BOOLEAN]
    BY DEF OInv, BindingsOK, BindingType, BInv, BindingsBounded
  <2> QED
    BY <2>1 DEF OInv, BindingsOK
<1>2. row \in [Key -> [desired: 0 .. MaxDesired, delivered: 0 .. MaxDesired,
                        message: Nat, attempts: 0 .. MaxAttempts,
                        canceled: BOOLEAN, failed: BOOLEAN, due: BOOLEAN,
                        lease: Worker \cup {None}, leaseVersion: 0 .. MaxDesired,
                        expired: BOOLEAN]]
  <2>1. ASSUME NEW k \in Key
        PROVE  row[k] \in [desired: 0 .. MaxDesired, delivered: 0 .. MaxDesired,
                           message: Nat, attempts: 0 .. MaxAttempts,
                           canceled: BOOLEAN, failed: BOOLEAN, due: BOOLEAN,
                           lease: Worker \cup {None}, leaseVersion: 0 .. MaxDesired,
                           expired: BOOLEAN]
    <3>1. row[k] \in RowType /\ row[k].delivered <= row[k].desired
      BY DEF OInv, RowsOK, RowOK
    <3>2. /\ row[k].desired \in 0 .. MaxDesired /\ row[k].attempts \in 0 .. MaxAttempts
          /\ row[k].leaseVersion \in 0 .. MaxDesired /\ MaxDesired \in Nat
      BY OutboxAssumption DEF BInv, RowsBounded
    <3>3. row[k].delivered \in 0 .. MaxDesired
      BY <3>1, <3>2 DEF RowType
    <3> QED
      BY <3>1, <3>2, <3>3 DEF RowType
  <2> QED
    BY <2>1 DEF OInv, RowsOK
<1>3. shown \in [Key -> Seq([text: 1 .. MaxDesired, had: SUBSET (1 .. MaxDesired)])]
  <2> DEFINE M == [text: 1 .. MaxDesired, had: SUBSET (1 .. MaxDesired)]
  <2>1. ASSUME NEW k \in Key PROVE shown[k] \in Seq(M)
    <3>1. shown[k] \in Seq(MessageType)
      BY DEF OInv, ShownOK
    <3>2. \A m \in 1 .. Len(shown[k]) : shown[k][m] \in M
      <4> TAKE m \in 1 .. Len(shown[k])
      <4>1. shown[k][m] \in MessageType
        BY <3>1
      <4>2. shown[k][m].text \in 1 .. MaxDesired /\ shown[k][m].had \in SUBSET (1 .. MaxDesired)
        BY DEF BInv, ChatsBounded
      <4> QED
        BY <4>1, <4>2 DEF MessageType
    <3> QED
      <4> HIDE DEF M
      <4> QED
        BY <3>1, <3>2
  <2> QED
    BY <2>1 DEF OInv, ShownOK
<1>4. job \in [Worker -> [key: Key \cup {None}, version: 0 .. MaxDesired, message: Nat,
                           attempts: 0 .. MaxAttempts, outcome: Outcome]]
  <2>1. ASSUME NEW w \in Worker
        PROVE  job[w] \in [key: Key \cup {None}, version: 0 .. MaxDesired, message: Nat,
                           attempts: 0 .. MaxAttempts, outcome: Outcome]
    BY DEF OInv, WorkersOK, JobType, BInv, JobsBounded
  <2> QED
    BY <2>1 DEF OInv, WorkersOK
<1>5. obsolete \subseteq Guarded /\ ReportOK /\ pc \in [Worker -> Label]
  BY DEF BInv, SInv, OInv, WorkersOK
<1> QED
  BY <1>1, <1>2, <1>3, <1>4, <1>5 DEF TypeOK, ReportOK, Label

\* Every variable keeps its type and its bounds: attempts stay within
\* MAX_ATTEMPTS, a worker only sends a text that was asked for, and the chats
\* hold nothing else.
THEOREM OutboxTypeCorrect == Spec => []TypeOK
<1> QED
  BY OInvariance, SInvariance, BInit, BStep, TypesFromBounds, PTL DEF Spec

===============================================================================
