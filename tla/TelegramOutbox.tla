---------------------------- MODULE TelegramOutbox ----------------------------
(***************************************************************************)
(* The outbox of Telegram messages (telegram.service.ts) and the report    *)
(* that it reports back to (reports.service.ts).  Producers store, in      *)
(* their own transaction, what a message should say; the workers of every  *)
(* replica claim rows under a lease, call the Telegram API outside any     *)
(* transaction and write down what happened.  A binding change closes the  *)
(* jobs of the previous binding.                                           *)
(*                                                                         *)
(* A row is identified, as eventKey does, by its event and the version of  *)
(* the binding it was written under.  Its text is abstracted to desired,   *)
(* the number of different texts asked so far, and shown[k] is the list of *)
(* the messages Telegram holds for row k, each with the text it shows and  *)
(* the texts it has had: message identifiers are positions in shown[k].    *)
(*                                                                         *)
(* The worker that holds the lease stands for leaseToken: a worker has one *)
(* claim at a time.  The code clears leaseVersion with leaseToken; here it *)
(* stays, and is read in one property only.  sentAt is null exactly while  *)
(* delivered < desired and is not kept.                                    *)
(***************************************************************************)
EXTENDS Integers, Sequences

CONSTANTS
    Event,         \* what may be announced: type, entity and occurrence
    Part,          \* the events that are parts of one lesson report
    Guarded,       \* events a worker checks again: a reminder, a material
    Recipient,     \* users (private chats) and students (groups)
    RecipientOf,   \* the recipient of each event
    Worker,        \* the queue workers, one per replica
    MaxAttempts,   \* MAX_ATTEMPTS
    MaxDesired,    \* texts one event is given
    MaxVersion,    \* binding versions under which a chat is linked
    Timely,        \* a lease outlives the delivery it covers unless the worker dies
    None

ASSUME OutboxAssumption ==
    /\ Part \subseteq Event
    /\ Guarded \subseteq Event \ Part
    /\ RecipientOf \in [Event -> Recipient]
    /\ \A p, q \in Part : RecipientOf[p] = RecipientOf[q]
    /\ {MaxAttempts, MaxDesired, MaxVersion} \subseteq Nat \ {0}
    /\ Timely \in BOOLEAN
    /\ None \notin Worker

VARIABLES
    binding,    \* chat link of each recipient: [version, linked]
    row,        \* telegram_notifications
    shown,      \* the messages in the chats
    obsolete,   \* guarded events whose lesson moved or whose material is gone
    report,     \* the report: [status, sentToTelegram]
    pc,         \* what each worker does next
    job         \* the worker's copy of the row it claimed

vars == <<binding, row, shown, obsolete, report, pc, job>>

Key == Event \X (1 .. MaxVersion)
EventOf(k) == k[1]
VersionOf(k) == k[2]

NoRow == [desired |-> 0, delivered |-> 0, message |-> 0, attempts |-> 0,
          canceled |-> FALSE, failed |-> FALSE, due |-> TRUE,
          lease |-> None, leaseVersion |-> 0, expired |-> FALSE]

NoJob == [key |-> None, version |-> 0, message |-> 0, attempts |-> 0, outcome |-> "none"]

Outcome == {"none", "shown", "transient", "permanent", "blocked"}

Waiting(r) == r.delivered < r.desired
Open(r) == Waiting(r) /\ ~r.canceled /\ ~r.failed

\* telegram_notifications of one recipient under its present binding.
Bound(u, k) == RecipientOf[EventOf(k)] = u
Current(k) ==
    LET b == binding[RecipientOf[EventOf(k)]]
    IN  b.linked /\ b.version = VersionOf(k)

\* The binding the row was written under has ended.
Over(k) ==
    LET b == binding[RecipientOf[EventOf(k)]]
    IN  VersionOf(k) < b.version \/ (VersionOf(k) = b.version /\ ~b.linked)

\* What is left of the outbox without its rows, leases and workers.
Notices == INSTANCE TelegramNotices
           WITH Notice <- Key,
                asked <- [k \in Key |-> row[k].desired],
                chat <- [k \in Key |-> [m \in 1 .. Len(shown[k]) |-> shown[k][m].text]],
                told <- [k \in Key |-> row[k].delivered],
                closed <- {k \in Key : Over(k)}

Init ==
    /\ binding = [u \in Recipient |-> [version |-> 1, linked |-> TRUE]]
    /\ row = [k \in Key |-> NoRow]
    /\ shown = [k \in Key |-> <<>>]
    /\ obsolete = {}
    /\ report = [status |-> "DRAFT", sentToTelegram |-> FALSE]
    /\ pc = [w \in Worker |-> "idle"]
    /\ job = [w \in Worker |-> NoJob]

-------------------------------------------------------------------------------
\* Producers.

\* INSERT ... ON CONFLICT DO UPDATE with a text that differs from the stored
\* one: the lease and the attempt in progress are left alone.
Rewritten(r) ==
    [r EXCEPT !.desired = @ + 1, !.attempts = 0, !.canceled = FALSE,
              !.failed = FALSE, !.due = TRUE]

\* The events of es get a new text, in the transaction that holds the
\* recipient's row: nothing happens while no chat is linked.
Enqueue(es) ==
    LET asked == {k \in Key : EventOf(k) \in es /\ Current(k)}
    IN  /\ \A k \in asked : row[k].desired < MaxDesired
        /\ row' = [k \in Key |-> IF k \in asked THEN Rewritten(row[k]) ELSE row[k]]

\* Every notification but the report's.  The text of a stored event may be
\* the same: then nothing changes, whatever became of the row.
Announce(e) ==
    /\ e \in Event \ (Part \cup obsolete)
    /\ Enqueue({e})
    /\ UNCHANGED <<binding, shown, obsolete, report, pc, job>>

\* PATCH of the report: it is a draft again and nothing is queued.
UpdateReport ==
    /\ report' = [status |-> "DRAFT", sentToTelegram |-> FALSE]
    /\ UNCHANGED <<binding, row, shown, obsolete, pc, job>>

\* Submission queues the parts; those whose text is the same are unchanged.
\* A report has at least one part, and its first row is new under a binding.
SubmitReport(changed) ==
    /\ report.status = "DRAFT"
    /\ changed = {} => \E k \in Key : EventOf(k) \in Part /\ Current(k) /\ row[k].desired > 0
    /\ report' = [status |-> "SUBMITTED", sentToTelegram |-> FALSE]
    /\ Enqueue(changed)
    /\ UNCHANGED <<binding, shown, obsolete, pc, job>>

\* The lesson of a reminder is moved, canceled or moved back, a material removed.
ChangeSubject(e) ==
    /\ e \in Guarded
    /\ obsolete' = IF e \in obsolete THEN obsolete \ {e} ELSE obsolete \cup {e}
    /\ UNCHANGED <<binding, row, shown, report, pc, job>>

-------------------------------------------------------------------------------
\* Bindings.  Each change holds the user's row, as a producer does.

Canceled(r) == [r EXCEPT !.canceled = TRUE, !.lease = None, !.expired = FALSE]

\* Faulty variant of CancelOpen: a row a worker is delivering is left to it.
CancelOpenUnleased(u) ==
    row' = [k \in Key |-> IF Bound(u, k) /\ Open(row[k]) /\ row[k].lease = None
                          THEN Canceled(row[k]) ELSE row[k]]

\* cancelRecipient
CancelOpen(u) ==
    row' = [k \in Key |-> IF Bound(u, k) /\ Open(row[k]) THEN Canceled(row[k]) ELSE row[k]]

NextBinding(u, linked) ==
    binding' = [binding EXCEPT ![u] = [version |-> @.version + 1, linked |-> linked]]

\* A one-time link is used, or a group becomes a supergroup (linked), or the
\* chat is unlinked, or the bot is removed from it (not linked).
Rebind(u, linked) ==
    /\ binding[u].version < MaxVersion
    /\ NextBinding(u, linked)
    /\ CancelOpen(u)
    /\ UNCHANGED <<shown, obsolete, report, pc, job>>

\* Deactivating a user cancels the delivered and the failed rows as well.
DeactivateUser(u) ==
    /\ binding[u].version < MaxVersion
    /\ NextBinding(u, FALSE)
    /\ row' = [k \in Key |-> IF Bound(u, k) /\ row[k].desired > 0 /\ ~row[k].canceled
                             THEN Canceled(row[k]) ELSE row[k]]
    /\ UNCHANGED <<shown, obsolete, report, pc, job>>

-------------------------------------------------------------------------------
\* A worker.

Finish(w) ==
    /\ pc' = [pc EXCEPT ![w] = "idle"]
    /\ job' = [job EXCEPT ![w] = NoJob]

Goto(w, label) == pc' = [pc EXCEPT ![w] = label]

Unleased(r) == [r EXCEPT !.lease = None, !.expired = FALSE]

\* The last attempt of a row ended with its worker.
Abandoned(r) ==
    /\ ~r.canceled /\ ~r.failed
    /\ r.attempts >= MaxAttempts
    /\ r.lease # None /\ r.expired

\* Faulty variant of Swept: rows whose last worker died are left as they are.
SweptNever == row

Swept == [k \in Key |-> IF Abandoned(row[k])
                        THEN [Unleased(row[k]) EXCEPT !.failed = TRUE]
                        ELSE row[k]]

\* Faulty variant of Claimable: a row that is leased is taken all the same.
ClaimableThoughLeased(r) == Open(r) /\ r.due /\ r.attempts < MaxAttempts

\* The rows claimOutboxBatch selects.
Claimable(r) ==
    /\ Open(r)
    /\ r.due
    /\ r.attempts < MaxAttempts
    /\ r.lease = None \/ r.expired

\* claimOutboxBatch(1): the worker takes one of the rows that are due.
ClaimRow(w, k) ==
    /\ pc[w] = "idle"
    /\ Claimable(row[k])
    /\ row' = [Swept EXCEPT ![k].lease = w, ![k].leaseVersion = row[k].desired,
                           ![k].expired = FALSE, ![k].attempts = @ + 1]
    /\ job' = [job EXCEPT ![w] = [key |-> k, version |-> row[k].desired,
                                  message |-> row[k].message,
                                  attempts |-> row[k].attempts + 1, outcome |-> "none"]]
    /\ Goto(w, "resolve")
    /\ UNCHANGED <<binding, shown, obsolete, report>>

\* claimOutboxBatch(1) when no row is due.
SweepOnly(w) ==
    /\ pc[w] = "idle"
    /\ \A k \in Key : ~Claimable(row[k])
    /\ row' = Swept
    /\ UNCHANGED <<binding, shown, obsolete, report, pc, job>>

\* resolveBinding, outside any transaction.
Resolve(w) ==
    /\ pc[w] = "resolve"
    /\ Goto(w, IF ~Current(job[w].key) THEN "cancel"
               ELSE IF EventOf(job[w].key) \in Guarded THEN "check" ELSE "send")
    /\ UNCHANGED <<binding, row, shown, obsolete, report, job>>

\* The reminder's lesson, or the material, is read again.
CheckSubject(w) ==
    /\ pc[w] = "check"
    /\ Goto(w, IF EventOf(job[w].key) \in obsolete THEN "cancel" ELSE "send")
    /\ UNCHANGED <<binding, row, shown, obsolete, report, job>>

Written(messages, text) == Append(messages, [text |-> text, had |-> {text}])
Edited(messages, m, text) ==
    [messages EXCEPT ![m] = [text |-> text, had |-> messages[m].had \cup {text}]]

\* What the chat shows once the worker's text arrives: an edit of the message
\* it knows, or a new message.
Arrived(w) ==
    LET k == job[w].key
        m == job[w].message
        text == job[w].version
    IN  shown' = [shown EXCEPT ![k] = IF m = 0 THEN Written(shown[k], text)
                                      ELSE Edited(shown[k], m, text)]

\* Telegram accepts the text and the answer reaches the worker.
SendSucceeds(w) ==
    /\ pc[w] = "send"
    /\ Arrived(w)
    /\ job' = [job EXCEPT ![w].outcome = "shown",
                          ![w].message = IF @ = 0 THEN Len(shown[job[w].key]) + 1 ELSE @]
    /\ Goto(w, "ack")
    /\ UNCHANGED <<binding, row, obsolete, report>>

\* Telegram accepts the text but the answer, or the acknowledgement, is lost.
AnswerLost(w) ==
    /\ pc[w] = "send"
    /\ Arrived(w)
    /\ job' = [job EXCEPT ![w].outcome = "transient"]
    /\ Goto(w, "record")
    /\ UNCHANGED <<binding, row, obsolete, report>>

\* Telegram does not take the text: 429, 5xx or no network (transient), a
\* 4xx (permanent), 403 (blocked: the bot may not write to the chat).
SendFails(w, outcome) ==
    /\ pc[w] = "send"
    /\ job' = [job EXCEPT ![w].outcome = outcome]
    /\ Goto(w, "record")
    /\ UNCHANGED <<binding, row, shown, obsolete, report>>

HoldsLease(w) == row[job[w].key].lease = w

\* No uncanceled part of the report, under this binding, waits to be sent.
NoPartWaits(rows, k) ==
    \A p \in Part : LET r == rows[<<p, VersionOf(k)>>]
                    IN  r.canceled \/ ~Waiting(r)

\* Faulty variant of Acknowledge: the text desired now counts as delivered,
\* whichever text the worker sent.
AcknowledgeCountsAnyVersion(w) ==
    /\ pc[w] = "ack"
    /\ LET k == job[w].key
           acked == [Unleased(row[k]) EXCEPT !.message = job[w].message,
                                             !.delivered = row[k].desired,
                                             !.failed = FALSE]
       IN  IF HoldsLease(w) /\ ~row[k].canceled
           THEN /\ row' = [row EXCEPT ![k] = acked]
                /\ IF EventOf(k) \in Part
                   THEN report' = [report EXCEPT !.sentToTelegram = NoPartWaits(row', k)]
                   ELSE UNCHANGED report
           ELSE UNCHANGED <<row, report>>
    /\ Finish(w)
    /\ UNCHANGED <<binding, shown, obsolete>>

\* Faulty variant of Acknowledge: the first part marks the report as sent.
AcknowledgeMarksReportSent(w) ==
    /\ pc[w] = "ack"
    /\ LET k == job[w].key
           latest == job[w].version = row[k].desired
           acked == [Unleased(row[k]) EXCEPT !.message = job[w].message]
       IN  IF HoldsLease(w) /\ ~row[k].canceled
           THEN /\ row' = [row EXCEPT ![k] = IF latest
                              THEN [acked EXCEPT !.delivered = job[w].version, !.failed = FALSE]
                              ELSE acked]
                /\ IF latest /\ EventOf(k) \in Part
                   THEN report' = [report EXCEPT !.sentToTelegram = TRUE]
                   ELSE UNCHANGED report
           ELSE UNCHANGED <<row, report>>
    /\ Finish(w)
    /\ UNCHANGED <<binding, shown, obsolete>>

\* acknowledgeDelivery
Acknowledge(w) ==
    /\ pc[w] = "ack"
    /\ LET k == job[w].key
           latest == job[w].version = row[k].desired
           acked == [Unleased(row[k]) EXCEPT !.message = job[w].message]
       IN  IF HoldsLease(w) /\ ~row[k].canceled
           THEN /\ row' = [row EXCEPT ![k] = IF latest
                              THEN [acked EXCEPT !.delivered = job[w].version, !.failed = FALSE]
                              ELSE acked]
                /\ IF latest /\ EventOf(k) \in Part
                   THEN report' = [report EXCEPT !.sentToTelegram = NoPartWaits(row', k)]
                   ELSE UNCHANGED report
           ELSE UNCHANGED <<row, report>>
    /\ Finish(w)
    /\ UNCHANGED <<binding, shown, obsolete>>

\* cancelLease
CancelLease(w) ==
    /\ pc[w] = "cancel"
    /\ row' = IF HoldsLease(w) THEN [row EXCEPT ![job[w].key] = Canceled(@)] ELSE row
    /\ Finish(w)
    /\ UNCHANGED <<binding, shown, obsolete, report>>

\* recordDeliveryFailure: terminal or to be retried later; what the row has
\* come to desire meanwhile is not looked at.
RecordFailure(w) ==
    /\ pc[w] = "record"
    /\ LET k == job[w].key
           recorded == HoldsLease(w) /\ ~row[k].canceled
           terminal == job[w].outcome # "transient" \/ job[w].attempts >= MaxAttempts
       IN  /\ row' = IF recorded
                     THEN [row EXCEPT ![k] = [Unleased(@) EXCEPT !.failed = terminal,
                                                                 !.due = FALSE]]
                     ELSE row
           /\ IF recorded /\ job[w].outcome = "blocked"
              THEN Goto(w, "deactivate") /\ UNCHANGED job
              ELSE Finish(w)
    /\ UNCHANGED <<binding, shown, obsolete, report>>

\* deactivateRecipient, of the binding the row was written under only.
DeactivateRecipient(w) ==
    /\ pc[w] = "deactivate"
    /\ LET u == RecipientOf[EventOf(job[w].key)]
       IN  IF Current(job[w].key)
           THEN NextBinding(u, FALSE) /\ CancelOpen(u)
           ELSE UNCHANGED <<binding, row>>
    /\ Finish(w)
    /\ UNCHANGED <<shown, obsolete, report>>

\* The process dies, or a statement of its own fails: the lease stays.
Crash(w) ==
    /\ pc[w] # "idle"
    /\ Finish(w)
    /\ UNCHANGED <<binding, row, shown, obsolete, report>>

-------------------------------------------------------------------------------
\* Time.

\* nextAttemptAt is reached.
BecomeDue(k) ==
    /\ Open(row[k]) /\ ~row[k].due
    /\ row' = [row EXCEPT ![k].due = TRUE]
    /\ UNCHANGED <<binding, shown, obsolete, report, pc, job>>

\* leaseExpiresAt is reached: of a worker that died, or, unless Timely, of
\* one that still works.
ExpireLease(k) ==
    /\ row[k].lease # None /\ ~row[k].expired
    /\ Timely => job[row[k].lease].key # k
    /\ row' = [row EXCEPT ![k].expired = TRUE]
    /\ UNCHANGED <<binding, shown, obsolete, report, pc, job>>

-------------------------------------------------------------------------------
Produce ==
    \/ \E e \in Event : Announce(e) \/ ChangeSubject(e)
    \/ UpdateReport
    \/ \E changed \in SUBSET Part : SubmitReport(changed)
    \/ \E u \in Recipient : DeactivateUser(u) \/ \E linked \in BOOLEAN : Rebind(u, linked)

Send(w) ==
    \/ SendSucceeds(w)
    \/ AnswerLost(w)
    \/ \E outcome \in {"transient", "permanent", "blocked"} : SendFails(w, outcome)

Claim(w) == SweepOnly(w) \/ \E k \in Key : ClaimRow(w, k)

\* What a live worker does between two claims.
Work(w) ==
    \/ Resolve(w) \/ CheckSubject(w) \/ Send(w) \/ Acknowledge(w)
    \/ CancelLease(w) \/ RecordFailure(w) \/ DeactivateRecipient(w)

Tick == \E k \in Key : BecomeDue(k) \/ ExpireLease(k)

Next ==
    \/ Produce
    \/ \E w \in Worker : Claim(w) \/ Work(w) \/ Crash(w)
    \/ Tick

Spec == Init /\ [][Next]_vars

\* flush runs every five seconds on every replica, what a claim started ends,
\* with an answer, an error or the API timeout, and time passes.
FairSpec ==
    /\ Spec
    /\ \A w \in Worker : WF_vars(Claim(w)) /\ WF_vars(Work(w))
    /\ \A k \in Key : WF_vars(BecomeDue(k)) /\ WF_vars(ExpireLease(k))
-------------------------------------------------------------------------------
\* Properties.

\* Every variable keeps its type.
TypeOK ==
    /\ binding \in [Recipient -> [version: 1 .. MaxVersion + 1, linked: BOOLEAN]]
    /\ row \in [Key -> [desired: 0 .. MaxDesired, delivered: 0 .. MaxDesired,
                        message: Nat, attempts: 0 .. MaxAttempts,
                        canceled: BOOLEAN, failed: BOOLEAN, due: BOOLEAN,
                        lease: Worker \cup {None}, leaseVersion: 0 .. MaxDesired,
                        expired: BOOLEAN]]
    /\ shown \in [Key -> Seq([text: 1 .. MaxDesired, had: SUBSET (1 .. MaxDesired)])]
    /\ obsolete \subseteq Guarded
    /\ report \in [status: {"DRAFT", "SUBMITTED"}, sentToTelegram: BOOLEAN]
    /\ pc \in [Worker -> {"idle", "resolve", "check", "send", "ack", "record",
                          "cancel", "deactivate"}]
    /\ job \in [Worker -> [key: Key \cup {None}, version: 0 .. MaxDesired, message: Nat,
                           attempts: 0 .. MaxAttempts, outcome: Outcome]]

\* When a row counts as delivered, the message it points to shows the last
\* text that was asked for: no edit made while an older text was on its way
\* is lost, and no older text comes back over it.
ShowsLatest ==
    \A k \in Key : row[k].desired > 0 /\ ~Waiting(row[k]) =>
        /\ row[k].message \in 1 .. Len(shown[k])
        /\ shown[k][row[k].message].text = row[k].desired

\* The same, however slow a worker is: the text asked for last was at least
\* put into that message once.
WasShown ==
    \A k \in Key : row[k].desired > 0 /\ ~Waiting(row[k]) =>
        /\ row[k].message \in 1 .. Len(shown[k])
        /\ row[k].desired \in shown[k][row[k].message].had

\* No job outlives the binding it was written under: whatever a worker was
\* doing, a row of an earlier binding is never left to be claimed.
OldBindingsClosed == \A k \in Key : Open(row[k]) => Current(k)

\* A report is marked as sent only when every part of it that the group now
\* linked should have shows its latest text.
SentMeansAllParts ==
    report.sentToTelegram =>
        \A k \in Key : EventOf(k) \in Part /\ Current(k) /\ ~row[k].canceled
                           => ~Waiting(row[k])

\* The outbox keeps what TelegramNotices promises: whatever workers, edits,
\* crashes, lost answers and changes of bindings come together, no chat goes
\* back to an older text, and what is recorded as delivered (deliveredVersion) is
\* what the linked chat shows at that moment (acknowledgeDelivery).
ImplementsNotices == Notices!Spec

\* A row that gave up was tried with the text it was last asked for.
FailedTextWasTried == \A k \in Key : row[k].failed => row[k].leaseVersion = row[k].desired

\* Every message asked for is in the end delivered, canceled or given up:
\* crashes, expired leases and lost answers do not leave a row waiting.
RowsSettle == \A k \in Key : Open(row[k]) ~> ~Open(row[k])

===============================================================================
