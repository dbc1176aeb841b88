------------------------------ MODULE LessonBook ------------------------------
(***************************************************************************)
(* What the lesson and payment services promise together: every request   *)
(* that succeeds takes effect at one instant, as if no other request ran.  *)
(* LessonLedger, where a request is a transaction of several statements    *)
(* over row locks, is shown to implement this.                             *)
(***************************************************************************)
EXTENDS LessonData

VARIABLES lesson, tariff, balance, paid, ledger

bookVars == <<lesson, tariff, balance, paid, ledger>>

Init ==
    /\ \E price \in [Lesson -> Price \cup {None}] :
         lesson = [l \in Lesson |->
                     IF Booked[l] = None THEN NoLesson("NONE")
                     ELSE Scheduled(Booked[l], price[l])]
    /\ tariff \in [Enrollment -> Price]
    /\ balance = [s \in Student |-> 0]
    /\ paid = [s \in Student |-> 0]
    /\ ledger = [s \in Student |-> <<>>]

\* The lesson is charged at a price the business allows; LessonLedger says which.
Complete(l, price) ==
    /\ lesson[l].status = "SCHEDULED"
    /\ lesson' = [lesson EXCEPT ![l].status = "COMPLETED", ![l].price = price]
    /\ LET s == StudentOf[lesson[l].enrollment]
       IN  IF price = 0
           THEN UNCHANGED <<balance, ledger>>
           ELSE /\ Fits(balance[s] - price)
                /\ balance' = [balance EXCEPT ![s] = @ - price]
                /\ ledger' = [ledger EXCEPT ![s] = Append(@, Charge(l, price, balance[s]))]
    /\ UNCHANGED <<tariff, paid>>

Cancel(l) ==
    /\ lesson[l].status = "SCHEDULED"
    /\ lesson' = [lesson EXCEPT ![l].status = "CANCELED"]
    /\ UNCHANGED <<tariff, balance, paid, ledger>>

Reprice(l, price) ==
    /\ lesson[l].status = "SCHEDULED"
    /\ lesson' = [lesson EXCEPT ![l].price = price]
    /\ UNCHANGED <<tariff, balance, paid, ledger>>

\* The replacement carries the enrollment and the individual price over.
Reschedule(l, n) ==
    /\ lesson[l].status = "SCHEDULED"
    /\ lesson[n].status = "NONE"
    /\ lesson' = [lesson EXCEPT ![n] = Scheduled(lesson[l].enrollment, lesson[l].price),
                                ![l].status = "RESCHEDULED", ![l].rescheduledTo = n]
    /\ UNCHANGED <<tariff, balance, paid, ledger>>

Remove(l) ==
    /\ lesson[l].status \in {"SCHEDULED", "CANCELED", "RESCHEDULED"}
    /\ lesson' = [m \in Lesson |->
                    IF m = l THEN NoLesson("DELETED")
                    ELSE IF lesson[m].rescheduledTo = l
                    THEN [lesson[m] EXCEPT !.rescheduledTo = None]
                    ELSE lesson[m]]
    /\ UNCHANGED <<tariff, balance, paid, ledger>>

TopUp(s, amount) ==
    /\ Fits(balance[s] + amount)
    /\ balance' = [balance EXCEPT ![s] = @ + amount]
    /\ paid' = [paid EXCEPT ![s] = @ + amount]
    /\ ledger' = [ledger EXCEPT ![s] = Append(@, TopUpEntry(amount, balance[s]))]
    /\ UNCHANGED <<lesson, tariff>>

SetTariff(e, price) ==
    /\ tariff' = [tariff EXCEPT ![e] = price]
    /\ UNCHANGED <<lesson, balance, paid, ledger>>

Next ==
    \/ \E l \in Lesson :
         \/ \E price \in Price : Complete(l, price) \/ Reprice(l, price)
         \/ Cancel(l)
         \/ Remove(l)
         \/ \E n \in Lesson : Reschedule(l, n)
    \/ \E s \in Student, amount \in Amount : TopUp(s, amount)
    \/ \E e \in Enrollment, price \in Price : SetTariff(e, price)

Spec == Init /\ [][Next]_bookVars
===============================================================================
