---------------------------- MODULE TelegramNotices ----------------------------
(***************************************************************************)
(* What the outbox promises to those who announce something, without rows, *)
(* workers, leases or attempts.  A notice is one event under one binding   *)
(* of its recipient.  Its texts are numbered as they are asked for, and a  *)
(* chat is the sequence of its messages, each the text it shows.  A chat   *)
(* never goes back: no text arrives after a newer one.  A notice is        *)
(* reported as delivered only while its chat is linked and shows the text  *)
(* asked for last.  TelegramOutbox is shown to implement this as long as   *)
(* leases outlive the deliveries they cover.                               *)
(***************************************************************************)
EXTENDS Integers, Sequences

CONSTANT Notice

VARIABLES
    asked,     \* the number of texts asked for, per notice
    chat,      \* the messages of each notice
    told,      \* the text each notice was reported as delivered with, 0 at first
    closed     \* the notices whose binding has ended

noticeVars == <<asked, chat, told, closed>>

Init ==
    /\ asked = [n \in Notice |-> 0]
    /\ chat = [n \in Notice |-> <<>>]
    /\ told = [n \in Notice |-> 0]
    /\ closed = {}

\* Notices of present bindings get a new text, several in one transaction.
Ask(ns) ==
    /\ ns \cap closed = {}
    /\ asked' = [n \in Notice |-> IF n \in ns THEN asked[n] + 1 ELSE asked[n]]
    /\ UNCHANGED <<chat, told, closed>>

\* A text arrives, which may be on its way since before the binding ended: as a
\* message of its own or in place of an earlier text.
Show(n, text) ==
    /\ text \in 1 .. asked[n]
    /\ \A m \in 1 .. Len(chat[n]) : chat[n][m] <= text
    /\ \/ chat' = [chat EXCEPT ![n] = Append(@, text)]
       \/ \E m \in 1 .. Len(chat[n]) : chat' = [chat EXCEPT ![n][m] = text]
    /\ UNCHANGED <<asked, told, closed>>

Report(n) ==
    /\ n \notin closed
    /\ \E m \in 1 .. Len(chat[n]) : chat[n][m] = asked[n]
    /\ told' = [told EXCEPT ![n] = asked[n]]
    /\ UNCHANGED <<asked, chat, closed>>

\* A binding ends, and the notices written under it end for ever.
Close(ns) ==
    /\ closed' = closed \cup ns
    /\ UNCHANGED <<asked, chat, told>>

Next ==
    \/ \E ns \in SUBSET Notice : Ask(ns) \/ Close(ns)
    \/ \E n \in Notice : Report(n) \/ \E text \in 1 .. asked[n] : Show(n, text)

Spec == Init /\ [][Next]_noticeVars
===============================================================================
