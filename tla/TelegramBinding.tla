---------------------------- MODULE TelegramBinding ----------------------------
(***************************************************************************)
(* Which chat a user or a student's group has with the bot                 *)
(* (telegram.service.ts), and the inbox through which Telegram's updates   *)
(* change it.  Updates are stored as they arrive and the workers of every  *)
(* replica claim them under a lease, run the bot's handler and record the  *)
(* outcome; handlers fail, workers die, and an update may be handled twice *)
(* or by two workers at once.                                              *)
(*                                                                         *)
(* An owner is what a chat is bound to: users.telegramChatId of a user or  *)
(* the telegram_groups row of a student.  Every transaction that changes   *)
(* an owner holds the row lock of its user from its first read of it, so   *)
(* it is one step; what a handler reads before that lock is a step of its  *)
(* own.  Group rows are created at version 1: version 0 is no row.         *)
(* isActive of a group is chat # None.  The jobs a binding change cancels  *)
(* are in TelegramOutbox.                                                  *)
(*                                                                         *)
(* by, fresh and watch are history and no guard reads them: the link that  *)
(* made a binding, the links whose owner was not rebound since they were   *)
(* issued, and the owners that had the chat of an update when it arrived   *)
(* and were not rebound since, until the update is given up.               *)
(***************************************************************************)
EXTENDS Integers

CONSTANTS
    User,
    Owner,
    UserOf,         \* the user of each owner
    Group,          \* the owners that are groups
    Chat,
    GroupChat,      \* the chats that are groups
    Link,           \* link tokens that may be issued
    Update,         \* identifiers of Telegram updates
    Content,        \* what updates may say
    Backlog,        \* updates that have one attempt left at first
    Worker,
    MaxAttempts,    \* MAX_ATTEMPTS
    BoundTo,        \* the chat each owner has at first, or None
    MaxVersion,     \* bound on the binding version of each owner
    None

\* /start with a link, the bot's removal from a chat, a group that becomes a
\* supergroup.
Payload ==
    [kind : {"start"}, link : Link, chat : Chat, to : {None}]
    \cup [kind : {"left"}, link : {None}, chat : Chat, to : {None}]
    \cup [kind : {"migrate"}, link : {None}, chat : GroupChat, to : GroupChat]

ASSUME BindingAssumption ==
    /\ UserOf \in [Owner -> User]
    /\ Group \subseteq Owner
    /\ GroupChat \subseteq Chat
    /\ MaxAttempts \in Nat \ {0}
    /\ MaxVersion \in [Owner -> Nat \ {0}]
    /\ BoundTo \in [Owner -> Chat \cup {None}]
    /\ \A o \in Owner : BoundTo[o] # None => (o \in Group <=> BoundTo[o] \in GroupChat)
    /\ \A o, p \in Group : BoundTo[o] = BoundTo[p] => o = p \/ BoundTo[o] = None
    /\ Content \subseteq Payload /\ \A asked \in Content : asked.to # asked.chat
    /\ Backlog \subseteq Update
    /\ None \notin Chat \cup Link \cup Update \cup Worker

VARIABLES
    access,     \* users: "active", with a role; "inactive"; "deleted"
    binding,    \* owners: [chat, version, by]
    link,       \* telegram_link_tokens
    inbox,      \* telegram_update_inbox
    pc,         \* what each worker does next
    job,        \* what each worker holds of the update it handles
    fresh,
    watch

vars == <<access, binding, link, inbox, pc, job, fresh, watch>>

Unbound == [chat |-> None, version |-> 0, by |-> None]
NoLink == [state |-> "unused", owner |-> None, version |-> 0]
Gone == [NoLink EXCEPT !.state = "gone"]
NoPayload == [kind |-> "none", link |-> None, chat |-> None, to |-> None]
NoUpdate == [status |-> "absent", payload |-> NoPayload, attempts |-> 0,
             lease |-> None]
NoJob == [update |-> None, link |-> NoLink, owners |-> {}, failed |-> FALSE]

Stored(t) == link[t].state = "stored"

\* The owners a removal or a migration of their chat is about.
Concerned(b, asked) ==
    {o \in Owner : /\ b[o].chat = asked.chat
                   /\ asked.kind = "left" \/ (asked.kind = "migrate" /\ o \in Group)}

Init ==
    /\ access = [u \in User |-> "active"]
    /\ binding = [o \in Owner |->
                     IF BoundTo[o] = None THEN Unbound
                     ELSE [chat |-> BoundTo[o], version |-> 1, by |-> None]]
    /\ link = [t \in Link |-> NoLink]
    /\ inbox \in [Update -> {NoUpdate} \cup
                    {[NoUpdate EXCEPT !.status = "pending", !.payload = asked,
                                      !.attempts = MaxAttempts - 1] : asked \in Content}]
    /\ \A x \in Update : x \in Backlog <=> inbox[x].status = "pending"
    /\ pc = [w \in Worker |-> "idle"]
    /\ job = [w \in Worker |-> NoJob]
    /\ fresh = {}
    /\ watch = [x \in Update |-> Concerned(binding, inbox[x].payload)]

-------------------------------------------------------------------------------
\* The API: links, unlinking and accounts.

Workers == <<inbox, pc, job>>

Bind(o, chat, by) ==
    /\ binding[o].version < MaxVersion[o]
    /\ binding' = [binding EXCEPT ![o] =
                     [chat |-> chat, version |-> @.version + 1, by |-> by]]

\* The links of the owners in os are deleted.
Without(os) == [t \in Link |-> IF Stored(t) /\ link[t].owner \in os THEN Gone ELSE link[t]]

\* createGroupLink, createUserLink
CreateLink(o, t) ==
    /\ access[UserOf[o]] = "active"
    /\ link[t].state = "unused"
    /\ link' = [link EXCEPT ![t] = [state |-> "stored", owner |-> o,
                                    version |-> binding[o].version]]
    /\ UNCHANGED <<access, binding, Workers>>

\* unlinkGroup, unlinkUser: also of an owner that has no chat.
Unlink(o) ==
    /\ access[UserOf[o]] # "deleted"
    /\ Bind(o, None, None)
    /\ link' = Without({o})
    /\ UNCHANGED <<access, Workers>>

\* Faulty variant of UpdateUser: the links of the account are left.
UpdateUserKeepsLinks(u, state) ==
    LET closed == {o \in Owner : /\ UserOf[o] = u
                                 /\ o \in Group => binding[o].version > 0}
    IN  /\ access[u] # "deleted"
        /\ access' = [access EXCEPT ![u] = state]
        /\ IF state = "active"
           THEN UNCHANGED binding
           ELSE /\ \A o \in closed : binding[o].version < MaxVersion[o]
                /\ binding' = [o \in Owner |->
                     IF o \in closed
                     THEN [chat |-> None, version |-> binding[o].version + 1, by |-> None]
                     ELSE binding[o]]
        /\ UNCHANGED <<link, Workers>>

\* PATCH of an account.  One that leaves it without access closes its bindings
\* again each time; a group that was never bound has no row to close.
UpdateUser(u, state) ==
    LET closed == {o \in Owner : /\ UserOf[o] = u
                                 /\ o \in Group => binding[o].version > 0}
    IN  /\ access[u] # "deleted"
        /\ access' = [access EXCEPT ![u] = state]
        /\ IF state = "active"
           THEN UNCHANGED <<binding, link>>
           ELSE /\ \A o \in closed : binding[o].version < MaxVersion[o]
                /\ binding' = [o \in Owner |->
                     IF o \in closed
                     THEN [chat |-> None, version |-> binding[o].version + 1, by |-> None]
                     ELSE binding[o]]
                /\ link' = Without({o \in Owner : UserOf[o] = u})
        /\ UNCHANGED Workers

\* Rows and links go with the account.
DeleteUser(u) ==
    /\ access[u] # "deleted"
    /\ access' = [access EXCEPT ![u] = "deleted"]
    /\ binding' = [o \in Owner |-> IF UserOf[o] = u THEN Unbound ELSE binding[o]]
    /\ link' = Without({o \in Owner : UserOf[o] = u})
    /\ UNCHANGED Workers

\* deactivateRecipient, by an outbox worker whose message Telegram refused.
DeactivateRecipient(o) ==
    /\ binding[o].chat # None
    /\ Bind(o, None, None)
    /\ UNCHANGED <<access, link, Workers>>

-------------------------------------------------------------------------------
\* The inbox.

\* persistUpdate: a repeated delivery of an update stores nothing.
PersistUpdate(x, payload) ==
    /\ inbox[x].status = "absent"
    /\ payload.kind = "start" => link[payload.link].state # "unused"
    /\ inbox' = [inbox EXCEPT ![x].status = "pending", ![x].payload = payload]
    /\ UNCHANGED <<access, binding, link, pc, job>>

\* Time is not kept: whenever a worker claims, a lease may have expired, also
\* under a worker that still runs, and a failed update's next attempt be due.

\* Updates whose last attempt did not end in time are given up by a claim.
Abandoned(row) ==
    /\ row.status = "pending" /\ row.attempts >= MaxAttempts
    /\ row.lease # None

Swept(gone) ==
    [x \in Update |->
            IF x \in gone
            THEN [inbox[x] EXCEPT !.status = "failed", !.lease = None]
            ELSE inbox[x]]

\* Faulty variant of Claimable: attempts are not limited.
ClaimableForever(row) == row.status = "pending"

Claimable(row) == row.status = "pending" /\ row.attempts < MaxAttempts

ClaimUpdate(w, x) ==
    /\ pc[w] = "idle"
    /\ Claimable(inbox[x])
    /\ \E gone \in SUBSET {y \in Update : Abandoned(inbox[y])} :
         inbox' = [Swept(gone) EXCEPT ![x].lease = w, ![x].attempts = @ + 1]
    /\ pc' = [pc EXCEPT ![w] = "handle"]
    /\ job' = [job EXCEPT ![w] = [NoJob EXCEPT !.update = x]]
    /\ UNCHANGED <<access, binding, link>>

\* A claim that finds nothing to do.
SweepOnly ==
    /\ \E w \in Worker : pc[w] = "idle"
    /\ \E gone \in SUBSET {y \in Update : Abandoned(inbox[y])} :
         gone # {} /\ inbox' = Swept(gone)
    /\ UNCHANGED <<access, binding, link, pc, job>>

Asked(w) == inbox[job[w].update].payload

Goto(w, step) == pc' = [pc EXCEPT ![w] = step]

-------------------------------------------------------------------------------
\* The handlers.

\* A refused link is answered, after the transaction; sending may fail.
Reply(w) ==
    /\ Goto(w, "record")
    /\ \E lost \in BOOLEAN : job' = [job EXCEPT ![w].failed = lost]

\* onStart reads the link before it knows whose row to lock.  Time is not kept:
\* a stored link may have expired whenever it is looked at.
ReadLink(w) ==
    LET t == Asked(w).link
        valid == /\ Stored(t)
                 /\ link[t].owner \in Group <=> Asked(w).chat \in GroupChat
    IN  /\ pc[w] = "handle" /\ Asked(w).kind = "start"
        /\ \/ valid /\ Goto(w, "bind") /\ job' = [job EXCEPT ![w].link = link[t]]
           \/ Reply(w)
        /\ UNCHANGED <<access, binding, link, inbox>>

\* Another student's group has the chat: P2002.
Taken(o, chat) == o \in Group /\ \E p \in Group \ {o} : binding[p].chat = chat

\* Faulty variant of Usable: the version is not compared again.
UsableAtAnyVersion(t, read) ==
    access[UserOf[read.owner]] = "active" /\ Stored(t)

\* The link names the version its owner must still have.
Usable(t, read) ==
    /\ access[UserOf[read.owner]] = "active"
    /\ binding[read.owner].version = read.version
    /\ Stored(t)

\* Under the lock: a link that still holds is consumed with all of its owner's.
BindChat(w) ==
    LET t == Asked(w).link
        o == job[w].link.owner
    IN  /\ pc[w] = "bind"
        /\ Usable(t, job[w].link)
        /\ ~Taken(o, Asked(w).chat)
        /\ Bind(o, Asked(w).chat, t)
        /\ link' = Without({o})
        /\ Goto(w, "record")
        /\ UNCHANGED <<access, inbox, job>>

\* A link of an account without access is deleted; one that expired or does not
\* hold any more, and a group another student has, change nothing.
RefuseLink(w) ==
    LET t == Asked(w).link
        o == job[w].link.owner
    IN  /\ pc[w] = "bind"
        /\ link' = IF access[UserOf[o]] # "active" /\ Stored(t)
                   THEN [link EXCEPT ![t] = Gone] ELSE link
        /\ Reply(w)
        /\ UNCHANGED <<access, binding, inbox>>

\* deactivateChat and migrateChat read the chat's owners, then take them one
\* transaction at a time.
ReadOwners(w) ==
    /\ pc[w] = "handle" /\ Asked(w).kind \in {"left", "migrate"}
    /\ job' = [job EXCEPT ![w].owners = Concerned(binding, Asked(w))]
    /\ Goto(w, "owners")
    /\ UNCHANGED <<access, binding, link, inbox>>

\* Faulty variant of ChangeOwner: the handler returns after the first owner.
ChangeFirstOwner(w, o) ==
    /\ pc[w] = "owners"
    /\ o \in job[w].owners
    /\ o \notin Group => job[w].owners \cap Group = {}
    /\ job' = [job EXCEPT ![w].owners = {}]
    /\ IF binding[o].chat # Asked(w).chat
       THEN UNCHANGED binding
       ELSE /\ Asked(w).kind = "migrate" => ~Taken(o, Asked(w).to)
            /\ Bind(o, Asked(w).to, binding[o].by)
    /\ UNCHANGED <<access, link, inbox, pc>>

\* An owner whose chat is another by now is left alone.  Groups come first.
ChangeOwner(w, o) ==
    /\ pc[w] = "owners"
    /\ o \in job[w].owners
    /\ o \notin Group => job[w].owners \cap Group = {}
    /\ job' = [job EXCEPT ![w].owners = @ \ {o}]
    /\ IF binding[o].chat # Asked(w).chat
       THEN UNCHANGED binding
       ELSE /\ Asked(w).kind = "migrate" => ~Taken(o, Asked(w).to)
            /\ Bind(o, Asked(w).to, binding[o].by)
    /\ UNCHANGED <<access, link, inbox, pc>>

OwnersDone(w) ==
    /\ pc[w] = "owners" /\ job[w].owners = {}
    /\ Goto(w, "record")
    /\ UNCHANGED <<access, binding, link, inbox, job>>

\* The database or Telegram fails, or a group migrates to a chat that is bound.
HandlerFails(w) ==
    /\ pc[w] \in {"handle", "bind", "owners"}
    /\ job' = [job EXCEPT ![w].failed = TRUE]
    /\ Goto(w, "record")
    /\ UNCHANGED <<access, binding, link, inbox>>

HoldsLease(w) ==
    LET row == inbox[job[w].update]
    IN  row.status = "pending" /\ row.lease = w

\* A worker whose lease went to another records nothing.
Record(w, failed, outcome) ==
    /\ pc[w] = "record" /\ job[w].failed = failed
    /\ inbox' = IF HoldsLease(w) THEN [inbox EXCEPT ![job[w].update] = outcome] ELSE inbox
    /\ Goto(w, "idle")
    /\ job' = [job EXCEPT ![w] = NoJob]
    /\ UNCHANGED <<access, binding, link>>

RecordProcessed(w) ==
    Record(w, FALSE, [inbox[job[w].update] EXCEPT
                        !.status = "processed", !.lease = None])

\* Faulty variant of RecordFailure: the last attempt is scheduled again.
RecordFailureForRetry(w, permanent) ==
    LET row == inbox[job[w].update]
    IN  Record(w, TRUE, [row EXCEPT !.status = IF permanent THEN "failed" ELSE @,
                                    !.lease = None])

RecordFailure(w, permanent) ==
    LET row == inbox[job[w].update]
    IN  Record(w, TRUE, [row EXCEPT
            !.status = IF permanent \/ row.attempts >= MaxAttempts THEN "failed" ELSE @,
            !.lease = None])

\* The process dies, or cannot record the outcome.
Crash(w) ==
    /\ pc[w] # "idle"
    /\ Goto(w, "idle")
    /\ job' = [job EXCEPT ![w] = NoJob]
    /\ UNCHANGED <<access, binding, link, inbox>>

-------------------------------------------------------------------------------
Handle(w) ==
    \/ ReadLink(w) \/ BindChat(w) \/ RefuseLink(w)
    \/ ReadOwners(w) \/ (\E o \in Owner : ChangeOwner(w, o)) \/ OwnersDone(w)
    \/ HandlerFails(w)
    \/ RecordProcessed(w) \/ (\E permanent \in BOOLEAN : RecordFailure(w, permanent))

Step ==
    \/ \E o \in Owner, t \in Link : CreateLink(o, t)
    \/ \E o \in Owner : Unlink(o) \/ DeactivateRecipient(o)
    \/ \E u \in User : DeleteUser(u) \/ \E a \in {"active", "inactive"} : UpdateUser(u, a)
    \/ \E x \in Update, payload \in Content : PersistUpdate(x, payload)
    \/ SweepOnly
    \/ \E w \in Worker : (\E x \in Update : ClaimUpdate(w, x)) \/ Handle(w) \/ Crash(w)

\* An owner keeps its chat, and the link it has it by.
Kept(o) == binding'[o].chat = binding[o].chat /\ binding'[o].by = binding[o].by

Remember ==
    /\ fresh' = {t \in Link : /\ link'[t].state = "stored"
                              /\ Stored(t) => t \in fresh /\ Kept(link[t].owner)}
    /\ watch' = [x \in Update |->
                   CASE inbox'[x].status = "failed" -> {}
                     [] inbox[x].status = "absent" -> Concerned(binding, inbox'[x].payload)
                     [] OTHER -> {o \in watch[x] : Kept(o)}]

Next == Step /\ Remember

Spec == Init /\ [][Next]_vars

-------------------------------------------------------------------------------
\* Properties.

BindingRow == [chat : Chat \cup {None}, version : Nat, by : Link \cup {None}]

LinkRow == [state : {"unused", "stored", "gone"}, owner : Owner \cup {None}, version : Nat]

InboxRow == [status : {"absent", "pending", "processed", "failed"},
             payload : Content \cup {NoPayload}, attempts : 0 .. MaxAttempts,
             lease : Worker \cup {None}]

\* Every variable has its type, and a worker that is not idle has an update.
TypeOK ==
    /\ access \in [User -> {"active", "inactive", "deleted"}]
    /\ binding \in [Owner -> BindingRow]
    /\ \A o \in Owner : binding[o].version <= MaxVersion[o]
    /\ link \in [Link -> LinkRow]
    /\ inbox \in [Update -> InboxRow]
    /\ pc \in [Worker -> {"idle", "handle", "bind", "owners", "record"}]
    /\ job \in [Worker -> [update : Update \cup {None}, link : LinkRow,
                           owners : SUBSET Owner, failed : BOOLEAN]]
    /\ fresh \subseteq Link
    /\ watch \in [Update -> SUBSET Owner]
    /\ \A w \in Worker : pc[w] # "idle" => inbox[job[w].update].status # "absent"

\* A user without access has no private chat, no group and no link that could
\* bind one, however a link is being used, a chat migrates or a binding changes
\* while access is withdrawn (UsersService.update against onStart, createUserLink
\* and createGroupLink).
NoAccessNoChat ==
    \A o \in Owner : access[UserOf[o]] # "active" =>
        /\ binding[o].chat = None
        /\ \A t \in Link : Stored(t) => link[t].owner # o

\* A link binds its owner at most once, and only if the owner's chat did not
\* change between the issue of the link and its use: not when two chats or two
\* workers use it at once, nor when its update is handled again, nor when the
\* owner was unlinked, blocked the bot or was rebound meanwhile (onStart).
FreshLinkOnly ==
    [][\A w \in Worker :
         pc[w] = "bind" /\ pc'[w] # "bind" /\ binding' # binding
           => Asked(w).link \in fresh]_vars

\* Once the bot's removal from a chat, or the migration of a group, is recorded
\* as processed, no owner that had the chat when the update arrived has it by
\* the same link still: not after an attempt that failed between two owners,
\* a crash, or a lease that was taken over (deactivateChat, migrateChat,
\* processInboxRow).
ProcessedMeansDone ==
    \A x \in Update : inbox[x].status = "processed" => watch[x] = {}

\* No stored update is out of reach: one that is not settled can be claimed
\* again, is being worked on, or will be given up by a claim, whatever failed
\* and whoever died (claimInboxBatch, processInboxRow).
NoUpdateStuck ==
    \A x \in Update : inbox[x].status = "pending" =>
        Claimable(inbox[x]) \/ Abandoned(inbox[x])

===============================================================================
