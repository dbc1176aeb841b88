------------------------- MODULE TelegramBindingProofs -------------------------
(***************************************************************************)
(* Proofs about TelegramBinding for any number of users, owners, chats,    *)
(* links, updates and workers, and for all first bindings.                 *)
(***************************************************************************)
EXTENDS TelegramBinding, TLAPS

\* A group without a row has no chat.
NeverBound == \A o \in Owner : binding[o].version = 0 => binding[o].chat = None

\* A stored link is not ahead of its owner's binding, and one that is level with
\* it was issued since the binding last changed.
LinksOK ==
    \A t \in Link : link[t].state = "stored" =>
        /\ link[t].owner \in Owner
        /\ link[t].version <= binding[link[t].owner].version
        /\ link[t].version = binding[link[t].owner].version => t \in fresh

\* Who is watched for an update still has its chat.
UpdatesOK ==
    \A x \in Update :
        /\ inbox[x].status = "absent" => inbox[x] = NoUpdate
        /\ inbox[x].status # "absent" => inbox[x].payload \in Content
        /\ watch[x] \subseteq Concerned(binding, inbox[x].payload)

\* What a worker that is not idle may rely on: the link it read is as it was or
\* gone; whoever is still watched is on its list; and at the end nobody is.
JobOK(w) ==
    pc[w] # "idle" =>
        /\ job[w].update \in Update
        /\ inbox[job[w].update].status # "absent"
        /\ pc[w] = "bind" =>
             /\ Asked(w).kind = "start"
             /\ job[w].link.owner \in Owner /\ job[w].link.state = "stored"
             /\ link[Asked(w).link] = job[w].link \/ link[Asked(w).link].state = "gone"
        /\ pc[w] = "owners" =>
             /\ Asked(w).kind \in {"left", "migrate"}
             /\ watch[job[w].update] \subseteq job[w].owners
        /\ pc[w] = "record" /\ ~job[w].failed => watch[job[w].update] = {}

JobsOK == \A w \in Worker : JobOK(w)

BInv ==
    /\ TypeOK /\ NoAccessNoChat /\ NeverBound /\ LinksOK
    /\ UpdatesOK /\ NoUpdateStuck /\ ProcessedMeansDone /\ JobsOK

-------------------------------------------------------------------------------
\* What a step may do to each part of the state.

Jobs == [update : Update \cup {None}, link : LinkRow, owners : SUBSET Owner,
         failed : BOOLEAN]

Steps == {"idle", "handle", "bind", "owners", "record"}

BindingType ==
    /\ binding \in [Owner -> BindingRow]
    /\ \A o \in Owner : binding[o].version <= MaxVersion[o]

\* A link is issued once, for the binding as it is, and never changes but to go.
LinkMoves ==
    \A t \in Link :
        \/ link'[t] = link[t]
        \/ link[t].state = "stored" /\ link'[t].state = "gone"
        \/ /\ link[t].state = "unused" /\ binding' = binding
           /\ \E o \in Owner :
                link'[t] = [state |-> "stored", owner |-> o, version |-> binding[o].version]

\* A binding that changes has a new version, unless no link is left that could
\* name the old one.
BindingMoves ==
    \A o \in Owner :
        \/ binding'[o] = binding[o]
        \/ binding'[o].version > binding[o].version
        \/ \A t \in Link : link'[t].state = "stored" => link'[t].owner # o

\* An update is stored, or one that is pending moves on without getting stuck and
\* is processed only when nobody is watched.
InboxMoves ==
    \A x \in Update :
        \/ inbox'[x] = inbox[x]
        \/ /\ inbox[x].status = "absent" /\ binding' = binding
           /\ \E payload \in Content :
                inbox'[x] = [NoUpdate EXCEPT !.status = "pending", !.payload = payload]
        \/ /\ inbox[x].status = "pending" /\ inbox'[x].status # "absent"
           /\ inbox'[x].payload = inbox[x].payload
           /\ inbox'[x].status = "pending" =>
                inbox'[x].attempts < MaxAttempts \/ inbox'[x].lease # None
           /\ inbox'[x].status = "processed" => watch[x] = {}

\* The same update is as good for the watched as before, or better.
LEMMA WatchShrinks ==
  ASSUME BInv, Remember, InboxMoves, NEW x \in Update, inbox[x].status # "absent"
  PROVE  /\ inbox'[x].status # "absent" /\ inbox'[x].payload = inbox[x].payload
         /\ watch'[x] \subseteq {o \in watch[x] : Kept(o)}
<1>1. inbox'[x].status # "absent" /\ inbox'[x].payload = inbox[x].payload
  BY DEF InboxMoves
<1>2. watch'[x] = IF inbox'[x].status = "failed" THEN {} ELSE {o \in watch[x] : Kept(o)}
  BY DEF Remember
<1> QED
  BY <1>1, <1>2

LEMMA LinksKeep ==
  ASSUME BInv, Remember, LinkMoves, BindingMoves, BindingType' PROVE LinksOK'
<1> SUFFICES ASSUME NEW t \in Link, link'[t].state = "stored"
             PROVE  /\ link'[t].owner \in Owner
                    /\ link'[t].version <= binding'[link'[t].owner].version
                    /\ link'[t].version = binding'[link'[t].owner].version => t \in fresh'
  BY DEF LinksOK
<1>1. t \in fresh' <=> (link[t].state = "stored" => t \in fresh /\ Kept(link[t].owner))
  BY DEF Remember, Stored
<1>2. CASE link'[t] = link[t]
  <2>1. /\ link[t].owner \in Owner
        /\ link[t].version <= binding[link[t].owner].version
        /\ link[t].version = binding[link[t].owner].version => t \in fresh
    BY <1>2 DEF BInv, LinksOK
  <2>2. link[t].version \in Nat /\ binding[link[t].owner].version \in Nat
    BY <2>1 DEF BInv, TypeOK, LinkRow, BindingRow
  <2>3. CASE binding'[link[t].owner] = binding[link[t].owner]
    BY <1>1, <1>2, <2>1, <2>3 DEF Kept
  <2>4. CASE binding'[link[t].owner].version > binding[link[t].owner].version
    <3>1. binding'[link[t].owner].version \in Nat
      BY <2>1 DEF BindingType, BindingRow
    <3> QED
      BY <1>2, <2>1, <2>2, <2>4, <3>1
  <2> QED
    BY <1>2, <2>1, <2>3, <2>4 DEF BindingMoves
<1>3. CASE link[t].state = "unused" /\ binding' = binding
           /\ \E o \in Owner :
                link'[t] = [state |-> "stored", owner |-> o, version |-> binding[o].version]
  <2>1. PICK o \in Owner :
          link'[t] = [state |-> "stored", owner |-> o, version |-> binding[o].version]
    BY <1>3
  <2>2. binding'[o].version = binding[o].version /\ binding[o].version \in Nat
    BY <1>3 DEF BInv, TypeOK, BindingRow
  <2> QED
    BY <1>1, <1>3, <2>1, <2>2
<1> QED
  BY <1>2, <1>3 DEF LinkMoves

LEMMA UpdatesKeep ==
  ASSUME BInv, Remember, InboxMoves, inbox' \in [Update -> InboxRow]
  PROVE  UpdatesOK' /\ NoUpdateStuck' /\ ProcessedMeansDone'
<1> SUFFICES ASSUME NEW x \in Update
             PROVE  /\ inbox'[x].status = "absent" => inbox'[x] = NoUpdate
                    /\ inbox'[x].status # "absent" => inbox'[x].payload \in Content
                    /\ watch'[x] \subseteq Concerned(binding', inbox'[x].payload)
                    /\ inbox'[x].status = "pending" =>
                         inbox'[x].attempts < MaxAttempts
                           \/ (inbox'[x].attempts >= MaxAttempts /\ inbox'[x].lease # None)
                    /\ inbox'[x].status = "processed" => watch'[x] = {}
  BY DEF UpdatesOK, NoUpdateStuck, ProcessedMeansDone, Claimable, Abandoned
<1>1. /\ inbox[x].status = "absent" => inbox[x] = NoUpdate
      /\ inbox[x].status # "absent" => inbox[x].payload \in Content
      /\ watch[x] \subseteq Concerned(binding, inbox[x].payload)
      /\ inbox[x].status = "pending" =>
           inbox[x].attempts < MaxAttempts \/ inbox[x].lease # None
      /\ inbox[x].status = "processed" => watch[x] = {}
  BY DEF BInv, UpdatesOK, NoUpdateStuck, ProcessedMeansDone, Claimable, Abandoned
<1>2. CASE inbox[x].status # "absent"
  <2>1. /\ inbox'[x].status # "absent" /\ inbox'[x].payload = inbox[x].payload
        /\ watch'[x] \subseteq {o \in watch[x] : Kept(o)}
    BY <1>2, WatchShrinks
  <2>2. watch'[x] \subseteq Concerned(binding', inbox'[x].payload)
    BY <1>1, <2>1 DEF Concerned, Kept
  <2>3. inbox'[x].status = "processed" => watch'[x] = {}
    BY <1>1, <1>2, <2>1 DEF InboxMoves
  <2>4. inbox'[x].status = "pending" =>
          inbox'[x].attempts < MaxAttempts \/ inbox'[x].lease # None
    BY <1>1, <1>2 DEF InboxMoves
  <2>5. inbox'[x].attempts \in Nat /\ MaxAttempts \in Nat
    BY BindingAssumption DEF InboxRow
  <2> QED
    BY <1>1, <1>2, <2>1, <2>2, <2>3, <2>4, <2>5
<1>3. CASE inbox[x].status = "absent" /\ inbox'[x] = inbox[x]
  <2>1. inbox'[x] = NoUpdate /\ NoUpdate.status = "absent"
        /\ NoUpdate.payload.kind = "none"
    BY <1>1, <1>3 DEF NoUpdate, NoPayload
  <2>2. watch'[x] = Concerned(binding, NoUpdate.payload)
    BY <1>3, <2>1 DEF Remember
  <2> QED
    BY <2>1, <2>2 DEF Concerned
<1>4. CASE inbox[x].status = "absent" /\ inbox'[x] # inbox[x]
  <2>1. PICK payload \in Content :
          inbox'[x] = [NoUpdate EXCEPT !.status = "pending", !.payload = payload]
    BY <1>4 DEF InboxMoves
  <2>2. /\ inbox'[x].status = "pending" /\ inbox'[x].payload = payload
        /\ inbox'[x].attempts = 0
    BY <2>1 DEF NoUpdate
  <2>3. watch'[x] = Concerned(binding, payload) /\ binding' = binding
    BY <1>4, <2>2 DEF Remember, InboxMoves
  <2> QED
    BY <2>2, <2>3, BindingAssumption
<1> QED
  BY <1>2, <1>3, <1>4

\* A worker that does nothing itself stays as right as it was.
LEMMA IdleJobsKeep ==
  ASSUME BInv, Remember, LinkMoves, InboxMoves,
         NEW w \in Worker, pc'[w] = pc[w], job'[w] = job[w]
  PROVE  JobOK(w)'
<1> SUFFICES ASSUME pc[w] # "idle" PROVE JobOK(w)'
  BY DEF JobOK
<1> DEFINE x == job[w].update
<1>1. JobOK(w)
  BY DEF BInv, JobsOK
<1>2. x \in Update /\ inbox[x].status # "absent"
  BY <1>1 DEF JobOK
<1>3. /\ inbox'[x].status # "absent" /\ inbox'[x].payload = inbox[x].payload
      /\ watch'[x] \subseteq watch[x]
  BY <1>2, WatchShrinks
<1>4. inbox[x].payload \in Content /\ Asked(w)' = Asked(w)
  BY <1>2, <1>3 DEF BInv, UpdatesOK, Asked
<1>5. pc[w] = "bind" =>
        link'[Asked(w).link] = job[w].link \/ link'[Asked(w).link].state = "gone"
  <2> SUFFICES ASSUME pc[w] = "bind"
               PROVE  link'[Asked(w).link] = job[w].link \/ link'[Asked(w).link].state = "gone"
    OBVIOUS
  <2>1. Asked(w).link \in Link
    BY <1>1, <1>2, <1>4, BindingAssumption DEF JobOK, Asked, Payload
  <2>2. /\ job[w].link.state = "stored"
        /\ link[Asked(w).link] = job[w].link \/ link[Asked(w).link].state = "gone"
    BY <1>1 DEF JobOK
  <2> QED
    BY <2>1, <2>2 DEF LinkMoves
<1> QED
  BY <1>1, <1>2, <1>3, <1>4, <1>5 DEF JobOK

\* What every step must show.
LEMMA StepKeepsAll ==
  ASSUME BInv, Remember, LinkMoves, BindingMoves, InboxMoves,
         access' \in [User -> {"active", "inactive", "deleted"}],
         BindingType', link' \in [Link -> LinkRow], inbox' \in [Update -> InboxRow],
         pc' \in [Worker -> Steps], job' \in [Worker -> Jobs],
         NoAccessNoChat', NeverBound',
         \A w \in Worker : JobOK(w)' \/ (pc'[w] = pc[w] /\ job'[w] = job[w])
  PROVE  BInv'
<1>1. LinksOK'
  BY LinksKeep
<1>2. UpdatesOK' /\ NoUpdateStuck' /\ ProcessedMeansDone'
  BY UpdatesKeep
<1>3. \A w \in Worker : JobOK(w)'
  BY IdleJobsKeep
<1>4. JobsOK'
  BY <1>3 DEF JobsOK
<1>5. fresh' \subseteq Link
  BY DEF Remember
<1>6. watch' \in [Update -> SUBSET Owner]
  <2>1. ASSUME NEW x \in Update
        PROVE  (CASE inbox'[x].status = "failed" -> {}
                  [] inbox[x].status = "absent" -> Concerned(binding, inbox'[x].payload)
                  [] OTHER -> {o \in watch[x] : Kept(o)}) \in SUBSET Owner
    <3>1. watch[x] \subseteq Owner /\ Concerned(binding, inbox'[x].payload) \subseteq Owner
      BY DEF BInv, TypeOK, Concerned
    <3> QED
      BY <3>1
  <2> QED
    BY <2>1 DEF Remember
<1>7. \A w \in Worker : pc'[w] # "idle" => inbox'[job'[w].update].status # "absent"
  BY <1>3 DEF JobOK
<1>8. TypeOK'
  BY <1>5, <1>6, <1>7 DEF TypeOK, BindingType, Steps, Jobs
<1> QED
  BY <1>1, <1>2, <1>4, <1>8 DEF BInv

-------------------------------------------------------------------------------
\* Bindings and links.

LEMMA BindEffect ==
  ASSUME TypeOK, NEW o \in Owner, NEW chat \in Chat \cup {None}, NEW by \in Link \cup {None},
         Bind(o, chat, by)
  PROVE  /\ BindingType' /\ BindingMoves
         /\ \A p \in Owner : p # o => binding'[p] = binding[p]
         /\ binding'[o] = [chat |-> chat, version |-> binding[o].version + 1, by |-> by]
         /\ binding'[o].chat = chat /\ binding'[o].by = by /\ binding'[o].version # 0
<1>1. /\ binding[o].version < MaxVersion[o]
      /\ binding' = [binding EXCEPT ![o] =
                       [chat |-> chat, version |-> binding[o].version + 1, by |-> by]]
  BY DEF Bind
<1>2. /\ binding \in [Owner -> BindingRow] /\ binding[o].version \in Nat
      /\ \A p \in Owner : binding[p].version <= MaxVersion[p]
      /\ MaxVersion[o] \in Nat
  BY BindingAssumption DEF TypeOK, BindingRow
<1>3. [chat |-> chat, version |-> binding[o].version + 1, by |-> by] \in BindingRow
  BY <1>2 DEF BindingRow
<1>4. /\ binding' \in [Owner -> BindingRow]
      /\ \A p \in Owner : p # o => binding'[p] = binding[p]
      /\ binding'[o] = [chat |-> chat, version |-> binding[o].version + 1, by |-> by]
  BY <1>1, <1>2, <1>3
<1>5. binding'[o].version = binding[o].version + 1
  BY <1>4
<1>6. /\ binding'[o].version <= MaxVersion[o] /\ binding'[o].version > binding[o].version
      /\ binding'[o].version # 0
  BY <1>1, <1>2, <1>5
<1> QED
  BY <1>2, <1>4, <1>6 DEF BindingType, BindingMoves

\* Deleting links is a move, to rows of the right type.
LEMMA WithoutMoves ==
  ASSUME TypeOK, NEW os, link' = Without(os)
  PROVE  /\ LinkMoves /\ link' \in [Link -> LinkRow]
         /\ \A t \in Link : link'[t].state = "stored" =>
              link'[t] = link[t] /\ link[t].owner \notin os
<1>1. Gone \in LinkRow /\ Gone.state = "gone"
  BY DEF Gone, NoLink, LinkRow
<1>2. link \in [Link -> LinkRow]
  BY DEF TypeOK
<1>3. \A t \in Link : link'[t] = IF link[t].state = "stored" /\ link[t].owner \in os
                                  THEN Gone ELSE link[t]
  BY DEF Without, Stored
<1>4. link' \in [Link -> LinkRow]
  <2>1. link' = [t \in Link |-> link'[t]]
    BY DEF Without
  <2>2. \A t \in Link : link'[t] \in LinkRow
    BY <1>1, <1>2, <1>3
  <2> QED
    BY <2>1, <2>2
<1>5. LinkMoves
  BY <1>1, <1>3 DEF LinkMoves
<1>6. \A t \in Link : link'[t].state = "stored" =>
        link'[t] = link[t] /\ link[t].owner \notin os
  BY <1>1, <1>3
<1> QED
  BY <1>4, <1>5, <1>6

\* A step of the API leaves updates and workers as they are.
LEMMA ApiKeeps ==
  ASSUME BInv, Remember, UNCHANGED Workers, LinkMoves, BindingMoves,
         access' \in [User -> {"active", "inactive", "deleted"}],
         BindingType', link' \in [Link -> LinkRow], NoAccessNoChat', NeverBound'
  PROVE  BInv'
<1>1. inbox' = inbox /\ pc' = pc /\ job' = job
  BY DEF Workers
<1>2. InboxMoves
  BY <1>1 DEF InboxMoves
<1>3. /\ inbox' \in [Update -> InboxRow]
      /\ pc' \in [Worker -> Steps] /\ job' \in [Worker -> Jobs]
  BY <1>1 DEF BInv, TypeOK, Steps, Jobs
<1> QED
  BY <1>1, <1>2, <1>3, StepKeepsAll

\* While nobody loses access, chats and links of those without it only go.
LEMMA AccessKept ==
  ASSUME BInv, access' = access,
         \A o \in Owner : access[UserOf[o]] # "active" =>
            binding'[o].chat = binding[o].chat \/ binding'[o].chat = None,
         \A t \in Link : link'[t].state = "stored" =>
            link'[t] = link[t] \/ access[UserOf[link'[t].owner]] = "active"
  PROVE  NoAccessNoChat'
BY DEF BInv, NoAccessNoChat, Stored

LEMMA CreateLinkKeeps ==
  ASSUME BInv, Remember, NEW o \in Owner, NEW t \in Link, CreateLink(o, t)
  PROVE  BInv'
<1> DEFINE row == [state |-> "stored", owner |-> o, version |-> binding[o].version]
<1>1. /\ access' = access /\ binding' = binding /\ UNCHANGED Workers
      /\ access[UserOf[o]] = "active" /\ link[t].state = "unused"
      /\ link' = [link EXCEPT ![t] = row]
  BY DEF CreateLink
<1>2. row \in LinkRow /\ row.owner = o
  BY DEF BInv, TypeOK, BindingRow, LinkRow
<1>3. link' \in [Link -> LinkRow] /\ link'[t] = row
      /\ \A u \in Link : u # t => link'[u] = link[u]
  BY <1>1, <1>2 DEF BInv, TypeOK
<1>4. LinkMoves
  BY <1>1, <1>3 DEF LinkMoves
<1>5. BindingMoves /\ BindingType' /\ NeverBound'
  BY <1>1 DEF BindingMoves, BindingType, BInv, TypeOK, NeverBound
<1>6. NoAccessNoChat'
  BY <1>1, <1>2, <1>3, AccessKept
<1> QED
  BY <1>1, <1>3, <1>4, <1>5, <1>6, ApiKeeps DEF BInv, TypeOK

LEMMA UnlinkKeeps ==
  ASSUME BInv, Remember, NEW o \in Owner, Unlink(o) PROVE BInv'
<1>1. /\ access' = access /\ UNCHANGED Workers
      /\ Bind(o, None, None) /\ link' = Without({o})
  BY DEF Unlink
<1>2. /\ BindingType' /\ BindingMoves
      /\ \A p \in Owner : p # o => binding'[p] = binding[p]
      /\ binding'[o].chat = None /\ binding'[o].version # 0
  BY <1>1, BindEffect DEF BInv
<1>3. /\ LinkMoves /\ link' \in [Link -> LinkRow]
      /\ \A t \in Link : link'[t].state = "stored" => link'[t] = link[t]
  BY <1>1, WithoutMoves DEF BInv
<1>4. NeverBound'
  BY <1>2 DEF BInv, NeverBound
<1>5. NoAccessNoChat'
  BY <1>1, <1>2, <1>3, AccessKept
<1> QED
  BY <1>1, <1>2, <1>3, <1>4, <1>5, ApiKeeps DEF BInv, TypeOK

LEMMA DeactivateRecipientKeeps ==
  ASSUME BInv, Remember, NEW o \in Owner, DeactivateRecipient(o) PROVE BInv'
<1>1. /\ access' = access /\ link' = link /\ UNCHANGED Workers /\ Bind(o, None, None)
  BY DEF DeactivateRecipient
<1>2. /\ BindingType' /\ BindingMoves
      /\ \A p \in Owner : p # o => binding'[p] = binding[p]
      /\ binding'[o].chat = None /\ binding'[o].version # 0
  BY <1>1, BindEffect DEF BInv
<1>3. LinkMoves
  BY <1>1 DEF LinkMoves
<1>4. NeverBound'
  BY <1>2 DEF BInv, NeverBound
<1>5. NoAccessNoChat'
  BY <1>1, <1>2, AccessKept
<1> QED
  BY <1>1, <1>2, <1>3, <1>4, <1>5, ApiKeeps DEF BInv, TypeOK

LEMMA DeleteUserKeeps ==
  ASSUME BInv, Remember, NEW u \in User, DeleteUser(u) PROVE BInv'
<1>1. /\ access' = [access EXCEPT ![u] = "deleted"]
      /\ binding' = [o \in Owner |-> IF UserOf[o] = u THEN Unbound ELSE binding[o]]
      /\ link' = Without({o \in Owner : UserOf[o] = u}) /\ UNCHANGED Workers
  BY DEF DeleteUser
<1>2. /\ LinkMoves /\ link' \in [Link -> LinkRow]
      /\ \A t \in Link : link'[t].state = "stored" =>
           link'[t] = link[t] /\ link[t].owner \notin {o \in Owner : UserOf[o] = u}
  BY <1>1, WithoutMoves DEF BInv
<1>3. /\ Unbound \in BindingRow /\ Unbound.version = 0 /\ Unbound.chat = None
      /\ \A o \in Owner : MaxVersion[o] \in Nat
  BY BindingAssumption DEF Unbound, BindingRow
<1>4. /\ binding' \in [Owner -> BindingRow]
      /\ \A o \in Owner : binding'[o] = IF UserOf[o] = u THEN Unbound ELSE binding[o]
  BY <1>1, <1>3 DEF BInv, TypeOK
<1>5. BindingType'
  BY <1>3, <1>4 DEF BInv, TypeOK, BindingType
<1>6. BindingMoves
  BY <1>2, <1>4 DEF BindingMoves
<1>7. NeverBound'
  BY <1>3, <1>4 DEF BInv, NeverBound
<1>8. /\ access' \in [User -> {"active", "inactive", "deleted"}]
      /\ \A v \in User : v # u => access'[v] = access[v]
  BY <1>1 DEF BInv, TypeOK
<1>9. NoAccessNoChat'
  <2> SUFFICES ASSUME NEW o \in Owner, access'[UserOf[o]] # "active"
               PROVE  /\ binding'[o].chat = None
                      /\ \A t \in Link : link'[t].state = "stored" => link'[t].owner # o
    BY DEF NoAccessNoChat, Stored
  <2>1. CASE UserOf[o] = u
    BY <1>2, <1>3, <1>4, <2>1
  <2>2. CASE UserOf[o] # u
    <3>1. access[UserOf[o]] # "active"
      BY <1>8, <2>2, BindingAssumption
    <3> QED
      BY <1>2, <1>4, <2>2, <3>1 DEF BInv, NoAccessNoChat, Stored
  <2> QED
    BY <2>1, <2>2
<1> QED
  BY <1>1, <1>2, <1>5, <1>6, <1>7, <1>8, <1>9, ApiKeeps

LEMMA UpdateUserKeeps ==
  ASSUME BInv, Remember, NEW u \in User, NEW state \in {"active", "inactive"},
         UpdateUser(u, state)
  PROVE  BInv'
<1> DEFINE closed == {o \in Owner : UserOf[o] = u /\ (o \in Group => binding[o].version > 0)}
<1>1. /\ access' = [access EXCEPT ![u] = state] /\ UNCHANGED Workers
  BY DEF UpdateUser
<1>2. /\ access' \in [User -> {"active", "inactive", "deleted"}]
      /\ \A v \in User : v # u => access'[v] = access[v]
      /\ access'[u] = state
  BY <1>1 DEF BInv, TypeOK
<1>3. CASE state = "active"
  <2>1. binding' = binding /\ link' = link
    BY <1>3 DEF UpdateUser
  <2>2. LinkMoves /\ BindingMoves /\ BindingType' /\ NeverBound'
    BY <2>1 DEF LinkMoves, BindingMoves, BindingType, BInv, TypeOK, NeverBound
  <2>3. \A o \in Owner : access'[UserOf[o]] # "active" => access[UserOf[o]] # "active"
    BY <1>2, <1>3, BindingAssumption
  <2>4. NoAccessNoChat'
    BY <2>1, <2>3 DEF BInv, NoAccessNoChat, Stored
  <2> QED
    BY <1>1, <1>2, <2>1, <2>2, <2>4, ApiKeeps DEF BInv, TypeOK
<1>4. CASE state # "active"
  <2>1. /\ \A o \in closed : binding[o].version < MaxVersion[o]
        /\ binding' = [o \in Owner |->
             IF o \in closed
             THEN [chat |-> None, version |-> binding[o].version + 1, by |-> None]
             ELSE binding[o]]
        /\ link' = Without({o \in Owner : UserOf[o] = u})
    BY <1>4 DEF UpdateUser
  <2>2. /\ LinkMoves /\ link' \in [Link -> LinkRow]
        /\ \A t \in Link : link'[t].state = "stored" =>
             link'[t] = link[t] /\ link[t].owner \notin {o \in Owner : UserOf[o] = u}
    BY <2>1, WithoutMoves DEF BInv
  <2>3. \A o \in Owner : /\ binding[o] \in BindingRow /\ binding[o].version \in Nat
                         /\ MaxVersion[o] \in Nat
    BY BindingAssumption DEF BInv, TypeOK, BindingRow
  <2>4. ASSUME NEW o \in closed
        PROVE  /\ binding'[o] \in BindingRow
               /\ binding'[o].chat = None
               /\ binding'[o].version = binding[o].version + 1
    BY <2>1, <2>3 DEF BindingRow
  <2>5. \A o \in Owner : o \notin closed => binding'[o] = binding[o]
    BY <2>1
  <2>6. binding' \in [Owner -> BindingRow]
    <3> HIDE DEF closed
    <3>1. binding' = [o \in Owner |-> binding'[o]]
      BY <2>1
    <3>2. \A o \in Owner : binding'[o] \in BindingRow
      BY <2>3, <2>4, <2>5
    <3> QED
      BY <3>1, <3>2
  <2>7. BindingType' /\ BindingMoves /\ NeverBound'
    <3> HIDE DEF closed
    <3>1. \A o \in closed : /\ binding'[o].version <= MaxVersion[o]
                            /\ binding'[o].version > binding[o].version
                            /\ binding'[o].version # 0 /\ o \in Owner
      BY <2>1, <2>3, <2>4 DEF closed
    <3> QED
      BY <2>5, <2>6, <3>1 DEF BindingType, BindingMoves, NeverBound, BInv, TypeOK
  <2>8. NoAccessNoChat'
    <3> SUFFICES ASSUME NEW o \in Owner, access'[UserOf[o]] # "active"
                 PROVE  /\ binding'[o].chat = None
                        /\ \A t \in Link : link'[t].state = "stored" => link'[t].owner # o
      BY DEF NoAccessNoChat, Stored
    <3>1. CASE UserOf[o] = u
      <4>1. o \notin closed => binding[o].chat = None
        BY <2>3, <3>1 DEF BInv, NeverBound
      <4> QED
        BY <2>2, <2>4, <2>5, <3>1, <4>1
    <3>2. CASE UserOf[o] # u
      <4>1. access[UserOf[o]] # "active"
        BY <1>2, <3>2, BindingAssumption
      <4> QED
        BY <2>2, <2>5, <3>2, <4>1 DEF BInv, NoAccessNoChat, Stored
    <3> QED
      BY <3>1, <3>2
  <2> QED
    BY <1>1, <1>2, <2>2, <2>7, <2>8, ApiKeeps
<1> QED
  BY <1>3, <1>4

-------------------------------------------------------------------------------
\* The inbox.

\* A step of one worker, or of none, that changes no binding and no link.
LEMMA QuietKeeps ==
  ASSUME BInv, Remember, UNCHANGED <<access, binding, link>>,
         InboxMoves, inbox' \in [Update -> InboxRow],
         pc' \in [Worker -> Steps], job' \in [Worker -> Jobs],
         \A w \in Worker : JobOK(w)' \/ (pc'[w] = pc[w] /\ job'[w] = job[w])
  PROVE  BInv'
<1>1. LinkMoves /\ BindingMoves /\ BindingType' /\ NeverBound' /\ NoAccessNoChat'
  BY DEF LinkMoves, BindingMoves, BindingType, BInv, TypeOK, NeverBound, NoAccessNoChat,
         Stored
<1> QED
  BY <1>1, StepKeepsAll DEF BInv, TypeOK

LEMMA PersistUpdateKeeps ==
  ASSUME BInv, Remember, NEW x \in Update, NEW payload \in Content,
         PersistUpdate(x, payload)
  PROVE  BInv'
<1>1. /\ UNCHANGED <<access, binding, link>> /\ pc' = pc /\ job' = job
      /\ inbox[x].status = "absent"
      /\ inbox' = [inbox EXCEPT ![x].status = "pending", ![x].payload = payload]
  BY DEF PersistUpdate
<1>2. inbox[x] = NoUpdate
  BY <1>1 DEF BInv, UpdatesOK
<1>3. /\ \A y \in Update : y # x => inbox'[y] = inbox[y]
      /\ inbox'[x] = [inbox[x] EXCEPT !.status = "pending", !.payload = payload]
  BY <1>1 DEF BInv, TypeOK
<1>4. inbox' \in [Update -> InboxRow]
  <2>1. inbox' = [y \in Update |-> inbox'[y]]
    BY <1>1 DEF BInv, TypeOK
  <2>2. inbox'[x] \in InboxRow
    BY <1>3 DEF BInv, TypeOK, InboxRow
  <2>3. \A y \in Update : inbox'[y] \in InboxRow
    BY <1>3, <2>2 DEF BInv, TypeOK
  <2> QED
    BY <2>1, <2>3
<1>5. InboxMoves
  BY <1>1, <1>2, <1>3 DEF InboxMoves
<1> QED
  BY <1>1, <1>4, <1>5, QuietKeeps DEF BInv, TypeOK, Steps, Jobs

\* Giving up updates is a move of each.
LEMMA SweptRows ==
  ASSUME BInv, NEW gone \in SUBSET {y \in Update : Abandoned(inbox[y])}
  PROVE  /\ Swept(gone) \in [Update -> InboxRow]
         /\ \A y \in Update :
              \/ Swept(gone)[y] = inbox[y] /\ y \notin gone
              \/ /\ inbox[y].status = "pending" /\ inbox[y].attempts >= MaxAttempts
                 /\ Swept(gone)[y] = [inbox[y] EXCEPT !.status = "failed", !.lease = None]
BY DEF BInv, TypeOK, Swept, Abandoned, InboxRow

LEMMA SweepOnlyKeeps == ASSUME BInv, Remember, SweepOnly PROVE BInv'
<1>1. UNCHANGED <<access, binding, link>> /\ pc' = pc /\ job' = job
  BY DEF SweepOnly
<1>2. PICK gone \in SUBSET {y \in Update : Abandoned(inbox[y])} : inbox' = Swept(gone)
  BY DEF SweepOnly
<1>3. inbox' \in [Update -> InboxRow]
  BY <1>2, SweptRows
<1>4. ASSUME NEW y \in Update
      PROVE  \/ inbox'[y] = inbox[y]
             \/ /\ inbox[y].status = "pending" /\ inbox'[y].status = "failed"
                /\ inbox'[y].payload = inbox[y].payload
  <2>1. \/ inbox'[y] = inbox[y]
        \/ /\ inbox[y].status = "pending"
           /\ inbox'[y] = [inbox[y] EXCEPT !.status = "failed", !.lease = None]
    BY <1>2, SweptRows
  <2> QED
    BY <2>1 DEF BInv, TypeOK, InboxRow
<1>5. InboxMoves
  BY <1>4 DEF InboxMoves
<1> QED
  BY <1>1, <1>3, <1>5, QuietKeeps DEF BInv, TypeOK, Steps, Jobs

LEMMA ClaimKeeps ==
  ASSUME BInv, Remember, NEW w \in Worker, NEW x \in Update, ClaimUpdate(w, x)
  PROVE  BInv'
<1>1. /\ UNCHANGED <<access, binding, link>>
      /\ inbox[x].status = "pending" /\ inbox[x].attempts < MaxAttempts
      /\ pc' = [pc EXCEPT ![w] = "handle"]
      /\ job' = [job EXCEPT ![w] = [NoJob EXCEPT !.update = x]]
  BY DEF ClaimUpdate, Claimable
<1>2. PICK gone \in SUBSET {y \in Update : Abandoned(inbox[y])} :
        inbox' = [Swept(gone) EXCEPT ![x].lease = w, ![x].attempts = @ + 1]
  BY DEF ClaimUpdate
<1> DEFINE swept == Swept(gone)
<1>3. swept \in [Update -> InboxRow]
  BY SweptRows
<1>4. inbox \in [Update -> InboxRow] /\ inbox[x].attempts \in Nat /\ MaxAttempts \in Nat
  BY BindingAssumption DEF BInv, TypeOK, InboxRow
<1>5. swept[x] = inbox[x]
  <2>1. ~(inbox[x].attempts >= MaxAttempts)
    BY <1>1, <1>4
  <2> QED
    BY <2>1, SweptRows
<1>6. \A y \in Update : y # x => inbox'[y] = swept[y]
  <2> HIDE DEF swept
  <2> QED
    BY <1>2, <1>3 DEF swept
<1>7. inbox'[x] = [inbox[x] EXCEPT !.lease = w, !.attempts = @ + 1]
  BY <1>2, <1>3, <1>5
<1>8. /\ inbox'[x].status = "pending" /\ inbox'[x].payload = inbox[x].payload
      /\ inbox'[x].lease = w /\ w # None /\ inbox'[x] \in InboxRow
  <2>1. inbox[x] \in InboxRow /\ w # None
    BY <1>4, BindingAssumption
  <2>2. inbox[x].attempts + 1 \in 0 .. MaxAttempts
    BY <1>1, <1>4
  <2>3. inbox'[x] = [inbox[x] EXCEPT !.lease = w, !.attempts = inbox[x].attempts + 1]
    BY <1>7, <2>1 DEF InboxRow
  <2> QED
    BY <1>1, <2>1, <2>2, <2>3 DEF InboxRow
<1>9. inbox' \in [Update -> InboxRow]
  <2>1. inbox' = [y \in Update |-> inbox'[y]]
    BY <1>2, <1>3
  <2>2. \A y \in Update : inbox'[y] \in InboxRow
    BY <1>3, <1>6, <1>8
  <2> QED
    BY <2>1, <2>2
<1>10. InboxMoves
  <2> SUFFICES ASSUME NEW y \in Update
               PROVE  \/ inbox'[y] = inbox[y]
                      \/ /\ inbox[y].status = "pending" /\ inbox'[y].status # "absent"
                         /\ inbox'[y].payload = inbox[y].payload
                         /\ inbox'[y].status = "pending" =>
                              inbox'[y].attempts < MaxAttempts \/ inbox'[y].lease # None
                         /\ inbox'[y].status = "processed" => watch[y] = {}
    BY DEF InboxMoves
  <2>1. CASE y = x
    BY <1>1, <1>8, <2>1
  <2>2. CASE y # x
    <3>1. \/ inbox'[y] = inbox[y]
          \/ /\ inbox[y].status = "pending"
             /\ inbox'[y] = [inbox[y] EXCEPT !.status = "failed", !.lease = None]
      BY <1>6, <2>2, SweptRows
    <3> QED
      BY <1>4, <3>1 DEF InboxRow
  <2> QED
    BY <2>1, <2>2
<1>11. [NoJob EXCEPT !.update = x] \in Jobs
  BY DEF NoJob, NoLink, Jobs, LinkRow
<1>12. /\ pc' \in [Worker -> Steps] /\ job' \in [Worker -> Jobs]
       /\ \A v \in Worker : v # w => pc'[v] = pc[v] /\ job'[v] = job[v]
       /\ pc'[w] = "handle" /\ job'[w].update = x
  BY <1>1, <1>11 DEF BInv, TypeOK, Steps, Jobs, NoJob
<1>13. JobOK(w)'
  BY <1>8, <1>12 DEF JobOK
<1> QED
  BY <1>1, <1>9, <1>10, <1>12, <1>13, QuietKeeps

\* A worker that records an outcome, or drops it with its lease, is idle.
LEMMA RecordKeeps ==
  ASSUME BInv, Remember, NEW w \in Worker, NEW failed, NEW outcome, Record(w, failed, outcome),
         outcome \in InboxRow, outcome.status # "absent",
         outcome.payload = inbox[job[w].update].payload,
         HoldsLease(w) /\ outcome.status = "pending" => outcome.attempts < MaxAttempts,
         HoldsLease(w) /\ outcome.status = "processed" => ~failed
  PROVE  BInv'
<1> DEFINE x == job[w].update
<1>1. /\ UNCHANGED <<access, binding, link>>
      /\ pc[w] = "record" /\ job[w].failed = failed
      /\ inbox' = IF HoldsLease(w) THEN [inbox EXCEPT ![x] = outcome] ELSE inbox
      /\ pc' = [pc EXCEPT ![w] = "idle"] /\ job' = [job EXCEPT ![w] = NoJob]
  BY DEF Record, Goto
<1>2. x \in Update /\ (~failed => watch[x] = {})
  BY <1>1 DEF BInv, JobsOK, JobOK
<1>3. inbox' \in [Update -> InboxRow]
  BY <1>1, <1>2 DEF BInv, TypeOK
<1>4. InboxMoves
  <2>1. CASE HoldsLease(w)
    <3>1. /\ inbox'[x] = outcome /\ inbox[x].status = "pending"
          /\ \A y \in Update : y # x => inbox'[y] = inbox[y]
      BY <1>1, <1>2, <2>1 DEF BInv, TypeOK, HoldsLease
    <3> QED
      BY <1>2, <2>1, <3>1 DEF InboxMoves
  <2>2. CASE ~HoldsLease(w)
    BY <1>1, <2>2 DEF InboxMoves
  <2> QED
    BY <2>1, <2>2
<1>5. NoJob \in Jobs
  BY DEF NoJob, NoLink, Jobs, LinkRow
<1>6. /\ pc' \in [Worker -> Steps] /\ job' \in [Worker -> Jobs]
      /\ \A v \in Worker : v # w => pc'[v] = pc[v] /\ job'[v] = job[v]
      /\ pc'[w] = "idle"
  BY <1>1, <1>5 DEF BInv, TypeOK, Steps, Jobs
<1>7. JobOK(w)'
  BY <1>6 DEF JobOK
<1> QED
  BY <1>1, <1>3, <1>4, <1>6, <1>7, QuietKeeps

LEMMA RecordsKeep ==
  ASSUME BInv, Remember, NEW w \in Worker,
         RecordProcessed(w) \/ \E permanent \in BOOLEAN : RecordFailure(w, permanent)
  PROVE  BInv'
<1> DEFINE row == inbox[job[w].update]
<1>1. pc[w] = "record"
  BY DEF RecordProcessed, RecordFailure, Record
<1>2. job[w].update \in Update /\ row.status # "absent" /\ row \in InboxRow
  BY <1>1 DEF BInv, JobsOK, JobOK, TypeOK
<1>3. row.attempts \in Nat /\ MaxAttempts \in Nat
  BY <1>2, BindingAssumption DEF InboxRow
<1>4. CASE RecordProcessed(w)
  <2> DEFINE outcome == [row EXCEPT !.status = "processed", !.lease = None]
  <2>1. Record(w, FALSE, outcome)
    BY <1>4 DEF RecordProcessed
  <2>2. /\ outcome \in InboxRow /\ outcome.status = "processed"
        /\ outcome.payload = row.payload
    BY <1>2 DEF InboxRow
  <2> HIDE DEF outcome
  <2> QED
    BY <2>1, <2>2, RecordKeeps
<1>5. ASSUME NEW permanent \in BOOLEAN, RecordFailure(w, permanent) PROVE BInv'
  <2> DEFINE outcome == [row EXCEPT
        !.status = IF permanent \/ row.attempts >= MaxAttempts THEN "failed" ELSE @,
        !.lease = None]
  <2>1. Record(w, TRUE, outcome)
    BY <1>5 DEF RecordFailure
  <2>2. HoldsLease(w) => row.status = "pending"
    BY DEF HoldsLease
  <2>3. /\ outcome.attempts = row.attempts /\ outcome.payload = row.payload
        /\ outcome.status = IF permanent \/ row.attempts >= MaxAttempts
                            THEN "failed" ELSE row.status
        /\ outcome \in InboxRow
    BY <1>2 DEF InboxRow
  <2>4. /\ outcome.status # "absent"
        /\ HoldsLease(w) /\ outcome.status = "pending" => outcome.attempts < MaxAttempts
        /\ HoldsLease(w) /\ outcome.status = "processed" => ~TRUE
    BY <1>2, <1>3, <2>2, <2>3
  <2> HIDE DEF outcome
  <2> QED
    BY <2>1, <2>3, <2>4, RecordKeeps
<1> QED
  BY <1>4, <1>5

-------------------------------------------------------------------------------
\* The handlers.

\* What a worker that is not idle has been asked.
LEMMA AskedType ==
  ASSUME BInv, NEW w \in Worker, pc[w] # "idle"
  PROVE  /\ job[w].update \in Update /\ inbox[job[w].update].status # "absent"
         /\ Asked(w) \in Content /\ Asked(w) \in Payload /\ Asked(w).to # Asked(w).chat
         /\ Asked(w).chat \in Chat /\ Asked(w).to \in Chat \cup {None}
         /\ Asked(w).kind = "start" =>
              /\ Asked(w).link \in Link
              /\ watch[job[w].update] = {}
         /\ watch[job[w].update] \subseteq Concerned(binding, Asked(w))
<1>1. job[w].update \in Update /\ inbox[job[w].update].status # "absent"
  BY DEF BInv, JobsOK, JobOK
<1>2. /\ Asked(w) \in Content
      /\ watch[job[w].update] \subseteq Concerned(binding, Asked(w))
  BY <1>1 DEF BInv, UpdatesOK, Asked
<1>3. Asked(w) \in Payload /\ Asked(w).to # Asked(w).chat
  BY <1>2, BindingAssumption
<1>4. /\ Asked(w).chat \in Chat /\ Asked(w).to \in Chat \cup {None}
      /\ Asked(w).kind = "start" => Asked(w).link \in Link
  BY <1>3, BindingAssumption DEF Payload
<1>5. Asked(w).kind = "start" => Concerned(binding, Asked(w)) = {}
  BY DEF Concerned
<1> QED
  BY <1>1, <1>2, <1>3, <1>4, <1>5

\* A step of a handler: its worker's place and notes change, no update does.
LEMMA HandlerKeeps ==
  ASSUME BInv, Remember, access' = access, inbox' = inbox,
         LinkMoves, BindingMoves, BindingType', link' \in [Link -> LinkRow],
         NoAccessNoChat', NeverBound',
         NEW w \in Worker, NEW step \in Steps, NEW notes \in Jobs,
         pc' = [pc EXCEPT ![w] = step], job' = [job EXCEPT ![w] = notes], JobOK(w)'
  PROVE  BInv'
<1>1. /\ pc' \in [Worker -> Steps] /\ job' \in [Worker -> Jobs]
      /\ \A v \in Worker : v # w => pc'[v] = pc[v] /\ job'[v] = job[v]
  BY DEF BInv, TypeOK, Steps, Jobs
<1>2. InboxMoves /\ inbox' \in [Update -> InboxRow]
  BY DEF InboxMoves, BInv, TypeOK
<1> QED
  BY <1>1, <1>2, StepKeepsAll DEF BInv, TypeOK

\* What its worker may rely on after a step of a handler.
LEMMA AfterHandler ==
  ASSUME BInv, Remember, inbox' = inbox, NEW w \in Worker, pc[w] # "idle",
         NEW step \in Steps, NEW notes \in Jobs,
         pc' = [pc EXCEPT ![w] = step], job' = [job EXCEPT ![w] = notes],
         notes.update = job[w].update,
         step = "bind" => /\ Asked(w).kind = "start"
                          /\ notes.link.owner \in Owner /\ notes.link.state = "stored"
                          /\ link'[Asked(w).link] = notes.link,
         step = "owners" => /\ Asked(w).kind \in {"left", "migrate"}
                            /\ watch'[job[w].update] \subseteq notes.owners,
         step = "record" /\ ~notes.failed => watch'[job[w].update] = {}
  PROVE  JobOK(w)'
<1>1. pc'[w] = step /\ job'[w] = notes
  BY DEF BInv, TypeOK
<1>2. job[w].update \in Update /\ inbox[job[w].update].status # "absent"
  BY AskedType
<1>3. Asked(w)' = Asked(w)
  BY <1>1 DEF Asked
<1> QED
  BY <1>1, <1>2, <1>3 DEF JobOK

\* Nobody is watched in the wake of a watch that is empty, or that only shrinks.
LEMMA WatchAfter ==
  ASSUME BInv, Remember, inbox' = inbox, NEW w \in Worker, pc[w] # "idle"
  PROVE  watch'[job[w].update] \subseteq {o \in watch[job[w].update] : Kept(o)}
<1>1. job[w].update \in Update /\ inbox[job[w].update].status # "absent"
  BY AskedType
<1>2. InboxMoves
  BY DEF InboxMoves
<1> QED
  BY <1>1, <1>2, WatchShrinks

\* A step that changes only its worker.
LEMMA LocalKeeps ==
  ASSUME BInv, Remember, UNCHANGED <<access, binding, link, inbox>>,
         NEW w \in Worker, NEW step \in Steps, NEW notes \in Jobs,
         pc' = [pc EXCEPT ![w] = step], job' = [job EXCEPT ![w] = notes], JobOK(w)'
  PROVE  BInv'
<1>1. LinkMoves /\ BindingMoves /\ BindingType' /\ NeverBound' /\ NoAccessNoChat'
  BY DEF LinkMoves, BindingMoves, BindingType, BInv, TypeOK, NeverBound, NoAccessNoChat,
         Stored
<1> QED
  BY <1>1, HandlerKeeps DEF BInv, TypeOK

\* A reply ends the handling of a link.
LEMMA ReplyIsOK ==
  ASSUME BInv, Remember, inbox' = inbox, NEW w \in Worker, pc[w] # "idle",
         Asked(w).kind = "start", Reply(w)
  PROVE  /\ JobOK(w)'
         /\ \E notes \in Jobs : job' = [job EXCEPT ![w] = notes]
         /\ pc' = [pc EXCEPT ![w] = "record"]
<1>1. PICK lost \in BOOLEAN : job' = [job EXCEPT ![w].failed = lost]
  BY DEF Reply
<1> DEFINE notes == [job[w] EXCEPT !.failed = lost]
<1>2. /\ notes \in Jobs /\ notes.update = job[w].update
      /\ job' = [job EXCEPT ![w] = notes]
  BY <1>1 DEF BInv, TypeOK, Jobs
<1>3. pc' = [pc EXCEPT ![w] = "record"] /\ "record" \in Steps
  BY DEF Reply, Goto, Steps
<1>4. watch'[job[w].update] = {}
  BY AskedType, WatchAfter
<1> HIDE DEF notes
<1>5. JobOK(w)'
  BY <1>2, <1>3, <1>4, AfterHandler
<1> QED
  BY <1>2, <1>3, <1>5

LEMMA ReadLinkKeeps ==
  ASSUME BInv, Remember, NEW w \in Worker, ReadLink(w) PROVE BInv'
<1> DEFINE t == Asked(w).link
<1>1. /\ pc[w] = "handle" /\ Asked(w).kind = "start"
      /\ UNCHANGED <<access, binding, link, inbox>>
      /\ \/ /\ link[t].state = "stored" /\ pc' = [pc EXCEPT ![w] = "bind"]
            /\ job' = [job EXCEPT ![w].link = link[t]]
         \/ Reply(w)
  BY DEF ReadLink, Stored, Goto
<1>2. t \in Link
  BY <1>1, AskedType
<1>3. CASE Reply(w)
  <2>1. "record" \in Steps /\ pc[w] # "idle"
    BY <1>1 DEF Steps
  <2> QED
    BY <1>1, <1>3, <2>1, ReplyIsOK, LocalKeeps
<1>4. CASE /\ link[t].state = "stored" /\ pc' = [pc EXCEPT ![w] = "bind"]
           /\ job' = [job EXCEPT ![w].link = link[t]]
  <2> DEFINE notes == [job[w] EXCEPT !.link = link[t]]
  <2>1. link[t] \in LinkRow /\ link[t].owner \in Owner
    BY <1>2, <1>4 DEF BInv, TypeOK, LinksOK
  <2>2. /\ notes \in Jobs /\ notes.update = job[w].update /\ notes.link = link[t]
        /\ job' = [job EXCEPT ![w] = notes]
    BY <1>4, <2>1 DEF BInv, TypeOK, Jobs
  <2>3. "bind" \in Steps
    BY DEF Steps
  <2> HIDE DEF notes
  <2>4. JobOK(w)'
    BY <1>1, <1>4, <2>1, <2>2, <2>3, AfterHandler
  <2> QED
    BY <1>1, <1>4, <2>2, <2>3, <2>4, LocalKeeps
<1> QED
  BY <1>1, <1>3, <1>4

LEMMA BindChatKeeps ==
  ASSUME BInv, Remember, NEW w \in Worker, BindChat(w) PROVE BInv'
<1> DEFINE t == Asked(w).link
           o == job[w].link.owner
<1>1. /\ pc[w] = "bind" /\ access' = access /\ inbox' = inbox /\ job' = job
      /\ pc' = [pc EXCEPT ![w] = "record"]
      /\ Bind(o, Asked(w).chat, t) /\ link' = Without({o})
      /\ access[UserOf[o]] = "active"
  BY DEF BindChat, Usable, Goto
<1>2. o \in Owner /\ Asked(w).kind = "start"
  BY <1>1 DEF BInv, JobsOK, JobOK
<1>3. t \in Link /\ Asked(w).chat \in Chat /\ watch[job[w].update] = {}
  BY <1>1, <1>2, AskedType
<1>4. /\ BindingType' /\ BindingMoves
      /\ \A p \in Owner : p # o => binding'[p] = binding[p]
      /\ binding'[o].version # 0
  BY <1>1, <1>2, <1>3, BindEffect DEF BInv
<1>5. /\ LinkMoves /\ link' \in [Link -> LinkRow]
      /\ \A u \in Link : link'[u].state = "stored" => link'[u] = link[u]
  BY <1>1, WithoutMoves DEF BInv
<1>6. NeverBound'
  BY <1>4 DEF BInv, NeverBound
<1>7. NoAccessNoChat'
  BY <1>1, <1>4, <1>5, AccessKept
<1>8. /\ job[w] \in Jobs /\ "record" \in Steps
      /\ job' = [job EXCEPT ![w] = job[w]]
  BY <1>1 DEF BInv, TypeOK, Jobs, Steps
<1>9. watch'[job[w].update] = {}
  BY <1>1, <1>3, WatchAfter
<1>10. JobOK(w)'
  BY <1>1, <1>8, <1>9, AfterHandler
<1> QED
  BY <1>1, <1>4, <1>5, <1>6, <1>7, <1>8, <1>10, HandlerKeeps

LEMMA RefuseLinkKeeps ==
  ASSUME BInv, Remember, NEW w \in Worker, RefuseLink(w) PROVE BInv'
<1> DEFINE t == Asked(w).link
<1>1. /\ pc[w] = "bind" /\ UNCHANGED <<access, binding, inbox>> /\ Reply(w)
      /\ link' = link \/ (link[t].state = "stored" /\ link' = [link EXCEPT ![t] = Gone])
  BY DEF RefuseLink, Stored
<1>2. Asked(w).kind = "start"
  BY <1>1 DEF BInv, JobsOK, JobOK
<1>3. t \in Link
  BY <1>1, <1>2, AskedType
<1>4. Gone \in LinkRow /\ Gone.state = "gone"
  BY DEF Gone, NoLink, LinkRow
<1>5. /\ link' \in [Link -> LinkRow] /\ LinkMoves
      /\ \A u \in Link : link'[u].state = "stored" => link'[u] = link[u]
  BY <1>1, <1>3, <1>4 DEF BInv, TypeOK, LinkMoves
<1>6. BindingMoves /\ BindingType' /\ NeverBound'
  BY <1>1 DEF BindingMoves, BindingType, BInv, TypeOK, NeverBound
<1>7. NoAccessNoChat'
  BY <1>1, <1>5, AccessKept
<1>8. "record" \in Steps /\ pc[w] # "idle"
  BY <1>1 DEF Steps
<1> QED
  BY <1>1, <1>2, <1>5, <1>6, <1>7, <1>8, ReplyIsOK, HandlerKeeps

LEMMA ReadOwnersKeeps ==
  ASSUME BInv, Remember, NEW w \in Worker, ReadOwners(w) PROVE BInv'
<1> DEFINE notes == [job[w] EXCEPT !.owners = Concerned(binding, Asked(w))]
<1>1. /\ pc[w] = "handle" /\ Asked(w).kind \in {"left", "migrate"}
      /\ UNCHANGED <<access, binding, link, inbox>>
      /\ job' = [job EXCEPT ![w].owners = Concerned(binding, Asked(w))]
      /\ pc' = [pc EXCEPT ![w] = "owners"]
  BY DEF ReadOwners, Goto
<1>2. Concerned(binding, Asked(w)) \subseteq Owner
  BY DEF Concerned
<1>3. /\ notes \in Jobs /\ notes.update = job[w].update
      /\ notes.owners = Concerned(binding, Asked(w))
      /\ job' = [job EXCEPT ![w] = notes]
  BY <1>1, <1>2 DEF BInv, TypeOK, Jobs
<1>4. watch'[job[w].update] \subseteq Concerned(binding, Asked(w))
  BY <1>1, AskedType, WatchAfter
<1>5. "owners" \in Steps
  BY DEF Steps
<1> HIDE DEF notes
<1>6. watch'[job[w].update] \subseteq notes.owners /\ pc[w] # "idle"
  BY <1>1, <1>3, <1>4
<1>7. JobOK(w)'
  BY <1>1, <1>3, <1>5, <1>6, AfterHandler
<1> QED
  BY <1>1, <1>3, <1>5, <1>7, LocalKeeps

\* The owner that is changed is not watched any more, or never was.
LEMMA ChangeOwnerKeeps ==
  ASSUME BInv, Remember, NEW w \in Worker, NEW o \in Owner, ChangeOwner(w, o) PROVE BInv'
<1> DEFINE notes == [job[w] EXCEPT !.owners = job[w].owners \ {o}]
           x == job[w].update
<1>1. /\ pc[w] = "owners" /\ UNCHANGED <<access, link, inbox, pc>>
      /\ job' = [job EXCEPT ![w].owners = @ \ {o}]
      /\ IF binding[o].chat # Asked(w).chat
         THEN UNCHANGED binding
         ELSE Bind(o, Asked(w).to, binding[o].by)
  BY DEF ChangeOwner
<1>2. /\ Asked(w).kind \in {"left", "migrate"}
      /\ watch[x] \subseteq job[w].owners
  BY <1>1 DEF BInv, JobsOK, JobOK
<1>3. /\ Asked(w).to # Asked(w).chat /\ Asked(w).chat \in Chat
      /\ Asked(w).to \in Chat \cup {None}
      /\ watch[x] \subseteq Concerned(binding, Asked(w))
      /\ watch'[x] \subseteq {p \in watch[x] : Kept(p)}
  BY <1>1, AskedType, WatchAfter
<1>4. /\ notes \in Jobs /\ notes.update = x /\ notes.owners = job[w].owners \ {o}
      /\ job' = [job EXCEPT ![w] = notes]
  BY <1>1 DEF BInv, TypeOK, Jobs
<1>5. /\ pc' = [pc EXCEPT ![w] = "owners"] /\ "owners" \in Steps
  BY <1>1 DEF BInv, TypeOK, Steps
<1>6. CASE binding[o].chat # Asked(w).chat
  <2>1. o \notin watch[x]
    BY <1>3, <1>6 DEF Concerned
  <2>2. watch'[x] \subseteq notes.owners
    BY <1>2, <1>3, <1>4, <2>1
  <2> HIDE DEF notes
  <2>3. JobOK(w)'
    BY <1>1, <1>2, <1>4, <1>5, <2>2, AfterHandler
  <2> QED
    BY <1>1, <1>4, <1>5, <1>6, <2>3, LocalKeeps
<1>7. CASE binding[o].chat = Asked(w).chat
  <2>1. binding[o].by \in Link \cup {None}
    BY DEF BInv, TypeOK, BindingRow
  <2>2. /\ BindingType' /\ BindingMoves
        /\ \A p \in Owner : p # o => binding'[p] = binding[p]
        /\ binding'[o].chat = Asked(w).to /\ binding'[o].version # 0
    BY <1>1, <1>3, <1>7, <2>1, BindEffect DEF BInv
  <2>3. ~Kept(o)
    BY <1>3, <1>7, <2>2 DEF Kept
  <2>4. watch'[x] \subseteq notes.owners
    BY <1>2, <1>3, <1>4, <2>3
  <2>5. LinkMoves /\ NeverBound' /\ link' \in [Link -> LinkRow]
    BY <1>1, <2>2 DEF BInv, TypeOK, LinkMoves, NeverBound
  <2>6. access[UserOf[o]] = "active"
    <3>1. binding[o].chat # None
      BY <1>3, <1>7, BindingAssumption
    <3> QED
      BY <3>1 DEF BInv, NoAccessNoChat
  <2>7. NoAccessNoChat'
    BY <1>1, <2>2, <2>6, AccessKept
  <2> HIDE DEF notes
  <2>8. JobOK(w)'
    BY <1>1, <1>2, <1>4, <1>5, <2>4, AfterHandler
  <2> QED
    BY <1>1, <1>4, <1>5, <2>2, <2>5, <2>7, <2>8, HandlerKeeps
<1> QED
  BY <1>6, <1>7

LEMMA OwnersDoneKeeps ==
  ASSUME BInv, Remember, NEW w \in Worker, OwnersDone(w) PROVE BInv'
<1>1. /\ pc[w] = "owners" /\ job[w].owners = {} /\ job' = job
      /\ UNCHANGED <<access, binding, link, inbox>> /\ pc' = [pc EXCEPT ![w] = "record"]
  BY DEF OwnersDone, Goto
<1>2. watch[job[w].update] \subseteq job[w].owners
  BY <1>1 DEF BInv, JobsOK, JobOK
<1>3. watch'[job[w].update] = {}
  BY <1>1, <1>2, WatchAfter
<1>4. /\ job[w] \in Jobs /\ job' = [job EXCEPT ![w] = job[w]] /\ "record" \in Steps
  BY <1>1 DEF BInv, TypeOK, Jobs, Steps
<1>5. JobOK(w)'
  BY <1>1, <1>3, <1>4, AfterHandler
<1> QED
  BY <1>1, <1>4, <1>5, LocalKeeps

LEMMA HandlerFailsKeeps ==
  ASSUME BInv, Remember, NEW w \in Worker, HandlerFails(w) PROVE BInv'
<1> DEFINE notes == [job[w] EXCEPT !.failed = TRUE]
<1>1. /\ pc[w] \in {"handle", "bind", "owners"} /\ job' = [job EXCEPT ![w].failed = TRUE]
      /\ UNCHANGED <<access, binding, link, inbox>> /\ pc' = [pc EXCEPT ![w] = "record"]
  BY DEF HandlerFails, Goto
<1>2. /\ notes \in Jobs /\ notes.update = job[w].update /\ notes.failed = TRUE
      /\ job' = [job EXCEPT ![w] = notes] /\ "record" \in Steps
  BY <1>1 DEF BInv, TypeOK, Jobs, Steps
<1> HIDE DEF notes
<1>3. JobOK(w)'
  BY <1>1, <1>2, AfterHandler
<1> QED
  BY <1>1, <1>2, <1>3, LocalKeeps

LEMMA CrashKeeps ==
  ASSUME BInv, Remember, NEW w \in Worker, Crash(w) PROVE BInv'
<1>1. /\ UNCHANGED <<access, binding, link, inbox>> /\ pc' = [pc EXCEPT ![w] = "idle"]
      /\ job' = [job EXCEPT ![w] = NoJob]
  BY DEF Crash, Goto
<1>2. NoJob \in Jobs /\ "idle" \in Steps
  BY DEF NoJob, NoLink, Jobs, LinkRow, Steps
<1>3. JobOK(w)'
  BY <1>1 DEF JobOK, BInv, TypeOK
<1> QED
  BY <1>1, <1>2, <1>3, LocalKeeps

-------------------------------------------------------------------------------
\* The invariant.

LEMMA InitKeeps == Init => BInv
<1> SUFFICES ASSUME Init PROVE BInv
  OBVIOUS
<1>1. /\ access = [u \in User |-> "active"]
      /\ \A o \in Owner : binding[o] = IF BoundTo[o] = None THEN Unbound
                                       ELSE [chat |-> BoundTo[o], version |-> 1, by |-> None]
      /\ \A t \in Link : link[t] = NoLink
      /\ \A x \in Update :
           \/ inbox[x] = NoUpdate
           \/ \E asked \in Content :
                inbox[x] = [NoUpdate EXCEPT !.status = "pending", !.payload = asked,
                                            !.attempts = MaxAttempts - 1]
      /\ pc = [w \in Worker |-> "idle"] /\ job = [w \in Worker |-> NoJob]
      /\ fresh = {} /\ watch = [x \in Update |-> Concerned(binding, inbox[x].payload)]
  BY DEF Init
<1>2. /\ MaxAttempts \in Nat \ {0}
      /\ \A o \in Owner : UserOf[o] \in User
      /\ \A o \in Owner : MaxVersion[o] \in Nat \ {0}
      /\ \A o \in Owner : BoundTo[o] \in Chat \cup {None}
  BY BindingAssumption
<1>3. binding \in [Owner -> BindingRow] /\ NeverBound
      /\ \A o \in Owner : binding[o].version <= MaxVersion[o]
  <2>1. binding = [o \in Owner |-> binding[o]]
    BY DEF Init
  <2>2. \A o \in Owner : /\ binding[o] \in BindingRow
                         /\ binding[o].version <= MaxVersion[o]
                         /\ binding[o].version = 0 => binding[o].chat = None
    <3> SUFFICES ASSUME NEW o \in Owner
                 PROVE  /\ binding[o] \in BindingRow
                        /\ binding[o].version <= MaxVersion[o]
                        /\ binding[o].version = 0 => binding[o].chat = None
      OBVIOUS
    <3>1. CASE BoundTo[o] = None
      <4>1. binding[o] = [chat |-> None, version |-> 0, by |-> None]
        BY <1>1, <3>1 DEF Unbound
      <4> QED
        BY <1>2, <4>1 DEF BindingRow
    <3>2. CASE BoundTo[o] # None
      <4>1. binding[o] = [chat |-> BoundTo[o], version |-> 1, by |-> None]
        BY <1>1, <3>2
      <4> QED
        BY <1>2, <4>1 DEF BindingRow
    <3> QED
      BY <3>1, <3>2
  <2> QED
    BY <2>1, <2>2 DEF NeverBound
<1>4. link \in [Link -> LinkRow] /\ NoLink.state = "unused"
  BY DEF Init, NoLink, LinkRow
<1>5. \A x \in Update :
        /\ inbox[x] \in InboxRow
        /\ inbox[x].status \in {"absent", "pending"}
        /\ inbox[x].status = "absent" => inbox[x] = NoUpdate
        /\ inbox[x].status # "absent" => inbox[x].payload \in Content
        /\ inbox[x].status = "pending" => inbox[x].attempts < MaxAttempts
  <2> SUFFICES ASSUME NEW x \in Update
               PROVE  /\ inbox[x] \in InboxRow
                      /\ inbox[x].status \in {"absent", "pending"}
                      /\ inbox[x].status = "absent" => inbox[x] = NoUpdate
                      /\ inbox[x].status # "absent" => inbox[x].payload \in Content
                      /\ inbox[x].status = "pending" => inbox[x].attempts < MaxAttempts
    OBVIOUS
  <2>1. CASE inbox[x] = NoUpdate
    BY <1>2, <2>1 DEF NoUpdate, InboxRow
  <2>2. ASSUME NEW asked \in Content,
               inbox[x] = [NoUpdate EXCEPT !.status = "pending", !.payload = asked,
                                           !.attempts = MaxAttempts - 1]
        PROVE  /\ inbox[x] \in InboxRow
               /\ inbox[x].status = "pending" /\ inbox[x].payload \in Content
               /\ inbox[x].attempts < MaxAttempts
    <3>1. inbox[x] = [status |-> "pending", payload |-> asked,
                      attempts |-> MaxAttempts - 1, lease |-> None]
      BY <2>2 DEF NoUpdate
    <3>2. MaxAttempts - 1 \in 0 .. MaxAttempts /\ MaxAttempts - 1 < MaxAttempts
      BY <1>2
    <3> QED
      BY <3>1, <3>2 DEF InboxRow
  <2> QED
    BY <1>1, <2>1, <2>2
<1>6. inbox \in [Update -> InboxRow]
  <2>1. inbox = [x \in Update |-> inbox[x]]
    BY DEF Init
  <2> QED
    BY <1>5, <2>1
<1>7. NoJob \in Jobs
  BY DEF NoJob, NoLink, Jobs, LinkRow
<1>8. TypeOK
  BY <1>1, <1>3, <1>4, <1>6, <1>7 DEF TypeOK, Jobs, Concerned
<1>9. NoAccessNoChat /\ LinksOK
  BY <1>1, <1>2, <1>4 DEF NoAccessNoChat, LinksOK, Stored
<1>10. UpdatesOK /\ NoUpdateStuck /\ ProcessedMeansDone
  BY <1>1, <1>5 DEF UpdatesOK, NoUpdateStuck, ProcessedMeansDone, Claimable
<1>11. JobsOK
  BY <1>1 DEF JobsOK, JobOK
<1> QED
  BY <1>3, <1>8, <1>9, <1>10, <1>11 DEF BInv

LEMMA StutterKeeps == ASSUME BInv, UNCHANGED vars PROVE BInv'
<1>1. /\ access' = access /\ binding' = binding /\ link' = link /\ inbox' = inbox
      /\ pc' = pc /\ job' = job /\ fresh' = fresh /\ watch' = watch
  BY DEF vars
<1>2. TypeOK' /\ NoAccessNoChat' /\ NeverBound' /\ LinksOK'
  BY <1>1 DEF BInv, TypeOK, NoAccessNoChat, NeverBound, LinksOK, Stored
<1>3. UpdatesOK' /\ NoUpdateStuck' /\ ProcessedMeansDone'
  BY <1>1 DEF BInv, UpdatesOK, NoUpdateStuck, ProcessedMeansDone, Claimable, Abandoned
<1>4. JobsOK'
  BY <1>1 DEF BInv, JobsOK, JobOK, Asked
<1> QED
  BY <1>2, <1>3, <1>4 DEF BInv

LEMMA StepKeeps == BInv /\ [Next]_vars => BInv'
<1> SUFFICES ASSUME BInv, [Next]_vars PROVE BInv'
  OBVIOUS
<1>1. CASE UNCHANGED vars
  BY <1>1, StutterKeeps
<1>2. ASSUME Remember, NEW o \in Owner,
             \/ \E t \in Link : CreateLink(o, t)
             \/ Unlink(o) \/ DeactivateRecipient(o)
      PROVE  BInv'
  BY <1>2, CreateLinkKeeps, UnlinkKeeps, DeactivateRecipientKeeps
<1>3. ASSUME Remember, NEW u \in User,
             DeleteUser(u) \/ \E a \in {"active", "inactive"} : UpdateUser(u, a)
      PROVE  BInv'
  BY <1>3, DeleteUserKeeps, UpdateUserKeeps
<1>4. ASSUME Remember, SweepOnly \/ \E x \in Update, payload \in Content :
                                      PersistUpdate(x, payload)
      PROVE  BInv'
  BY <1>4, SweepOnlyKeeps, PersistUpdateKeeps
<1>5. ASSUME Remember, NEW w \in Worker,
             (\E x \in Update : ClaimUpdate(w, x)) \/ Handle(w) \/ Crash(w)
      PROVE  BInv'
  <2>1. CASE Handle(w)
    BY <1>5, <2>1, ReadLinkKeeps, BindChatKeeps, RefuseLinkKeeps, ReadOwnersKeeps,
       ChangeOwnerKeeps, OwnersDoneKeeps, HandlerFailsKeeps, RecordsKeep DEF Handle
  <2> QED
    BY <1>5, <2>1, ClaimKeeps, CrashKeeps
<1>6. CASE Next
  BY <1>2, <1>3, <1>4, <1>5, <1>6, Zenon DEF Next, Step
<1> QED
  BY <1>1, <1>6

LEMMA Invariance == Spec => []BInv
<1> QED
  BY InitKeeps, StepKeeps, PTL DEF Spec

\* Every variable keeps its type, and whoever handles an update has one.
THEOREM BindingTypeCorrect == Spec => []TypeOK
<1>1. BInv => TypeOK
  BY DEF BInv
<1> QED
  BY <1>1, Invariance, PTL

\* No chat and no link of a user without access: what a handler read before it
\* took the row does not bind (UsersService.update against onStart, createUserLink
\* and createGroupLink).
THEOREM WithoutAccessNoChat == Spec => []NoAccessNoChat
<1>1. BInv => NoAccessNoChat
  BY DEF BInv
<1> QED
  BY <1>1, Invariance, PTL

\* An update is recorded as processed only when every owner that had the chat as
\* it arrived was changed (deactivateChat, migrateChat, processInboxRow).
THEOREM ProcessedUpdatesAreDone == Spec => []ProcessedMeansDone
<1>1. BInv => ProcessedMeansDone
  BY DEF BInv
<1> QED
  BY <1>1, Invariance, PTL

\* A pending update can be claimed or will be given up (claimInboxBatch,
\* processInboxRow).
THEOREM UpdatesNeverStick == Spec => []NoUpdateStuck
<1>1. BInv => NoUpdateStuck
  BY DEF BInv
<1> QED
  BY <1>1, Invariance, PTL

\* Only the transaction of its own worker ends the use of a link with a binding.
LEMMA OnlyBindChat ==
  ASSUME BInv, Step, NEW w \in Worker, pc[w] = "bind", pc'[w] # "bind", binding' # binding
  PROVE  BindChat(w)
<1>1. pc \in [Worker -> Steps] /\ pc' # pc
  BY DEF BInv, TypeOK, Steps
<1>2. ASSUME NEW o \in Owner, NEW t \in Link, CreateLink(o, t) PROVE FALSE
  BY <1>1, <1>2 DEF CreateLink, Workers
<1>3. ASSUME NEW o \in Owner, Unlink(o) \/ DeactivateRecipient(o) PROVE FALSE
  BY <1>1, <1>3 DEF Unlink, DeactivateRecipient, Workers
<1>4. ASSUME NEW u \in User, DeleteUser(u) \/ \E a \in {"active", "inactive"} : UpdateUser(u, a)
      PROVE  FALSE
  BY <1>1, <1>4 DEF DeleteUser, UpdateUser, Workers
<1>5. ASSUME NEW x \in Update, NEW payload \in Content, PersistUpdate(x, payload) PROVE FALSE
  BY <1>5 DEF PersistUpdate
<1>6. ~SweepOnly
  BY DEF SweepOnly
<1>7. ASSUME NEW v \in Worker, NEW x \in Update, ClaimUpdate(v, x) PROVE FALSE
  BY <1>7 DEF ClaimUpdate
<1>8. ASSUME NEW v \in Worker, Crash(v) PROVE FALSE
  BY <1>8 DEF Crash
<1>9. ASSUME NEW v \in Worker, Handle(v) PROVE BindChat(w)
  <2>1. CASE BindChat(v)
    <3>1. pc' = [pc EXCEPT ![v] = "record"]
      BY <2>1 DEF BindChat, Goto
    <3>2. v = w
      BY <1>1, <3>1
    <3> QED
      BY <2>1, <3>2
  <2>2. ASSUME NEW o \in Owner, ChangeOwner(v, o) PROVE FALSE
    BY <1>1, <2>2 DEF ChangeOwner
  <2>3. CASE ReadLink(v) \/ RefuseLink(v) \/ ReadOwners(v) \/ OwnersDone(v) \/ HandlerFails(v)
    BY <2>3 DEF ReadLink, RefuseLink, ReadOwners, OwnersDone, HandlerFails
  <2>4. CASE RecordProcessed(v) \/ \E permanent \in BOOLEAN : RecordFailure(v, permanent)
    BY <2>4 DEF RecordProcessed, RecordFailure, Record
  <2> QED
    BY <1>9, <2>1, <2>2, <2>3, <2>4 DEF Handle
<1> QED
  BY <1>2, <1>3, <1>4, <1>5, <1>6, <1>7, <1>8, <1>9, Zenon DEF Step

LEMMA BindsFreshLinks ==
  ASSUME BInv, NEW w \in Worker, BindChat(w) PROVE Asked(w).link \in fresh
<1> DEFINE t == Asked(w).link
<1>1. /\ pc[w] = "bind" /\ link[t].state = "stored"
      /\ binding[job[w].link.owner].version = job[w].link.version
  BY DEF BindChat, Usable, Stored
<1>2. Asked(w).kind = "start" /\ link[t] = job[w].link
  BY <1>1 DEF BInv, JobsOK, JobOK
<1>3. t \in Link
  BY <1>1, <1>2, AskedType
<1> QED
  BY <1>1, <1>2, <1>3 DEF BInv, LinksOK

\* A link that binds was issued since its owner's chat last changed: its version
\* is compared under the lock, where the version it names is the owner's only if
\* no binding was made or dropped in between (onStart).
THEOREM OnlyFreshLinksBind == Spec => FreshLinkOnly
<1>1. BInv /\ [Next]_vars =>
        [\A w \in Worker :
           pc[w] = "bind" /\ pc'[w] # "bind" /\ binding' # binding
             => Asked(w).link \in fresh]_vars
  BY OnlyBindChat, BindsFreshLinks DEF Next
<1> QED
  BY <1>1, Invariance, PTL DEF Spec, FreshLinkOnly

===============================================================================
