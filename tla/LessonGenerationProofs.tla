------------------------ MODULE LessonGenerationProofs ------------------------
(***************************************************************************)
(* Proofs about LessonGeneration for any number of templates, enrollments, *)
(* lessons and requests, and for all calendars.                            *)
(***************************************************************************)
EXTENDS LessonGeneration, TLAPS

\* No two lessons of a template have one time: the unique index, kept by every
\* operation.
UniqueKeys ==
    \A l, m \in Lesson :
        /\ Exists(lesson[l]) /\ Exists(lesson[m])
        /\ lesson[l].template # None
        /\ Key(lesson[l]) = Key(lesson[m])
        => l = m

\* What a request at a step may rely on: the enrollments it is about to create
\* under are those it holds, and what it will not insert is there already,
\* unless it was taken away since.
StepOK(step, asked, held, gone, lessons) ==
    /\ step \in {"existing", "create"} => \A k \in asked.keys : EnrollmentOf[k[1]] \in held
    /\ step = "existing" => asked.keys = asked.plan
    /\ step = "create" =>
         \A k \in asked.plan \ gone : k \in asked.keys \/ k \in Occupied(lessons)
    /\ step \in {"share", "insert"} =>
         /\ asked.enrollment \in Enrollment
         /\ asked.op = "template" => /\ asked.template \in Template
                                     /\ asked.enrollment = EnrollmentOf[asked.template]
    /\ step = "insert" => asked.enrollment \in held
    /\ step \in {"slots", "deactivate"} => asked.template \in Template

RequestsOK ==
    \A q \in Request : StepOK(pc[q], req[q], shared[q], lost[q], lesson)

GInv == TypeOK /\ UniqueKeys /\ RequestsOK

Steps == {"idle", "templates", "enrollments", "existing", "create", "share", "insert",
          "slots", "deactivate"}

-------------------------------------------------------------------------------
\* Lemmas about rows and fields.

\* The values that mean nothing have their types.
LEMMA NullTypes ==
  /\ 0 \in Time
  /\ NoTemplate \in TemplateRow
  /\ NoLesson \in LessonRow
  /\ NoPatch \in Body
  /\ NoRequest \in Asked
<1>1. Now \in Nat /\ MaxEdits \in Nat \ {0}
  BY GenerationAssumption
<1>2. 0 \in Time /\ 0 \in 0 .. MaxEdits
  BY <1>1 DEF Time
<1>3. NoTemplate \in TemplateRow
  BY <1>2 DEF NoTemplate, TemplateRow
<1>4. NoLesson \in LessonRow
  BY <1>2 DEF NoLesson, LessonRow
<1>5. NoPatch \in Body
  BY DEF NoPatch, Body, Field
<1>6. NoRequest \in Asked
  BY <1>2, <1>5 DEF NoRequest, Asked
<1> QED
  BY <1>2, <1>3, <1>4, <1>5, <1>6

\* The value a field gives, or the one there is.
LEMMA GivenType ==
  ASSUME NEW S, NEW T, S \subseteq T, NEW field \in Field(S), NEW current \in T
  PROVE  Given(field, current) \in T
<1>1. CASE field = {}
  BY <1>1 DEF Given
<1>2. CASE field # {}
  <2>1. PICK v \in S : field = {v}
    BY <1>2 DEF Field
  <2>2. Given(field, current) = v
    BY <2>1 DEF Given
  <2> QED
    BY <2>1, <2>2
<1> QED
  BY <1>1, <1>2

\* A key is occupied when a lesson has it.
LEMMA OccupiedBy ==
  ASSUME NEW lessons, NEW k
  PROVE  k \in Occupied(lessons)
           <=> \E l \in Lesson : Exists(lessons[l]) /\ Key(lessons[l]) = k
BY DEF Occupied

\* A request goes on relying on what it did when lessons only join.
LEMMA StepKept ==
  ASSUME NEW step, NEW asked, NEW held, NEW gone, NEW lessons, NEW more,
         StepOK(step, asked, held, gone, lessons),
         Occupied(lessons) \subseteq Occupied(more)
  PROVE  StepOK(step, asked, held, gone, more)
BY DEF StepOK

\* An idle request relies on nothing.
LEMMA IdleOK ==
  ASSUME NEW asked, NEW held, NEW gone, NEW lessons
  PROVE  StepOK("idle", asked, held, gone, lessons)
BY DEF StepOK

-------------------------------------------------------------------------------
\* Lemmas about the ends of a request.

\* A request that begins, at a step before it holds anything, spoils nothing.
LEMMA BeginKeeps ==
  ASSUME GInv, NEW r \in Request, NEW asked \in Asked, NEW step \in Steps,
         step \in {"templates", "share", "slots", "deactivate"},
         StepOK(step, asked, {}, {}, lesson),
         Begin(r, asked, step)
  PROVE  GInv'
<1> USE DEF GInv
<1>1. shared[r] \subseteq Enrollment /\ pc[r] = "idle"
  BY DEF TypeOK, Begin
<1>2. TypeOK'
  <2>1. /\ enrollment' = enrollment /\ template' = template /\ lesson' = lesson
        /\ settings' = settings /\ shared' = shared
    BY DEF Begin
  <2>2. pc' \in [Request -> Steps] /\ req' \in [Request -> Asked]
    BY DEF Begin, TypeOK, Steps
  <2>3. lost' \in [Request -> SUBSET (Template \X Time)]
    BY DEF Begin, TypeOK
  <2> QED
    BY <2>1, <2>2, <2>3 DEF TypeOK, Steps, Active
<1>3. UniqueKeys'
  BY DEF Begin, UniqueKeys
<1>4. RequestsOK'
  <2> SUFFICES ASSUME NEW q \in Request
               PROVE  StepOK(pc'[q], req'[q], shared'[q], lost'[q], lesson')
    BY DEF RequestsOK
  <2>1. CASE q = r
    <3>1. pc'[q] = step /\ req'[q] = asked /\ lesson' = lesson
      BY <2>1 DEF Begin, TypeOK
    <3> QED
      BY <3>1 DEF StepOK
  <2>2. CASE q # r
    <3>1. /\ pc'[q] = pc[q] /\ req'[q] = req[q] /\ shared'[q] = shared[q]
          /\ lost'[q] = lost[q] /\ lesson' = lesson
      <4>1. pc'[q] = pc[q] /\ req'[q] = req[q]
        BY <2>2 DEF Begin, TypeOK
      <4>2. shared' = shared /\ lost'[q] = lost[q] /\ lesson' = lesson
        BY <2>2 DEF Begin, TypeOK
      <4> QED
        BY <4>1, <4>2
    <3> QED
      BY <3>1 DEF RequestsOK
  <2> QED
    BY <2>1, <2>2
<1> QED
  BY <1>2, <1>3, <1>4

\* A request that ends lets go of what it held; if lessons only join, the
\* others go on.
LEMMA EndKeeps ==
  ASSUME TypeOK, RequestsOK, NEW r \in Request, End(r),
         Occupied(lesson) \subseteq Occupied(lesson')
  PROVE  /\ RequestsOK'
         /\ shared' \in [Request -> SUBSET Enrollment]
         /\ \A q \in Request : shared'[q] \subseteq shared[q]
         /\ pc' \in [Request -> Steps] /\ req' \in [Request -> Asked]
         /\ lost' \in [Request -> SUBSET (Template \X Time)]
<1>1. RequestsOK'
  <2> SUFFICES ASSUME NEW q \in Request
               PROVE  StepOK(pc'[q], req'[q], shared'[q], lost'[q], lesson')
    BY DEF RequestsOK
  <2>1. CASE q = r
    <3>1. pc'[q] = "idle"
      BY <2>1 DEF End, TypeOK
    <3> QED
      BY <3>1, IdleOK
  <2>2. CASE q # r
    <3>1. /\ pc'[q] = pc[q] /\ req'[q] = req[q] /\ shared'[q] = shared[q]
          /\ lost'[q] = lost[q]
      BY <2>2 DEF End, TypeOK
    <3>2. StepOK(pc[q], req[q], shared[q], lost[q], lesson)
      BY DEF RequestsOK
    <3> QED
      BY <3>1, <3>2, StepKept
  <2> QED
    BY <2>1, <2>2
<1>2. shared' \in [Request -> SUBSET Enrollment]
      /\ \A q \in Request : shared'[q] \subseteq shared[q]
  BY DEF End, TypeOK
<1>3. pc' \in [Request -> Steps] /\ req' \in [Request -> Asked]
  BY NullTypes DEF End, TypeOK, Steps
<1>4. lost' \in [Request -> SUBSET (Template \X Time)]
  BY DEF End, TypeOK
<1> QED
  BY <1>1, <1>2, <1>3, <1>4

-------------------------------------------------------------------------------
\* Lemmas about lessons that come, move and go.

\* What createMany inserts: lessons that were there stay, new ones are the keys'.
LEMMA InsertedRows ==
  ASSUME TypeOK, NEW keys, keys \subseteq Template \X Time,
         NEW rows \in Assignments(keys), NEW l \in Lesson
  PROVE  /\ rows[l] = None => Inserted(rows)[l] = lesson[l]
         /\ rows[l] # None =>
              /\ rows[l] \in keys
              /\ ~Exists(lesson[l]) /\ Exists(Inserted(rows)[l])
              /\ Key(Inserted(rows)[l]) = rows[l]
              /\ Inserted(rows)[l].enrollment = EnrollmentOf[rows[l][1]]
              /\ Inserted(rows)[l].template \in Template
         /\ Inserted(rows)[l] \in LessonRow
<1>1. rows \in [Lesson -> keys \cup {None}] /\ lesson[l] \in LessonRow
  BY DEF Assignments, TypeOK
<1>2. CASE rows[l] = None
  BY <1>1, <1>2 DEF Inserted
<1>3. CASE rows[l] # None
  <2>1. rows[l] \in keys /\ ~Exists(lesson[l])
    BY <1>1, <1>3 DEF Assignments
  <2>2. PICK t \in Template, at \in Time : rows[l] = <<t, at>>
    BY <2>1
  <2>3. Inserted(rows)[l] = [status |-> "scheduled", enrollment |-> EnrollmentOf[t],
                             template |-> t, at |-> at]
    BY <1>3, <2>2 DEF Inserted
  <2>4. EnrollmentOf[t] \in Enrollment
    BY GenerationAssumption
  <2> QED
    BY <1>3, <2>1, <2>2, <2>3, <2>4 DEF Key, Exists, LessonRow
<1> QED
  BY <1>2, <1>3

\* Inserting keys that are free keeps the unique index, and every lesson.
LEMMA InsertKeeps ==
  ASSUME TypeOK, UniqueKeys, NEW keys, keys \subseteq Template \X Time,
         NEW rows \in Assignments(keys \ Occupied(lesson)), lesson' = Inserted(rows)
  PROVE  /\ lesson' \in [Lesson -> LessonRow]
         /\ UniqueKeys'
         /\ Occupied(lesson) \subseteq Occupied(lesson')
         /\ keys \subseteq Occupied(lesson')
<1> DEFINE free == keys \ Occupied(lesson)
<1>1. free \subseteq Template \X Time
  OBVIOUS
<1>2. \A l \in Lesson :
        /\ rows[l] = None => lesson'[l] = lesson[l]
        /\ rows[l] # None => /\ rows[l] \in free
                             /\ ~Exists(lesson[l]) /\ Exists(lesson'[l])
                             /\ Key(lesson'[l]) = rows[l]
        /\ lesson'[l] \in LessonRow
  BY <1>1, InsertedRows
<1>3. lesson' \in [Lesson -> LessonRow]
  <2>1. lesson' = [l \in Lesson |-> lesson'[l]]
    BY DEF Inserted
  <2> QED
    BY <1>2, <2>1
<1>4. UniqueKeys'
  <2> SUFFICES ASSUME NEW l \in Lesson, NEW m \in Lesson,
                      Exists(lesson'[l]), Exists(lesson'[m]), lesson'[l].template # None,
                      Key(lesson'[l]) = Key(lesson'[m])
               PROVE  l = m
    BY DEF UniqueKeys
  <2>1. CASE rows[l] = None /\ rows[m] = None
    BY <1>2, <2>1 DEF UniqueKeys
  <2>2. CASE rows[l] = None /\ rows[m] # None
    <3>1. Key(lesson[l]) \in free /\ Exists(lesson[l])
      BY <1>2, <2>2
    <3> QED
      BY <3>1, OccupiedBy
  <2>3. CASE rows[l] # None /\ rows[m] = None
    <3>1. Key(lesson[m]) \in free /\ Exists(lesson[m])
      BY <1>2, <2>3
    <3> QED
      BY <3>1, OccupiedBy
  <2>4. CASE rows[l] # None /\ rows[m] # None
    <3>1. rows[l] \in free /\ rows[m] = rows[l]
      BY <1>2, <2>4
    <3>2. \A k \in free : \E n \in Lesson :
            rows[n] = k /\ \A o \in Lesson : rows[o] = k => o = n
      BY DEF Assignments
    <3> QED
      BY <3>1, <3>2
  <2> QED
    BY <2>1, <2>2, <2>3, <2>4
<1>5. Occupied(lesson) \subseteq Occupied(lesson')
  <2> SUFFICES ASSUME NEW k \in Occupied(lesson) PROVE k \in Occupied(lesson')
    OBVIOUS
  <2>1. PICK l \in Lesson : Exists(lesson[l]) /\ Key(lesson[l]) = k
    BY OccupiedBy
  <2>2. lesson'[l] = lesson[l]
    BY <1>2, <2>1
  <2> QED
    BY <2>1, <2>2, OccupiedBy
<1>6. keys \subseteq Occupied(lesson')
  <2> SUFFICES ASSUME NEW k \in free PROVE k \in Occupied(lesson')
    BY <1>5
  <2>1. PICK l \in Lesson : rows[l] = k
    BY DEF Assignments
  <2>2. k # None
    BY <1>1, GenerationAssumption
  <2> QED
    BY <1>2, <2>1, <2>2, OccupiedBy
<1> QED
  BY <1>3, <1>4, <1>5, <1>6

\* A lesson that leaves its time, for another that is free or for good, is put
\* down as lost with whoever plans for its time.
LEMMA LeavingKeeps ==
  ASSUME TypeOK, RequestsOK, NEW l \in Lesson, Leaves(l),
         pc' = pc, req' = req, shared' = shared,
         \A m \in Lesson : m # l => lesson'[m] = lesson[m]
  PROVE  /\ RequestsOK'
         /\ lost' \in [Request -> SUBSET (Template \X Time)]
<1>1. \A q \in Request : req[q].plan \subseteq Template \X Time
  BY DEF TypeOK, Asked
<1>2. lost' \in [Request -> SUBSET (Template \X Time)]
  BY <1>1 DEF TypeOK, Leaves
<1>3. RequestsOK'
  <2> SUFFICES ASSUME NEW q \in Request
               PROVE  StepOK(pc[q], req[q], shared[q], lost'[q], lesson')
    BY DEF RequestsOK
  <2>1. StepOK(pc[q], req[q], shared[q], lost[q], lesson)
    BY DEF RequestsOK
  <2>2. ASSUME pc[q] = "create", NEW k \in req[q].plan \ lost'[q]
        PROVE  k \in req[q].keys \/ k \in Occupied(lesson')
    <3>1. k \notin lost[q] /\ k # Key(lesson[l])
      BY <2>2 DEF Leaves
    <3>2. CASE k \in req[q].keys
      BY <3>2
    <3>3. CASE k \in Occupied(lesson)
      <4>1. PICK m \in Lesson : Exists(lesson[m]) /\ Key(lesson[m]) = k
        BY <3>3, OccupiedBy
      <4>2. lesson'[m] = lesson[m]
        BY <3>1, <4>1
      <4> QED
        BY <4>1, <4>2, OccupiedBy
    <3> QED
      BY <2>1, <2>2, <3>1, <3>2, <3>3 DEF StepOK
  <2> QED
    BY <2>1, <2>2 DEF StepOK
<1> QED
  BY <1>2, <1>3

-------------------------------------------------------------------------------
\* Every step keeps the invariant.

THEOREM InitKeeps == Init => GInv
<1> SUFFICES ASSUME Init PROVE GInv
  OBVIOUS
<1>1. TypeOK
  BY NullTypes, GenerationAssumption DEF Init, TypeOK, Steps
<1>2. UniqueKeys
  BY DEF Init, UniqueKeys, Exists, NoLesson
<1>3. RequestsOK
  BY IdleOK DEF Init, RequestsOK
<1> QED
  BY <1>1, <1>2, <1>3 DEF GInv

\* Requests that begin.
LEMMA BeginnersKeep ==
  ASSUME GInv, NEW r \in Request,
         \/ \E w \in Window : BeginGenerate(r, w[1], w[2])
         \/ \E from \in Time : RunScheduled(r, from)
         \/ \E e \in Enrollment, at \in Time : BeginCreateLesson(r, e, at)
         \/ \E t \in Template, slots \in SUBSET Slot, zone \in Zone :
              BeginCreateTemplate(r, t, slots, zone)
         \/ \E t \in Template, p \in Patch : DeleteSlots(r, t, p)
         \/ \E t \in Template : DeactivateSlots(r, t)
  PROVE  GInv'
<1>1. ASSUME NEW from \in Time, NEW to \in Time, BeginGenerate(r, from, to)
      PROVE  GInv'
  <2> DEFINE asked == [NoRequest EXCEPT !.op = "generate", !.from = from, !.to = to]
  <2>1. asked \in Asked
    BY NullTypes DEF Asked
  <2>2. StepOK("templates", asked, {}, {}, lesson)
    BY DEF StepOK
  <2>3. Begin(r, asked, "templates")
    BY <1>1 DEF BeginGenerate
  <2> HIDE DEF asked
  <2> QED
    BY <2>1, <2>2, <2>3, BeginKeeps DEF Steps
<1>2. ASSUME NEW from \in Time, RunScheduled(r, from) PROVE GInv'
  BY <1>1, <1>2 DEF RunScheduled
<1>3. ASSUME NEW e \in Enrollment, NEW at \in Time, BeginCreateLesson(r, e, at)
      PROVE  GInv'
  <2> DEFINE asked == [NoRequest EXCEPT !.op = "lesson", !.enrollment = e, !.from = at]
  <2>1. asked \in Asked /\ asked.op = "lesson" /\ asked.enrollment = e
    BY NullTypes DEF Asked
  <2>2. StepOK("share", asked, {}, {}, lesson)
    BY <2>1 DEF StepOK
  <2>3. Begin(r, asked, "share")
    BY <1>3 DEF BeginCreateLesson
  <2> HIDE DEF asked
  <2> QED
    BY <2>1, <2>2, <2>3, BeginKeeps DEF Steps
<1>4. ASSUME NEW t \in Template, NEW slots \in SUBSET Slot, NEW zone \in Zone,
             BeginCreateTemplate(r, t, slots, zone)
      PROVE  GInv'
  <2> DEFINE body == [NoPatch EXCEPT !.slots = slots, !.zone = {zone}]
             asked == [NoRequest EXCEPT !.op = "template", !.enrollment = EnrollmentOf[t],
                         !.template = t, !.patch = body]
  <2>1. body \in Body
    BY NullTypes DEF Body, Field
  <2>2. EnrollmentOf[t] \in Enrollment
    BY GenerationAssumption
  <2>3. /\ asked \in Asked /\ asked.op = "template" /\ asked.template = t
        /\ asked.enrollment = EnrollmentOf[t]
    <3> HIDE DEF body
    <3> QED
      BY <2>1, <2>2, NullTypes DEF Asked
  <2>4. StepOK("share", asked, {}, {}, lesson)
    BY <2>2, <2>3 DEF StepOK
  <2>5. Begin(r, asked, "share")
    BY <1>4 DEF BeginCreateTemplate
  <2> HIDE DEF asked
  <2> QED
    BY <2>3, <2>4, <2>5, BeginKeeps DEF Steps
<1>5. ASSUME NEW t \in Template, NEW p \in Patch, DeleteSlots(r, t, p) PROVE GInv'
  <2> DEFINE rows == {row.edit : row \in template[t].slots}
             asked == [NoRequest EXCEPT !.op = "patch", !.template = t, !.patch = p,
                         !.old = rows]
  <2>1. p \in Body
    BY GenerationAssumption
  <2>2. rows \in SUBSET (1 .. MaxEdits)
    BY DEF GInv, TypeOK, TemplateRow, SlotRow
  <2>3. asked \in Asked /\ asked.template = t
    <3> HIDE DEF rows
    <3> QED
      BY <2>1, <2>2, NullTypes DEF Asked
  <2>4. StepOK("slots", asked, {}, {}, lesson)
    BY <2>3 DEF StepOK
  <2>5. Begin(r, asked, "slots")
    BY <1>5 DEF DeleteSlots
  <2> HIDE DEF asked
  <2> QED
    BY <2>3, <2>4, <2>5, BeginKeeps DEF Steps
<1>6. ASSUME NEW t \in Template, DeactivateSlots(r, t) PROVE GInv'
  <2> DEFINE rows == {row.edit : row \in template[t].slots}
             asked == [NoRequest EXCEPT !.op = "deactivate", !.template = t, !.old = rows]
  <2>1. rows \in SUBSET (1 .. MaxEdits)
    BY DEF GInv, TypeOK, TemplateRow, SlotRow
  <2>2. asked \in Asked /\ asked.template = t
    <3> HIDE DEF rows
    <3> QED
      BY <2>1, NullTypes DEF Asked
  <2>3. StepOK("deactivate", asked, {}, {}, lesson)
    BY <2>2 DEF StepOK
  <2>4. Begin(r, asked, "deactivate")
    BY <1>6 DEF DeactivateSlots
  <2> HIDE DEF asked
  <2> QED
    BY <2>2, <2>3, <2>4, BeginKeeps DEF Steps
<1>7. ASSUME NEW w \in Window PROVE w[1] \in Time /\ w[2] \in Time
  BY GenerationAssumption
<1> QED
  BY <1>1, <1>2, <1>3, <1>4, <1>5, <1>6, <1>7

\* Requests that end, after what they write has been written.
LEMMA EndersKeep ==
  ASSUME GInv, NEW r \in Request, End(r),
         enrollment' = enrollment, settings' = settings,
         template' \in [Template -> TemplateRow],
         lesson' \in [Lesson -> LessonRow],
         UniqueKeys', Occupied(lesson) \subseteq Occupied(lesson')
  PROVE  GInv'
<1>1. TypeOK /\ RequestsOK
  BY DEF GInv
<1>2. /\ RequestsOK'
      /\ shared' \in [Request -> SUBSET Enrollment]
      /\ \A q \in Request : shared'[q] \subseteq shared[q]
      /\ pc' \in [Request -> Steps] /\ req' \in [Request -> Asked]
      /\ lost' \in [Request -> SUBSET (Template \X Time)]
  BY <1>1, EndKeeps
<1>3. TypeOK'
  BY <1>1, <1>2 DEF TypeOK, Steps, Active
<1> QED
  BY <1>2, <1>3 DEF GInv

LEMMA FailKeeps == ASSUME GInv, NEW r \in Request, Fail(r) PROVE GInv'
<1>1. /\ End(r) /\ enrollment' = enrollment /\ settings' = settings
      /\ template' = template /\ lesson' = lesson
  BY DEF Fail
<1>2. UniqueKeys'
  BY <1>1 DEF GInv, UniqueKeys
<1> QED
  BY <1>1, <1>2, EndersKeep DEF GInv, TypeOK

LEMMA CreateManyKeeps == ASSUME GInv, NEW r \in Request, CreateMany(r) PROVE GInv'
<1>1. /\ End(r) /\ enrollment' = enrollment /\ settings' = settings
      /\ template' = template
  BY DEF CreateMany
<1>2. PICK rows \in Assignments(req[r].keys \ Occupied(lesson)) : lesson' = Inserted(rows)
  BY DEF CreateMany
<1>3. req[r].keys \subseteq Template \X Time
  BY DEF GInv, TypeOK, Asked
<1>4. /\ lesson' \in [Lesson -> LessonRow]
      /\ UniqueKeys'
      /\ Occupied(lesson) \subseteq Occupied(lesson')
  BY <1>2, <1>3, InsertKeeps DEF GInv
<1> QED
  BY <1>1, <1>4, EndersKeep DEF GInv, TypeOK

LEMMA CreateLessonKeeps ==
  ASSUME GInv, NEW r \in Request, NEW l \in Lesson, CreateLesson(r, l) PROVE GInv'
<1> DEFINE row == [status |-> "scheduled", enrollment |-> req[r].enrollment,
                   template |-> None, at |-> req[r].from]
<1>1. /\ End(r) /\ enrollment' = enrollment /\ settings' = settings
      /\ template' = template /\ lesson' = [lesson EXCEPT ![l] = row]
      /\ ~Exists(lesson[l])
  BY DEF CreateLesson
<1>2. row \in LessonRow
  BY DEF GInv, TypeOK, Asked, LessonRow
<1>3. lesson' \in [Lesson -> LessonRow]
  BY <1>1, <1>2 DEF GInv, TypeOK
<1>4. lesson'[l].template = None /\ Key(lesson'[l]) = <<None, req[r].from>>
  BY <1>1 DEF GInv, TypeOK, Key
<1>5. \A m \in Lesson : m # l => lesson'[m] = lesson[m]
  BY <1>1 DEF GInv, TypeOK
<1>6. UniqueKeys'
  BY <1>4, <1>5 DEF GInv, UniqueKeys, Key
<1>7. Occupied(lesson) \subseteq Occupied(lesson')
  <2> SUFFICES ASSUME NEW k \in Occupied(lesson) PROVE k \in Occupied(lesson')
    OBVIOUS
  <2>1. PICK m \in Lesson : Exists(lesson[m]) /\ Key(lesson[m]) = k
    BY OccupiedBy
  <2> QED
    BY <1>1, <1>5, <2>1, OccupiedBy
<1> HIDE DEF row
<1> QED
  BY <1>1, <1>3, <1>6, <1>7, EndersKeep DEF GInv, TypeOK

\* The slots of an edit are rows.
LEMMA SlotRowsType ==
  ASSUME NEW slots \in SUBSET Slot, NEW edit \in 1 .. MaxEdits
  PROVE  SlotRows(slots, edit) \subseteq SlotRow
BY DEF SlotRows, SlotRow

LEMMA CreateTemplateKeeps ==
  ASSUME GInv, NEW r \in Request, CreateTemplate(r) PROVE GInv'
<1> DEFINE t == req[r].template
           row == [exists |-> TRUE, active |-> TRUE, zone |-> Given(req[r].patch.zone, None),
                   slots |-> SlotRows(req[r].patch.slots, 1), edits |-> 1]
<1>1. /\ End(r) /\ enrollment' = enrollment /\ settings' = settings
      /\ lesson' = lesson /\ template' = [template EXCEPT ![t] = row]
  BY DEF CreateTemplate
<1>2. req[r].patch \in Body
  BY DEF GInv, TypeOK, Asked
<1>3. 1 \in 1 .. MaxEdits /\ 1 \in 0 .. MaxEdits
  BY GenerationAssumption
<1>4. SlotRows(req[r].patch.slots, 1) \subseteq SlotRow
  BY <1>2, <1>3, SlotRowsType DEF Body
<1>5. Given(req[r].patch.zone, None) \in Zone \cup {None}
  <2>1. req[r].patch.zone \in Field(Zone)
    BY <1>2 DEF Body
  <2>2. Zone \subseteq Zone \cup {None} /\ None \in Zone \cup {None}
    OBVIOUS
  <2> QED
    BY <2>1, <2>2, GivenType
<1>6. row \in TemplateRow
  BY <1>3, <1>4, <1>5 DEF TemplateRow
<1> HIDE DEF row
<1>7. template' \in [Template -> TemplateRow]
  BY <1>1, <1>6 DEF GInv, TypeOK
<1>8. UniqueKeys'
  BY <1>1 DEF GInv, UniqueKeys
<1> QED
  BY <1>1, <1>7, <1>8, EndersKeep DEF GInv, TypeOK

\* A PATCH leaves a row of the table.
LEMMA PatchedType ==
  ASSUME TypeOK, NEW t \in Template, NEW p \in Body
  PROVE  Patched(t, p) \in TemplateRow /\ Patched(t, p).exists = template[t].exists
<1>1. template[t] \in TemplateRow
  BY DEF TypeOK
<1>2. Given(p.active, template[t].active) \in BOOLEAN
  <2>1. p.active \in Field(BOOLEAN) /\ template[t].active \in BOOLEAN
    BY <1>1 DEF Body, TemplateRow
  <2> QED
    BY <2>1, GivenType, Zenon
<1>3. Given(p.zone, template[t].zone) \in Zone \cup {None}
  <2>1. p.zone \in Field(Zone) /\ template[t].zone \in Zone \cup {None}
    BY <1>1 DEF Body, TemplateRow
  <2> QED
    BY <2>1, GivenType
<1> QED
  BY <1>1, <1>2, <1>3 DEF Patched, TemplateRow

LEMMA CreateSlotsKeeps == ASSUME GInv, NEW r \in Request, CreateSlots(r) PROVE GInv'
<1> DEFINE t == req[r].template
           p == req[r].patch
           edit == template[t].edits + 1
           kept == {row \in template[t].slots : row.edit \notin req[r].old}
           fresh == SlotRows(p.slots, edit)
           new == [Patched(t, p) EXCEPT !.slots = kept \cup fresh, !.edits = edit]
<1>1. /\ End(r) /\ enrollment' = enrollment /\ settings' = settings
      /\ lesson' = lesson /\ template' = [template EXCEPT ![t] = new]
      /\ edit <= MaxEdits /\ pc[r] = "slots"
  BY DEF CreateSlots
<1>2. t \in Template /\ p \in Body
  BY <1>1 DEF GInv, TypeOK, Asked, RequestsOK, StepOK
<1>3. template[t] \in TemplateRow
  BY <1>2 DEF GInv, TypeOK
<1>4. edit \in 1 .. MaxEdits /\ edit \in 0 .. MaxEdits
  BY <1>1, <1>3, GenerationAssumption DEF TemplateRow
<1>5. kept \subseteq SlotRow
  BY <1>3 DEF TemplateRow
<1>6. fresh \subseteq SlotRow
  BY <1>2, <1>4, SlotRowsType DEF Body
<1>7. Patched(t, p) \in TemplateRow
  BY <1>2, PatchedType DEF GInv
<1> HIDE DEF kept, fresh, edit
<1>8. new \in TemplateRow
  BY <1>4, <1>5, <1>6, <1>7 DEF TemplateRow
<1> HIDE DEF new
<1>9. template' \in [Template -> TemplateRow]
  BY <1>1, <1>8 DEF GInv, TypeOK
<1>10. UniqueKeys'
  BY <1>1 DEF GInv, UniqueKeys
<1> QED
  BY <1>1, <1>9, <1>10, EndersKeep DEF GInv, TypeOK

LEMMA DeactivateTemplateKeeps ==
  ASSUME GInv, NEW r \in Request, DeactivateTemplate(r) PROVE GInv'
<1> DEFINE t == req[r].template
           off(row) == IF row.edit \in req[r].old THEN [row EXCEPT !.active = FALSE] ELSE row
           slots == {off(row) : row \in template[t].slots}
           new == [template[t] EXCEPT !.active = FALSE, !.slots = slots]
<1>1. /\ End(r) /\ enrollment' = enrollment /\ settings' = settings
      /\ lesson' = lesson /\ pc[r] = "deactivate"
  BY DEF DeactivateTemplate
<1>2. t \in Template
  BY <1>1 DEF GInv, RequestsOK, StepOK
<1>3. template[t] \in TemplateRow
  BY <1>2 DEF GInv, TypeOK
<1>4. \A row \in template[t].slots : off(row) \in SlotRow
  BY <1>3 DEF TemplateRow, SlotRow
<1>5. template' = [template EXCEPT ![t] = new]
  BY <1>2 DEF DeactivateTemplate, GInv, TypeOK
<1>6. slots \subseteq SlotRow
  BY <1>4
<1> HIDE DEF slots
<1>7. new \in TemplateRow
  BY <1>3, <1>6 DEF TemplateRow
<1> HIDE DEF new
<1>8. template' \in [Template -> TemplateRow]
  BY <1>5, <1>7 DEF GInv, TypeOK
<1>9. UniqueKeys'
  BY <1>1 DEF GInv, UniqueKeys
<1> QED
  BY <1>1, <1>8, <1>9, EndersKeep DEF GInv, TypeOK

-------------------------------------------------------------------------------
\* The statements of a generation, and the first of a creation by hand.

LEMMA ReadTemplatesKeeps ==
  ASSUME GInv, NEW r \in Request, ReadTemplates(r) PROVE GInv'
<1> DEFINE read == {t \in Template : template[t].active /\ Active(EnrollmentOf[t])}
           plan == UNION {Planned(t, req[r].from, req[r].to) : t \in read}
<1>1. /\ req' = [req EXCEPT ![r].plan = plan]
      /\ pc' = [pc EXCEPT ![r] = "enrollments"]
      /\ enrollment' = enrollment /\ template' = template /\ lesson' = lesson
      /\ settings' = settings /\ shared' = shared /\ lost' = lost
  BY DEF ReadTemplates
<1>2. plan \subseteq Template \X Time
  <2>1. req[r].from \in Time /\ req[r].to \in Time
    BY DEF GInv, TypeOK, Asked
  <2>2. req[r].from .. req[r].to \subseteq Time
    BY <2>1, GenerationAssumption DEF Time
  <2>3. ASSUME NEW t \in Template
        PROVE  Planned(t, req[r].from, req[r].to) \subseteq Template \X Time
    BY <2>2 DEF Planned
  <2> SUFFICES ASSUME NEW k \in plan PROVE k \in Template \X Time
    OBVIOUS
  <2>4. PICK t \in Template : k \in Planned(t, req[r].from, req[r].to)
    OBVIOUS
  <2> QED
    BY <2>3, <2>4
<1> HIDE DEF plan
<1>3. TypeOK'
  <2>1. [req[r] EXCEPT !.plan = plan] \in Asked
    BY <1>2 DEF GInv, TypeOK, Asked
  <2>2. req' \in [Request -> Asked]
    BY <1>1, <2>1 DEF GInv, TypeOK
  <2> QED
    BY <1>1, <2>2 DEF GInv, TypeOK, Active
<1>4. UniqueKeys'
  BY <1>1 DEF GInv, UniqueKeys
<1>5. RequestsOK'
  <2> SUFFICES ASSUME NEW q \in Request
               PROVE  StepOK(pc'[q], req'[q], shared'[q], lost'[q], lesson')
    BY DEF RequestsOK
  <2>1. CASE q = r
    <3>1. pc'[q] = "enrollments"
      BY <1>1, <2>1 DEF GInv, TypeOK
    <3> QED
      BY <3>1 DEF StepOK
  <2>2. CASE q # r
    <3>1. pc'[q] = pc[q] /\ req'[q] = req[q]
      BY <1>1, <2>2 DEF GInv, TypeOK
    <3> QED
      BY <1>1, <3>1 DEF GInv, RequestsOK
  <2> QED
    BY <2>1, <2>2
<1> QED
  BY <1>3, <1>4, <1>5 DEF GInv

LEMMA ShareEnrollmentsKeeps ==
  ASSUME GInv, NEW r \in Request, ShareEnrollments(r) PROVE GInv'
<1> DEFINE active == {e \in {EnrollmentOf[k[1]] : k \in req[r].plan} : Active(e)}
           plan == {k \in req[r].plan : EnrollmentOf[k[1]] \in active}
<1>1. /\ shared' = [shared EXCEPT ![r] = active]
      /\ req' = [req EXCEPT ![r].plan = plan, ![r].keys = plan]
      /\ pc' = [pc EXCEPT ![r] = "existing"]
      /\ enrollment' = enrollment /\ template' = template /\ lesson' = lesson
      /\ settings' = settings /\ lost' = lost
  BY DEF ShareEnrollments
<1>2. req[r].plan \subseteq Template \X Time /\ req[r] \in Asked
  BY DEF GInv, TypeOK, Asked
<1>3. plan \subseteq Template \X Time
  BY <1>2
<1>4. active \subseteq Enrollment /\ \A e \in active : Active(e)
  BY <1>2, GenerationAssumption
<1>5. \A k \in plan : EnrollmentOf[k[1]] \in active
  OBVIOUS
<1> HIDE DEF active, plan
<1>6. TypeOK'
  <2>1. req' \in [Request -> Asked]
    <3>1. [req[r] EXCEPT !.plan = plan, !.keys = plan] \in Asked
      BY <1>2, <1>3 DEF Asked
    <3> QED
      BY <1>1, <3>1 DEF GInv, TypeOK
  <2>2. /\ shared' \in [Request -> SUBSET Enrollment]
        /\ \A q \in Request : \A e \in shared'[q] : Active(e)
    BY <1>1, <1>4 DEF GInv, TypeOK
  <2> QED
    BY <1>1, <2>1, <2>2 DEF GInv, TypeOK, Active
<1>7. UniqueKeys'
  BY <1>1 DEF GInv, UniqueKeys
<1>8. RequestsOK'
  <2> SUFFICES ASSUME NEW q \in Request
               PROVE  StepOK(pc'[q], req'[q], shared'[q], lost'[q], lesson')
    BY DEF RequestsOK
  <2>1. CASE q = r
    <3>1. /\ pc'[q] = "existing" /\ shared'[q] = active
          /\ req'[q].keys = plan /\ req'[q].plan = plan
      BY <1>1, <1>2, <2>1 DEF GInv, TypeOK, Asked
    <3> QED
      BY <1>5, <3>1 DEF StepOK
  <2>2. CASE q # r
    <3>1. pc'[q] = pc[q] /\ req'[q] = req[q] /\ shared'[q] = shared[q]
      BY <1>1, <2>2 DEF GInv, TypeOK
    <3> QED
      BY <1>1, <3>1 DEF GInv, RequestsOK
  <2> QED
    BY <2>1, <2>2
<1> QED
  BY <1>6, <1>7, <1>8 DEF GInv

LEMMA ReadExistingKeeps ==
  ASSUME GInv, NEW r \in Request, ReadExisting(r) PROVE GInv'
<1> DEFINE existing == {Key(lesson[l]) : l \in {k \in Lesson :
                                           lesson[k].status \notin {"none", "canceled"}}}
           keys == req[r].keys \ existing
<1>1. /\ req' = [req EXCEPT ![r].keys = keys]
      /\ pc' = [pc EXCEPT ![r] = "create"] /\ pc[r] = "existing"
      /\ enrollment' = enrollment /\ template' = template /\ lesson' = lesson
      /\ settings' = settings /\ shared' = shared /\ lost' = lost
  BY DEF ReadExisting
<1>2. req[r].keys \subseteq Template \X Time /\ req[r] \in Asked
  BY DEF GInv, TypeOK, Asked
<1>3. \A k \in existing : k \in Occupied(lesson)
  BY DEF Occupied, Exists
<1> HIDE DEF existing
<1>4. TypeOK'
  <2>1. [req[r] EXCEPT !.keys = keys] \in Asked
    BY <1>2 DEF Asked
  <2>2. req' \in [Request -> Asked]
    BY <1>1, <2>1 DEF GInv, TypeOK
  <2> QED
    BY <1>1, <2>2 DEF GInv, TypeOK, Active
<1>5. UniqueKeys'
  BY <1>1 DEF GInv, UniqueKeys
<1>6. RequestsOK'
  <2> SUFFICES ASSUME NEW q \in Request
               PROVE  StepOK(pc'[q], req'[q], shared'[q], lost'[q], lesson')
    BY DEF RequestsOK
  <2>0. StepOK(pc[q], req[q], shared[q], lost[q], lesson)
    BY DEF GInv, RequestsOK
  <2>1. CASE q = r
    <3>1. /\ pc'[q] = "create" /\ req'[q].keys = keys
          /\ req'[q].plan = req[q].plan /\ pc[q] = "existing"
      BY <1>1, <1>2, <2>1 DEF GInv, TypeOK, Asked
    <3>2. /\ \A k \in req[q].keys : EnrollmentOf[k[1]] \in shared[q]
          /\ req[q].keys = req[q].plan
      BY <2>0, <3>1 DEF StepOK
    <3> QED
      BY <1>1, <1>3, <2>1, <3>1, <3>2 DEF StepOK
  <2>2. CASE q # r
    <3>1. pc'[q] = pc[q] /\ req'[q] = req[q]
      BY <1>1, <2>2 DEF GInv, TypeOK
    <3> QED
      BY <1>1, <2>0, <3>1
  <2> QED
    BY <2>1, <2>2
<1> QED
  BY <1>4, <1>5, <1>6 DEF GInv

LEMMA ShareEnrollmentKeeps ==
  ASSUME GInv, NEW r \in Request, ShareEnrollment(r) PROVE GInv'
<1>1. /\ shared' = [shared EXCEPT ![r] = {req[r].enrollment}]
      /\ pc' = [pc EXCEPT ![r] = "insert"] /\ pc[r] = "share" /\ req' = req
      /\ enrollment' = enrollment /\ template' = template /\ lesson' = lesson
      /\ settings' = settings /\ lost' = lost /\ Active(req[r].enrollment)
  BY DEF ShareEnrollment
<1>2. StepOK(pc[r], req[r], shared[r], lost[r], lesson)
  BY DEF GInv, RequestsOK
<1>3. req[r].enrollment \in Enrollment
  BY <1>1, <1>2 DEF StepOK
<1>4. TypeOK'
  BY <1>1, <1>3 DEF GInv, TypeOK, Active
<1>5. UniqueKeys'
  BY <1>1 DEF GInv, UniqueKeys
<1>6. RequestsOK'
  <2> SUFFICES ASSUME NEW q \in Request
               PROVE  StepOK(pc'[q], req'[q], shared'[q], lost'[q], lesson')
    BY DEF RequestsOK
  <2>1. CASE q = r
    <3>1. pc'[q] = "insert" /\ shared'[q] = {req[q].enrollment} /\ req'[q] = req[q]
      BY <1>1, <2>1 DEF GInv, TypeOK
    <3> QED
      BY <1>1, <1>2, <2>1, <3>1 DEF StepOK
  <2>2. CASE q # r
    <3>1. pc'[q] = pc[q] /\ req'[q] = req[q] /\ shared'[q] = shared[q]
      BY <1>1, <2>2 DEF GInv, TypeOK
    <3> QED
      BY <1>1, <3>1 DEF GInv, RequestsOK
  <2> QED
    BY <2>1, <2>2
<1> QED
  BY <1>4, <1>5, <1>6 DEF GInv

-------------------------------------------------------------------------------
\* Templates, enrollments and settings.

LEMMA TemplatesKeep ==
  ASSUME GInv, NEW t \in Template, NEW p \in Patch, UpdateTemplate(t, p)
  PROVE  GInv'
<1>1. /\ enrollment' = enrollment /\ lesson' = lesson /\ settings' = settings
      /\ shared' = shared /\ pc' = pc /\ req' = req /\ lost' = lost
  BY DEF UpdateTemplate
<1>2. Patched(t, p) \in TemplateRow
  BY PatchedType, GenerationAssumption DEF GInv
<1>3. template' \in [Template -> TemplateRow]
  BY <1>2 DEF UpdateTemplate, GInv, TypeOK
<1>4. TypeOK'
  BY <1>1, <1>3 DEF GInv, TypeOK, Active
<1>5. UniqueKeys' /\ RequestsOK'
  BY <1>1 DEF GInv, UniqueKeys, RequestsOK
<1> QED
  BY <1>4, <1>5 DEF GInv

LEMMA EnrollmentsKeep ==
  ASSUME GInv, NEW e \in Enrollment,
         CreateEnrollment(e) \/ \E active \in BOOLEAN : UpdateEnrollment(e, active)
  PROVE  GInv'
<1>1. /\ template' = template /\ lesson' = lesson /\ settings' = settings
      /\ shared' = shared /\ pc' = pc /\ req' = req /\ lost' = lost
  BY DEF CreateEnrollment, UpdateEnrollment
<1>2. enrollment' \in [Enrollment -> {"none", "active", "closed"}]
  BY DEF CreateEnrollment, UpdateEnrollment, GInv, TypeOK
<1>3. \A d \in Enrollment : enrollment[d] = "active" /\ enrollment'[d] # "active" =>
        \A r \in Request : d \notin shared[r]
  BY DEF CreateEnrollment, UpdateEnrollment, GInv, TypeOK
<1>4. \A r \in Request : \A d \in shared'[r] : enrollment'[d] = "active"
  BY <1>1, <1>3 DEF GInv, TypeOK, Active
<1>5. TypeOK'
  BY <1>1, <1>2, <1>4 DEF GInv, TypeOK, Active
<1>6. UniqueKeys' /\ RequestsOK'
  BY <1>1 DEF GInv, UniqueKeys, RequestsOK
<1> QED
  BY <1>5, <1>6 DEF GInv

LEMMA SettingsKeep ==
  ASSUME GInv, NEW enabled \in BOOLEAN, NEW ahead \in Ahead,
         UpdateSettings(enabled, ahead)
  PROVE  GInv'
<1>1. /\ template' = template /\ lesson' = lesson /\ enrollment' = enrollment
      /\ shared' = shared /\ pc' = pc /\ req' = req /\ lost' = lost
      /\ settings' \in [enabled : BOOLEAN, ahead : Ahead]
  BY DEF UpdateSettings
<1>2. TypeOK'
  BY <1>1 DEF GInv, TypeOK, Active
<1>3. UniqueKeys' /\ RequestsOK'
  BY <1>1 DEF GInv, UniqueKeys, RequestsOK
<1> QED
  BY <1>2, <1>3 DEF GInv

-------------------------------------------------------------------------------
\* Lessons.

LEMMA CancelKeeps == ASSUME GInv, NEW l \in Lesson, Cancel(l) PROVE GInv'
<1>1. /\ enrollment' = enrollment /\ template' = template /\ settings' = settings
      /\ shared' = shared /\ pc' = pc /\ req' = req /\ lost' = lost
      /\ lesson' = [lesson EXCEPT ![l].status = "canceled"] /\ Scheduled(l)
  BY DEF Cancel
<1>2. lesson' \in [Lesson -> LessonRow]
  BY <1>1 DEF GInv, TypeOK, LessonRow
<1>3. \A m \in Lesson : /\ Exists(lesson'[m]) <=> Exists(lesson[m])
                        /\ Key(lesson'[m]) = Key(lesson[m])
                        /\ lesson'[m].template = lesson[m].template
  BY <1>1 DEF GInv, TypeOK, LessonRow, Exists, Key, Scheduled
<1>4. TypeOK'
  BY <1>1, <1>2 DEF GInv, TypeOK, Active
<1>5. UniqueKeys'
  BY <1>3 DEF GInv, UniqueKeys
<1>6. Occupied(lesson) \subseteq Occupied(lesson')
  <2> SUFFICES ASSUME NEW k \in Occupied(lesson) PROVE k \in Occupied(lesson')
    OBVIOUS
  <2>1. PICK m \in Lesson : Exists(lesson[m]) /\ Key(lesson[m]) = k
    BY OccupiedBy
  <2>2. Exists(lesson'[m]) /\ Key(lesson'[m]) = k
    BY <1>3, <2>1
  <2> QED
    BY <2>2, OccupiedBy
<1>7. RequestsOK'
  <2> SUFFICES ASSUME NEW q \in Request
               PROVE  StepOK(pc[q], req[q], shared[q], lost[q], lesson')
    BY <1>1 DEF RequestsOK
  <2>1. StepOK(pc[q], req[q], shared[q], lost[q], lesson)
    BY DEF GInv, RequestsOK
  <2> QED
    BY <1>6, <2>1, StepKept
<1> QED
  BY <1>4, <1>5, <1>7 DEF GInv

LEMMA MoveKeeps ==
  ASSUME GInv, NEW l \in Lesson, NEW at \in Time, Move(l, at) PROVE GInv'
<1>1. /\ enrollment' = enrollment /\ template' = template /\ settings' = settings
      /\ shared' = shared /\ pc' = pc /\ req' = req /\ Leaves(l)
      /\ lesson' = [lesson EXCEPT ![l].at = at] /\ Free(l, at) /\ Scheduled(l)
  BY DEF Move
<1>2. lesson' \in [Lesson -> LessonRow]
  BY <1>1 DEF GInv, TypeOK, LessonRow
<1>3. /\ \A m \in Lesson : m # l => lesson'[m] = lesson[m]
      /\ lesson'[l].template = lesson[l].template
      /\ Key(lesson'[l]) = <<lesson[l].template, at>>
  BY <1>1 DEF GInv, TypeOK, LessonRow, Key
<1>4. TypeOK /\ RequestsOK
  BY DEF GInv
<1>5. RequestsOK' /\ lost' \in [Request -> SUBSET (Template \X Time)]
  BY <1>1, <1>3, <1>4, LeavingKeeps
<1>6. TypeOK'
  BY <1>1, <1>2, <1>4, <1>5 DEF TypeOK, Active
<1>7. lesson[l].template # None =>
        \A m \in Lesson : Exists(lesson[m]) => Key(lesson[m]) # <<lesson[l].template, at>>
  BY <1>1, OccupiedBy DEF Free
<1>8. UniqueKeys'
  BY <1>3, <1>7 DEF GInv, UniqueKeys, Key
<1> QED
  BY <1>5, <1>6, <1>8 DEF GInv

LEMMA RescheduleKeeps ==
  ASSUME GInv, NEW l \in Lesson, NEW n \in Lesson, NEW at \in Time, Reschedule(l, n, at)
  PROVE  GInv'
<1>1. /\ enrollment' = enrollment /\ template' = template /\ settings' = settings
      /\ shared' = shared /\ pc' = pc /\ req' = req /\ lost' = lost
      /\ lesson' = [lesson EXCEPT ![n] = [lesson[l] EXCEPT !.at = at],
                                  ![l].status = "rescheduled"]
      /\ Free(l, at) /\ Scheduled(l) /\ ~Exists(lesson[n]) /\ Exists(lesson[l])
  BY DEF Reschedule, Scheduled, Exists
<1>2. n # l
  BY <1>1
<1>3. /\ lesson'[n] = [lesson[l] EXCEPT !.at = at]
      /\ lesson'[l] = [lesson[l] EXCEPT !.status = "rescheduled"]
      /\ \A m \in Lesson : m # l /\ m # n => lesson'[m] = lesson[m]
  BY <1>1, <1>2 DEF GInv, TypeOK
<1>4. lesson[l] \in LessonRow
  BY DEF GInv, TypeOK
<1>5. lesson'[n] \in LessonRow /\ lesson'[l] \in LessonRow
  BY <1>3, <1>4 DEF LessonRow
<1>6. lesson' \in [Lesson -> LessonRow]
  BY <1>1, <1>3, <1>5 DEF GInv, TypeOK
<1>7. /\ lesson'[n].template = lesson[l].template
      /\ lesson'[l].template = lesson[l].template
      /\ Key(lesson'[l]) = Key(lesson[l]) /\ Exists(lesson'[l])
      /\ Key(lesson'[n]) = <<lesson[l].template, at>>
  BY <1>3, <1>4 DEF LessonRow, Key, Exists
<1>8. lesson[l].template # None =>
        \A m \in Lesson : Exists(lesson[m]) => Key(lesson[m]) # <<lesson[l].template, at>>
  BY <1>1, OccupiedBy DEF Free
<1>9. TypeOK'
  BY <1>1, <1>6 DEF GInv, TypeOK, Active
<1>10. UniqueKeys'
  <2> SUFFICES ASSUME NEW i \in Lesson, NEW j \in Lesson,
                      Exists(lesson'[i]), Exists(lesson'[j]), lesson'[i].template # None,
                      Key(lesson'[i]) = Key(lesson'[j])
               PROVE  i = j
    BY DEF UniqueKeys
  <2>1. lesson'[i].template = lesson'[j].template
    BY DEF Key
  <2>2. \A m \in Lesson : m # n =>
          /\ Key(lesson'[m]) = Key(lesson[m]) /\ lesson'[m].template = lesson[m].template
          /\ Exists(lesson'[m]) => Exists(lesson[m])
    BY <1>1, <1>3, <1>7
  <2>3. CASE i # n /\ j # n
    BY <2>2, <2>3 DEF GInv, UniqueKeys
  <2>4. CASE i = n /\ j # n
    BY <1>7, <1>8, <2>2, <2>4
  <2>5. CASE i # n /\ j = n
    BY <1>7, <1>8, <2>1, <2>2, <2>5
  <2> QED
    BY <2>3, <2>4, <2>5
<1>11. Occupied(lesson) \subseteq Occupied(lesson')
  <2> SUFFICES ASSUME NEW k \in Occupied(lesson) PROVE k \in Occupied(lesson')
    OBVIOUS
  <2>1. PICK m \in Lesson : Exists(lesson[m]) /\ Key(lesson[m]) = k
    BY OccupiedBy
  <2>2. m # n
    BY <1>1, <2>1
  <2>3. Exists(lesson'[m]) /\ Key(lesson'[m]) = k
    BY <1>3, <1>7, <2>1, <2>2
  <2> QED
    BY <2>3, OccupiedBy
<1>12. RequestsOK'
  <2> SUFFICES ASSUME NEW q \in Request
               PROVE  StepOK(pc[q], req[q], shared[q], lost[q], lesson')
    BY <1>1 DEF RequestsOK
  <2>1. StepOK(pc[q], req[q], shared[q], lost[q], lesson)
    BY DEF GInv, RequestsOK
  <2> QED
    BY <1>11, <2>1, StepKept
<1> QED
  BY <1>9, <1>10, <1>12 DEF GInv

LEMMA RemoveKeeps == ASSUME GInv, NEW l \in Lesson, Remove(l) PROVE GInv'
<1>1. /\ enrollment' = enrollment /\ template' = template /\ settings' = settings
      /\ shared' = shared /\ pc' = pc /\ req' = req /\ Leaves(l)
      /\ lesson' = [lesson EXCEPT ![l] = NoLesson]
  BY DEF Remove
<1>2. lesson' \in [Lesson -> LessonRow]
  BY <1>1, NullTypes DEF GInv, TypeOK
<1>3. /\ \A m \in Lesson : m # l => lesson'[m] = lesson[m]
      /\ ~Exists(lesson'[l])
  BY <1>1 DEF GInv, TypeOK, NoLesson, Exists
<1>4. TypeOK /\ RequestsOK
  BY DEF GInv
<1>5. RequestsOK' /\ lost' \in [Request -> SUBSET (Template \X Time)]
  BY <1>1, <1>3, <1>4, LeavingKeeps
<1>6. TypeOK'
  BY <1>1, <1>2, <1>4, <1>5 DEF TypeOK, Active
<1>7. UniqueKeys'
  BY <1>3 DEF GInv, UniqueKeys
<1> QED
  BY <1>5, <1>6, <1>7 DEF GInv

-------------------------------------------------------------------------------
\* The theorems.

LEMMA StepKeeps == GInv /\ [Next]_vars => GInv'
<1> SUFFICES ASSUME GInv, [Next]_vars PROVE GInv'
  OBVIOUS
<1>1. CASE UNCHANGED vars
  BY <1>1 DEF vars, GInv, TypeOK, UniqueKeys, RequestsOK, Active
<1>2. ASSUME NEW r \in Request,
             \/ \E w \in Window : BeginGenerate(r, w[1], w[2])
             \/ \E from \in Time : RunScheduled(r, from)
             \/ \E e \in Enrollment, at \in Time : BeginCreateLesson(r, e, at)
             \/ \E t \in Template, slots \in SUBSET Slot, zone \in Zone :
                  BeginCreateTemplate(r, t, slots, zone)
             \/ \E t \in Template, p \in Patch : DeleteSlots(r, t, p)
             \/ \E t \in Template : DeactivateSlots(r, t)
      PROVE  GInv'
  BY <1>2, BeginnersKeep
<1>3. ASSUME NEW r \in Request,
             \/ ReadTemplates(r) \/ ShareEnrollments(r) \/ ReadExisting(r) \/ CreateMany(r)
             \/ ShareEnrollment(r)
             \/ \E l \in Lesson : CreateLesson(r, l)
             \/ CreateTemplate(r) \/ CreateSlots(r) \/ DeactivateTemplate(r) \/ Fail(r)
      PROVE  GInv'
  BY <1>3, ReadTemplatesKeeps, ShareEnrollmentsKeeps, ReadExistingKeeps, CreateManyKeeps,
     ShareEnrollmentKeeps, CreateLessonKeeps, CreateTemplateKeeps, CreateSlotsKeeps,
     DeactivateTemplateKeeps, FailKeeps
<1>4. ASSUME NEW t \in Template, NEW p \in Patch, UpdateTemplate(t, p) PROVE GInv'
  BY <1>4, TemplatesKeep
<1>5. ASSUME NEW e \in Enrollment,
             CreateEnrollment(e) \/ \E active \in BOOLEAN : UpdateEnrollment(e, active)
      PROVE  GInv'
  BY <1>5, EnrollmentsKeep
<1>6. ASSUME NEW enabled \in BOOLEAN, NEW ahead \in Ahead, UpdateSettings(enabled, ahead)
      PROVE  GInv'
  BY <1>6, SettingsKeep
<1>7. ASSUME NEW l \in Lesson,
             \/ Cancel(l) \/ Remove(l)
             \/ \E at \in Time : Move(l, at) \/ \E n \in Lesson : Reschedule(l, n, at)
      PROVE  GInv'
  BY <1>7, CancelKeeps, RemoveKeeps, MoveKeeps, RescheduleKeeps
<1> QED
  BY <1>1, <1>2, <1>3, <1>4, <1>5, <1>6, <1>7, Zenon DEF Next

LEMMA Invariance == Spec => []GInv
<1>1. Init => GInv
  BY InitKeeps
<1>2. GInv /\ [Next]_vars => GInv'
  BY StepKeeps
<1> QED
  BY <1>1, <1>2, PTL DEF Spec

\* Every variable keeps its type, and an enrollment that is held is active
\* (FOR SHARE in generate, create and ScheduleTemplatesService.create).
THEOREM GenerationTypeCorrect == Spec => []TypeOK
<1>1. GInv => TypeOK
  BY DEF GInv
<1> QED
  BY <1>1, Invariance, PTL

\* What a request writes when it commits was promised by an enrollment it holds.
LEMMA StepCreatesWhileEnrolled ==
  ASSUME GInv, [Next]_vars
  PROVE  /\ \A l \in Lesson :
              ~Exists(lesson[l]) /\ Exists(lesson'[l]) /\ pc' # pc
                => Active(lesson'[l].enrollment)
         /\ \A t \in Template :
              ~template[t].exists /\ template'[t].exists => Active(EnrollmentOf[t])
<1> DEFINE Goal ==
             /\ \A l \in Lesson :
                  ~Exists(lesson[l]) /\ Exists(lesson'[l]) /\ pc' # pc
                    => Active(lesson'[l].enrollment)
             /\ \A t \in Template :
                  ~template[t].exists /\ template'[t].exists => Active(EnrollmentOf[t])
<1>0. \A r \in Request : StepOK(pc[r], req[r], shared[r], lost[r], lesson)
  BY DEF GInv, RequestsOK
<1>1. ASSUME NEW r \in Request, CreateMany(r) PROVE Goal
  <2>1. template' = template /\ pc[r] = "create"
    BY <1>1 DEF CreateMany
  <2>2. PICK rows \in Assignments(req[r].keys \ Occupied(lesson)) : lesson' = Inserted(rows)
    BY <1>1 DEF CreateMany
  <2>3. req[r].keys \ Occupied(lesson) \subseteq Template \X Time
    BY DEF GInv, TypeOK, Asked
  <2>4. \A k \in req[r].keys : EnrollmentOf[k[1]] \in shared[r]
    BY <1>0, <2>1 DEF StepOK
  <2>5. ASSUME NEW l \in Lesson, ~Exists(lesson[l]), Exists(lesson'[l])
        PROVE  Active(lesson'[l].enrollment)
    <3>1. rows[l] # None => /\ rows[l] \in req[r].keys
                            /\ lesson'[l].enrollment = EnrollmentOf[rows[l][1]]
      BY <2>2, <2>3, InsertedRows DEF GInv
    <3>2. rows[l] # None
      BY <2>2, <2>3, <2>5, InsertedRows DEF GInv
    <3>3. lesson'[l].enrollment \in shared[r]
      BY <2>4, <3>1, <3>2
    <3> QED
      BY <3>3 DEF GInv, TypeOK
  <2> QED
    BY <2>1, <2>5
<1>2. ASSUME NEW r \in Request, NEW n \in Lesson, CreateLesson(r, n) PROVE Goal
  <2>1. /\ template' = template /\ pc[r] = "insert"
        /\ \A l \in Lesson : l # n => lesson'[l] = lesson[l]
        /\ lesson'[n].enrollment = req[r].enrollment
    BY <1>2 DEF CreateLesson, GInv, TypeOK
  <2>2. Active(req[r].enrollment)
    BY <1>0, <2>1 DEF StepOK, GInv, TypeOK
  <2> QED
    BY <2>1, <2>2
<1>3. ASSUME NEW r \in Request, CreateTemplate(r) PROVE Goal
  <2>1. /\ lesson' = lesson /\ pc[r] = "insert" /\ req[r].op = "template"
        /\ \A t \in Template : t # req[r].template => template'[t] = template[t]
    BY <1>3 DEF CreateTemplate, GInv, TypeOK
  <2>2. EnrollmentOf[req[r].template] \in shared[r]
    BY <1>0, <2>1 DEF StepOK
  <2> QED
    BY <2>1, <2>2 DEF GInv, TypeOK
<1>4. ASSUME NEW r \in Request, CreateSlots(r) PROVE Goal
  <2>1. lesson' = lesson /\ pc[r] = "slots"
    BY <1>4 DEF CreateSlots
  <2>2. req[r].template \in Template /\ req[r].patch \in Body
    BY <1>0, <2>1 DEF StepOK, GInv, TypeOK, Asked
  <2>3. Patched(req[r].template, req[r].patch).exists = template[req[r].template].exists
    BY <2>2, PatchedType DEF GInv
  <2>4. \A t \in Template : template'[t].exists = template[t].exists
    BY <1>4, <2>2, <2>3 DEF CreateSlots, GInv, TypeOK, TemplateRow, Patched
  <2> QED
    BY <2>1, <2>4
<1>5. ASSUME NEW t \in Template, NEW p \in Patch, UpdateTemplate(t, p) PROVE Goal
  <2>1. lesson' = lesson /\ template[t].exists
    BY <1>5 DEF UpdateTemplate
  <2>2. \A u \in Template : u # t => template'[u] = template[u]
    BY <1>5 DEF UpdateTemplate, GInv, TypeOK
  <2> QED
    BY <2>1, <2>2
<1>6. ASSUME UNCHANGED <<lesson, template>> PROVE Goal
  BY <1>6
<1>7. ASSUME UNCHANGED <<pc, template>> PROVE Goal
  BY <1>7
<1>8. ASSUME UNCHANGED vars PROVE Goal
  BY <1>8 DEF vars
<1>9. ASSUME NEW r \in Request,
             \/ \E w \in Window : BeginGenerate(r, w[1], w[2])
             \/ \E from \in Time : RunScheduled(r, from)
             \/ \E e \in Enrollment, at \in Time : BeginCreateLesson(r, e, at)
             \/ \E t \in Template, slots \in SUBSET Slot, zone \in Zone :
                  BeginCreateTemplate(r, t, slots, zone)
             \/ \E t \in Template, p \in Patch : DeleteSlots(r, t, p)
             \/ \E t \in Template : DeactivateSlots(r, t)
             \/ ReadTemplates(r) \/ ShareEnrollments(r) \/ ReadExisting(r)
             \/ ShareEnrollment(r) \/ Fail(r)
      PROVE  UNCHANGED <<lesson, template>>
  BY <1>9, Zenon DEF Begin, BeginGenerate, RunScheduled, BeginCreateLesson,
     BeginCreateTemplate, DeleteSlots, DeactivateSlots, ReadTemplates, ShareEnrollments,
     ReadExisting, ShareEnrollment, Fail
<1>10. ASSUME NEW e \in Enrollment,
              CreateEnrollment(e) \/ \E active \in BOOLEAN : UpdateEnrollment(e, active)
       PROVE  UNCHANGED <<pc, template>>
  BY <1>10 DEF CreateEnrollment, UpdateEnrollment
<1>11. ASSUME NEW enabled \in BOOLEAN, NEW ahead \in Ahead, UpdateSettings(enabled, ahead)
       PROVE  UNCHANGED <<pc, template>>
  BY <1>11 DEF UpdateSettings
<1>12. ASSUME NEW l \in Lesson,
              \/ Cancel(l) \/ Remove(l)
              \/ \E at \in Time : Move(l, at) \/ \E n \in Lesson : Reschedule(l, n, at)
       PROVE  UNCHANGED <<pc, template>>
  BY <1>12 DEF Cancel, Remove, Move, Reschedule
<1>13. ASSUME UNCHANGED <<lesson, template>> \/ UNCHANGED <<pc, template>> PROVE Goal
  BY <1>6, <1>7, <1>13
<1>14. ASSUME NEW r \in Request, DeactivateTemplate(r) PROVE Goal
  <2>1. lesson' = lesson
    BY <1>14 DEF DeactivateTemplate
  <2>2. \A t \in Template : template'[t].exists = template[t].exists
    BY <1>14 DEF DeactivateTemplate, GInv, TypeOK, TemplateRow
  <2> QED
    BY <2>1, <2>2
<1> HIDE DEF Goal
<1>15. ASSUME NEW r \in Request,
              \/ \E w \in Window : BeginGenerate(r, w[1], w[2])
              \/ \E from \in Time : RunScheduled(r, from)
              \/ \E e \in Enrollment, at \in Time : BeginCreateLesson(r, e, at)
              \/ \E t \in Template, slots \in SUBSET Slot, zone \in Zone :
                   BeginCreateTemplate(r, t, slots, zone)
              \/ ReadTemplates(r) \/ ShareEnrollments(r) \/ ReadExisting(r) \/ CreateMany(r)
              \/ ShareEnrollment(r)
              \/ \E l \in Lesson : CreateLesson(r, l)
              \/ CreateTemplate(r)
              \/ \E t \in Template, p \in Patch : DeleteSlots(r, t, p)
              \/ CreateSlots(r)
              \/ \E t \in Template : DeactivateSlots(r, t)
              \/ DeactivateTemplate(r)
              \/ Fail(r)
       PROVE  Goal
  BY <1>1, <1>2, <1>3, <1>4, <1>9, <1>13, <1>15, <1>14, Zenon
<1>16. ASSUME NEW t \in Template, NEW p \in Patch, UpdateTemplate(t, p) PROVE Goal
  BY <1>5, <1>16
<1>17. ASSUME NEW e \in Enrollment,
              CreateEnrollment(e) \/ \E active \in BOOLEAN : UpdateEnrollment(e, active)
       PROVE  Goal
  BY <1>10, <1>13, <1>17
<1>18. ASSUME NEW enabled \in BOOLEAN, NEW ahead \in Ahead, UpdateSettings(enabled, ahead)
       PROVE  Goal
  BY <1>11, <1>13, <1>18
<1>19. ASSUME NEW l \in Lesson,
              \/ Cancel(l) \/ Remove(l)
              \/ \E at \in Time : Move(l, at) \/ \E n \in Lesson : Reschedule(l, n, at)
       PROVE  Goal
  BY <1>12, <1>13, <1>19
<1>20. ASSUME Next PROVE Goal
  BY <1>15, <1>16, <1>17, <1>18, <1>19, <1>20, Zenon DEF Next
<1>21. Goal
  BY <1>8, <1>20
<1> QED
  BY <1>21 DEF Goal

\* A lesson or a template is created under an enrollment that is active then: the
\* request holds the enrollment FOR SHARE.
THEOREM GenerationCreatesWhileEnrolled == Spec => CreatedWhileEnrolled
<1>1. GInv /\ [Next]_vars =>
        [/\ \A l \in Lesson :
              ~Exists(lesson[l]) /\ Exists(lesson'[l]) /\ pc' # pc
                => Active(lesson'[l].enrollment)
         /\ \A t \in Template :
              ~template[t].exists /\ template'[t].exists => Active(EnrollmentOf[t])]_vars
  BY StepCreatesWhileEnrolled
<1> QED
  BY <1>1, Invariance, PTL DEF Spec, CreatedWhileEnrolled

-------------------------------------------------------------------------------
\* Nothing that was planned is missing.

\* What the commit of a generation leaves behind.
LEMMA CommitIsComplete ==
  ASSUME GInv, NEW r \in Request, CreateMany(r), NEW k \in req[r].plan \ lost[r]
  PROVE  \E l \in Lesson : /\ Exists(lesson'[l]) /\ Key(lesson'[l]) = k
                           /\ \A m \in Lesson : Exists(lesson'[m]) /\ Key(lesson'[m]) = k
                                                 => m = l
<1>1. pc[r] = "create" /\ StepOK(pc[r], req[r], shared[r], lost[r], lesson)
  BY DEF CreateMany, GInv, RequestsOK
<1>2. PICK rows \in Assignments(req[r].keys \ Occupied(lesson)) : lesson' = Inserted(rows)
  BY DEF CreateMany
<1>3. req[r].keys \subseteq Template \X Time /\ req[r].plan \subseteq Template \X Time
  BY DEF GInv, TypeOK, Asked
<1>4. /\ UniqueKeys'
      /\ Occupied(lesson) \subseteq Occupied(lesson')
      /\ req[r].keys \subseteq Occupied(lesson')
  BY <1>2, <1>3, InsertKeeps DEF GInv
<1>5. k \in req[r].keys \/ k \in Occupied(lesson)
  BY <1>1 DEF StepOK
<1>6. k \in Occupied(lesson')
  BY <1>4, <1>5
<1>7. PICK l \in Lesson : Exists(lesson'[l]) /\ Key(lesson'[l]) = k
  BY <1>6, OccupiedBy
<1>8. lesson'[l].template # None
  <2>1. k[1] \in Template
    BY <1>3
  <2>2. lesson'[l].template = k[1]
    BY <1>7 DEF Key
  <2> QED
    BY <2>1, <2>2, GenerationAssumption
<1>9. ASSUME NEW m \in Lesson, Exists(lesson'[m]), Key(lesson'[m]) = k PROVE m = l
  BY <1>4, <1>7, <1>8, <1>9 DEF UniqueKeys
<1> QED
  BY <1>7, <1>9

\* A generation that commits, whether it inserts anything or not, leaves every
\* lesson it planned in the ledger, once: what another replica inserted in between
\* is skipped by ON CONFLICT, and nothing else is (LessonsService.generate).
THEOREM GenerationCompletes == Spec => GenerationIsComplete
<1>1. GInv /\ [Next]_vars =>
        [\A r \in Request : CreateMany(r) =>
           \A k \in req[r].plan \ lost[r] :
             \E l \in Lesson : /\ Exists(lesson'[l]) /\ Key(lesson'[l]) = k
                               /\ \A m \in Lesson : Exists(lesson'[m]) /\ Key(lesson'[m]) = k
                                                     => m = l]_vars
  BY CommitIsComplete
<1> QED
  BY <1>1, Invariance, PTL DEF Spec, GenerationIsComplete

===============================================================================
