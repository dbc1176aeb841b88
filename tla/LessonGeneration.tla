--------------------------- MODULE LessonGeneration ---------------------------
(***************************************************************************)
(* How lessons come into being: one by one and generated from the weekly   *)
(* slots of schedule templates (lessons.service.ts,                        *)
(* lesson-generation.service.ts, schedule-templates.service.ts), under     *)
(* enrollments that are opened and closed meanwhile                        *)
(* (enrollments.service.ts).  The generating cron runs on every replica,   *)
(* next to managers who ask for a generation themselves.                   *)
(*                                                                         *)
(* Time is a finite number of instants; DueAt says when a weekly slot      *)
(* falls due in a time zone.  Prices, balances and the end of a lesson are *)
(* in LessonLedger: here a completed lesson is one nobody moves.           *)
(*                                                                         *)
(* A slot of a template is known by the edit that wrote it, as by its row  *)
(* id.  lost is history: what was taken away from its time, by template,   *)
(* since a generation looked.                                              *)
(***************************************************************************)
EXTENDS Integers

CONSTANTS
    Enrollment,
    Template,
    EnrollmentOf,   \* the enrollment of each template
    Slot,           \* days of the week with a time
    Zone,           \* time zones
    DueAt,          \* the instants of each slot in each zone
    Now,            \* the last instant
    Window,         \* the spans of time that generations are asked for
    Ahead,          \* how far the cron generates ahead
    Patch,          \* the PATCH bodies that templates get
    Lesson,         \* lesson ids
    Request,        \* generations and other transactions, on all replicas
    MaxEdits,       \* bound on the slot edits of a template
    None

Time == 0 .. Now

\* A field of a PATCH is the set of the values it gives: none or one; the new
\* slots are none or some.
Field(S) == {{}} \cup {{v} : v \in S}
Given(field, current) == IF field = {} THEN current ELSE CHOOSE v \in field : TRUE

Body == [slots : SUBSET Slot, active : Field(BOOLEAN), zone : Field(Zone)]

ASSUME GenerationAssumption ==
    /\ Now \in Nat /\ MaxEdits \in Nat \ {0}
    /\ EnrollmentOf \in [Template -> Enrollment]
    /\ DueAt \in [Slot \X Zone -> SUBSET Time]
    /\ Window \subseteq {w \in Time \X Time : w[1] <= w[2]}
    /\ Ahead \subseteq Time /\ Ahead # {}
    /\ Patch \subseteq Body
    /\ None \notin Template \cup Enrollment \cup (Template \X Time)

VARIABLES
    enrollment, \* enrollments: "none", "active", "closed"
    template,   \* schedule_templates with their slots
    lesson,     \* lessons
    settings,   \* lesson_generation_settings
    shared,     \* enrollments each request holds FOR SHARE
    pc,         \* what each request does next
    req,        \* what each request was asked and has read
    lost

vars == <<enrollment, template, lesson, settings, shared, pc, req, lost>>

NoTemplate == [exists |-> FALSE, active |-> FALSE, zone |-> None, slots |-> {}, edits |-> 0]
NoLesson == [status |-> "none", enrollment |-> None, template |-> None, at |-> 0]
NoPatch == [slots |-> {}, active |-> {}, zone |-> {}]
NoRequest == [op |-> "none", enrollment |-> None, template |-> None, from |-> 0, to |-> 0,
              patch |-> NoPatch, old |-> {}, plan |-> {}, keys |-> {}]

Init ==
    /\ enrollment = [e \in Enrollment |-> "none"]
    /\ template = [t \in Template |-> NoTemplate]
    /\ lesson = [l \in Lesson |-> NoLesson]
    /\ settings \in [enabled : {FALSE}, ahead : Ahead]
    /\ shared = [r \in Request |-> {}]
    /\ pc = [r \in Request |-> "idle"]
    /\ req = [r \in Request |-> NoRequest]
    /\ lost = [r \in Request |-> {}]

Active(e) == enrollment[e] = "active"
Exists(row) == row.status # "none"

\* What the unique index over (templateId, scheduledAt) sees of a lesson.
Key(row) == <<row.template, row.at>>
Occupied(lessons) == {Key(lessons[l]) : l \in {k \in Lesson : Exists(lessons[k])}}

\* The slots of a template, as rows.
SlotRows(slots, edit) == [slot : slots, active : {TRUE}, edit : {edit}]

-------------------------------------------------------------------------------
\* Requests begin and end.

Begin(r, asked, step) ==
    /\ pc[r] = "idle"
    /\ pc' = [pc EXCEPT ![r] = step]
    /\ req' = [req EXCEPT ![r] = asked]
    /\ lost' = [lost EXCEPT ![r] = {}]
    /\ UNCHANGED <<enrollment, template, lesson, settings, shared>>

End(r) ==
    /\ shared' = [shared EXCEPT ![r] = {}]
    /\ pc' = [pc EXCEPT ![r] = "idle"]
    /\ req' = [req EXCEPT ![r] = NoRequest]
    /\ lost' = [lost EXCEPT ![r] = {}]

BeginGenerate(r, from, to) ==
    Begin(r, [NoRequest EXCEPT !.op = "generate", !.from = from, !.to = to], "templates")

\* runScheduled, at three in the morning of the day from.
RunScheduled(r, from) ==
    /\ settings.enabled
    /\ from + settings.ahead \in Time
    /\ BeginGenerate(r, from, from + settings.ahead)

BeginCreateLesson(r, e, at) ==
    Begin(r, [NoRequest EXCEPT !.op = "lesson", !.enrollment = e, !.from = at], "share")

BeginCreateTemplate(r, t, slots, zone) ==
    /\ ~template[t].exists
    /\ slots # {}
    /\ Begin(r, [NoRequest EXCEPT !.op = "template", !.enrollment = EnrollmentOf[t],
                   !.template = t,
                   !.patch = [NoPatch EXCEPT !.slots = slots, !.zone = {zone}]], "share")

\* A refusal or an error: the transaction rolls back.
Fail(r) ==
    /\ pc[r] # "idle"
    /\ End(r)
    /\ UNCHANGED <<enrollment, template, lesson, settings>>

-------------------------------------------------------------------------------
\* Generation.

Planned(t, from, to) ==
    {t} \X {at \in from .. to :
        \E row \in template[t].slots : row.active /\ at \in DueAt[row.slot, template[t].zone]}

\* The active templates of active enrollments, with their active slots: no lock.
ReadTemplates(r) ==
    LET read == {t \in Template : template[t].active /\ Active(EnrollmentOf[t])}
        plan == UNION {Planned(t, req[r].from, req[r].to) : t \in read}
    IN  /\ pc[r] = "templates"
        /\ req' = [req EXCEPT ![r].plan = plan]
        /\ pc' = [pc EXCEPT ![r] = "enrollments"]
        /\ UNCHANGED <<enrollment, template, lesson, settings, shared, lost>>

\* Faulty variant of ShareEnrollments: SELECT without FOR SHARE.
ShareEnrollmentsUnlocked(r) ==
    LET active == {e \in {EnrollmentOf[k[1]] : k \in req[r].plan} : Active(e)}
        plan == {k \in req[r].plan : EnrollmentOf[k[1]] \in active}
    IN  /\ pc[r] = "enrollments"
        /\ req' = [req EXCEPT ![r].plan = plan, ![r].keys = plan]
        /\ pc' = [pc EXCEPT ![r] = "existing"]
        /\ UNCHANGED <<enrollment, template, lesson, settings, shared, lost>>

\* The enrollments that are still active, locked against being closed.
ShareEnrollments(r) ==
    LET active == {e \in {EnrollmentOf[k[1]] : k \in req[r].plan} : Active(e)}
        plan == {k \in req[r].plan : EnrollmentOf[k[1]] \in active}
    IN  /\ pc[r] = "enrollments"
        /\ shared' = [shared EXCEPT ![r] = active]
        /\ req' = [req EXCEPT ![r].plan = plan, ![r].keys = plan]
        /\ pc' = [pc EXCEPT ![r] = "existing"]
        /\ UNCHANGED <<enrollment, template, lesson, settings, lost>>

\* Canceled lessons do not count here; the unique index counts them all.
ReadExisting(r) ==
    LET existing == {Key(lesson[l]) : l \in {k \in Lesson :
                                               lesson[k].status \notin {"none", "canceled"}}}
    IN  /\ pc[r] = "existing"
        /\ req' = [req EXCEPT ![r].keys = @ \ existing]
        /\ pc' = [pc EXCEPT ![r] = "create"]
        /\ UNCHANGED <<enrollment, template, lesson, settings, shared, lost>>

Inserted(rows) ==
    [l \in Lesson |->
       IF rows[l] = None THEN lesson[l]
       ELSE [status |-> "scheduled", enrollment |-> EnrollmentOf[rows[l][1]],
             template |-> rows[l][1], at |-> rows[l][2]]]

\* Unused ids for the keys, one each.
Assignments(keys) ==
    {rows \in [Lesson -> keys \cup {None}] :
       /\ \A l \in Lesson : rows[l] # None => ~Exists(lesson[l])
       /\ \A k \in keys : \E l \in Lesson :
            rows[l] = k /\ \A m \in Lesson : rows[m] = k => m = l}

\* Faulty variant of CreateMany: INSERT without ON CONFLICT DO NOTHING; a lesson
\* that is there already makes it insert none, as if all were.
CreateManyOrNothing(r) ==
    /\ pc[r] = "create"
    /\ IF req[r].keys \cap Occupied(lesson) = {}
       THEN \E rows \in Assignments(req[r].keys) : lesson' = Inserted(rows)
       ELSE UNCHANGED lesson
    /\ End(r)
    /\ UNCHANGED <<enrollment, template, settings>>

\* createMany, skipping what another transaction has inserted since; commit. No
\* keys are left when nothing is planned or everything is there: the early returns.
CreateMany(r) ==
    /\ pc[r] = "create"
    /\ \E rows \in Assignments(req[r].keys \ Occupied(lesson)) : lesson' = Inserted(rows)
    /\ End(r)
    /\ UNCHANGED <<enrollment, template, settings>>

-------------------------------------------------------------------------------
\* Lessons and templates created one by one.

\* SELECT ... FOR SHARE of an active enrollment.
ShareEnrollment(r) ==
    /\ pc[r] = "share"
    /\ Active(req[r].enrollment)
    /\ shared' = [shared EXCEPT ![r] = {req[r].enrollment}]
    /\ pc' = [pc EXCEPT ![r] = "insert"]
    /\ UNCHANGED <<enrollment, template, lesson, settings, req, lost>>

CreateLesson(r, l) ==
    /\ pc[r] = "insert" /\ req[r].op = "lesson"
    /\ ~Exists(lesson[l])
    /\ lesson' = [lesson EXCEPT ![l] = [status |-> "scheduled",
                     enrollment |-> req[r].enrollment, template |-> None,
                     at |-> req[r].from]]
    /\ End(r)
    /\ UNCHANGED <<enrollment, template, settings>>

CreateTemplate(r) ==
    LET t == req[r].template
    IN  /\ pc[r] = "insert" /\ req[r].op = "template"
        /\ ~template[t].exists
        /\ template' = [template EXCEPT ![t] = [exists |-> TRUE, active |-> TRUE,
                          zone |-> Given(req[r].patch.zone, None),
                          slots |-> SlotRows(req[r].patch.slots, 1), edits |-> 1]]
        /\ End(r)
        /\ UNCHANGED <<enrollment, lesson, settings>>

-------------------------------------------------------------------------------
\* Templates, enrollments and settings change.

\* A PATCH of isActive or the time zone holds the template's row.
HoldsRow(r, t) ==
    /\ pc[r] = "slots" /\ req[r].template = t
    /\ req[r].patch.active # {} \/ req[r].patch.zone # {}

Patched(t, p) ==
    [template[t] EXCEPT !.active = Given(p.active, @), !.zone = Given(p.zone, @)]

UpdateTemplate(t, p) ==
    /\ template[t].exists
    /\ p.slots = {}
    /\ \A r \in Request : ~HoldsRow(r, t)
    /\ template' = [template EXCEPT ![t] = Patched(t, p)]
    /\ UNCHANGED <<enrollment, lesson, settings, shared, pc, req, lost>>

\* With new slots: the deletion takes the rows that were committed when it
\* began, which another PATCH may have replaced by the time this one commits.
DeleteSlots(r, t, p) ==
    /\ template[t].exists
    /\ p.slots # {}
    /\ p.active # {} \/ p.zone # {} => \A q \in Request : ~HoldsRow(q, t)
    /\ Begin(r, [NoRequest EXCEPT !.op = "patch", !.template = t, !.patch = p,
                   !.old = {row.edit : row \in template[t].slots}], "slots")

CreateSlots(r) ==
    LET t == req[r].template
        p == req[r].patch
        edit == template[t].edits + 1
        kept == {row \in template[t].slots : row.edit \notin req[r].old}
    IN  /\ pc[r] = "slots"
        /\ edit <= MaxEdits
        /\ template' = [template EXCEPT ![t] =
             [Patched(t, p) EXCEPT !.slots = kept \cup SlotRows(p.slots, edit),
                                   !.edits = edit]]
        /\ End(r)
        /\ UNCHANGED <<enrollment, lesson, settings>>

\* deactivate switches off the slots that are committed when its UPDATE begins;
\* PATCHes that delete them meanwhile and this one wait for one another's rows:
\* whoever ends first had them first.
DeactivateSlots(r, t) ==
    /\ template[t].exists
    /\ Begin(r, [NoRequest EXCEPT !.op = "deactivate", !.template = t,
                   !.old = {row.edit : row \in template[t].slots}], "deactivate")

\* Then the template's row, waiting for a PATCH that holds it; commit. New slots
\* of a PATCH that committed in between stay active, and those that are off stay
\* so when the template is switched on again.
DeactivateTemplate(r) ==
    LET t == req[r].template
        off(row) == IF row.edit \in req[r].old THEN [row EXCEPT !.active = FALSE] ELSE row
    IN  /\ pc[r] = "deactivate"
        /\ \A q \in Request : ~HoldsRow(q, t)
        /\ template' = [template EXCEPT ![t].active = FALSE,
                                        ![t].slots = {off(row) : row \in @}]
        /\ End(r)
        /\ UNCHANGED <<enrollment, lesson, settings>>

\* The unique index admits one enrollment of a teacher, a student and a course.
CreateEnrollment(e) ==
    /\ enrollment[e] = "none"
    /\ enrollment' = [enrollment EXCEPT ![e] = "active"]
    /\ UNCHANGED <<template, lesson, settings, shared, pc, req, lost>>

\* Faulty variant of UpdateEnrollment: the lock of the readers is one that an
\* UPDATE of isActive does not wait for.
UpdateEnrollmentAtOnce(e, active) ==
    /\ enrollment[e] # "none"
    /\ enrollment' = [enrollment EXCEPT ![e] = IF active THEN "active" ELSE "closed"]
    /\ UNCHANGED <<template, lesson, settings, shared, pc, req, lost>>

\* The UPDATE waits for every transaction that holds the enrollment FOR SHARE.
UpdateEnrollment(e, active) ==
    /\ enrollment[e] # "none"
    /\ \A r \in Request : e \notin shared[r]
    /\ enrollment' = [enrollment EXCEPT ![e] = IF active THEN "active" ELSE "closed"]
    /\ UNCHANGED <<template, lesson, settings, shared, pc, req, lost>>

UpdateSettings(enabled, ahead) ==
    /\ settings' = [enabled |-> enabled, ahead |-> ahead]
    /\ UNCHANGED <<enrollment, template, lesson, shared, pc, req, lost>>

-------------------------------------------------------------------------------
\* Lessons move and disappear.

Scheduled(l) == lesson[l].status = "scheduled"

Free(l, at) == lesson[l].template = None \/ <<lesson[l].template, at>> \notin Occupied(lesson)

Leaves(l) ==
    lost' = [r \in Request |-> IF pc[r] \in {"existing", "create"}
                               THEN lost[r] \cup ({Key(lesson[l])} \cap req[r].plan)
                               ELSE lost[r]]

Cancel(l) ==
    /\ Scheduled(l)
    /\ lesson' = [lesson EXCEPT ![l].status = "canceled"]
    /\ UNCHANGED <<enrollment, template, settings, shared, pc, req, lost>>

\* PATCH of scheduledAt: the lesson stays the template's.
Move(l, at) ==
    /\ Scheduled(l) /\ lesson[l].at # at /\ Free(l, at)
    /\ lesson' = [lesson EXCEPT ![l].at = at]
    /\ Leaves(l)
    /\ UNCHANGED <<enrollment, template, settings, shared, pc, req>>

\* The replacement is the template's too; the original keeps its time.
Reschedule(l, n, at) ==
    /\ Scheduled(l) /\ ~Exists(lesson[n]) /\ Free(l, at)
    /\ lesson' = [lesson EXCEPT ![n] = [lesson[l] EXCEPT !.at = at],
                                ![l].status = "rescheduled"]
    /\ UNCHANGED <<enrollment, template, settings, shared, pc, req, lost>>

Remove(l) ==
    /\ Exists(lesson[l])
    /\ lesson' = [lesson EXCEPT ![l] = NoLesson]
    /\ Leaves(l)
    /\ UNCHANGED <<enrollment, template, settings, shared, pc, req>>

-------------------------------------------------------------------------------
Next ==
    \/ \E r \in Request :
         \/ \E w \in Window : BeginGenerate(r, w[1], w[2])
         \/ \E from \in Time : RunScheduled(r, from)
         \/ \E e \in Enrollment, at \in Time : BeginCreateLesson(r, e, at)
         \/ \E t \in Template, slots \in SUBSET Slot, zone \in Zone :
              BeginCreateTemplate(r, t, slots, zone)
         \/ ReadTemplates(r) \/ ShareEnrollments(r) \/ ReadExisting(r) \/ CreateMany(r)
         \/ ShareEnrollment(r)
         \/ \E l \in Lesson : CreateLesson(r, l)
         \/ CreateTemplate(r)
         \/ \E t \in Template, p \in Patch : DeleteSlots(r, t, p)
         \/ CreateSlots(r)
         \/ \E t \in Template : DeactivateSlots(r, t)
         \/ DeactivateTemplate(r)
         \/ Fail(r)
    \/ \E t \in Template, p \in Patch : UpdateTemplate(t, p)
    \/ \E e \in Enrollment : \/ CreateEnrollment(e)
                             \/ \E active \in BOOLEAN : UpdateEnrollment(e, active)
    \/ \E enabled \in BOOLEAN, ahead \in Ahead : UpdateSettings(enabled, ahead)
    \/ \E l \in Lesson :
         \/ Cancel(l) \/ Remove(l)
         \/ \E at \in Time : Move(l, at) \/ \E n \in Lesson : Reschedule(l, n, at)

Spec == Init /\ [][Next]_vars

-------------------------------------------------------------------------------
\* Properties.

SlotRow == [slot : Slot, active : BOOLEAN, edit : 1 .. MaxEdits]

TemplateRow == [exists : BOOLEAN, active : BOOLEAN, zone : Zone \cup {None},
                slots : SUBSET SlotRow, edits : 0 .. MaxEdits]

LessonRow == [status : {"none", "scheduled", "canceled", "rescheduled"},
              enrollment : Enrollment \cup {None}, template : Template \cup {None},
              at : Time]

Asked == [op : {"none", "generate", "lesson", "template", "patch", "deactivate"},
          enrollment : Enrollment \cup {None}, template : Template \cup {None},
          from : Time, to : Time, patch : Body, old : SUBSET (1 .. MaxEdits),
          plan : SUBSET (Template \X Time), keys : SUBSET (Template \X Time)]

\* Every variable has its type; an enrollment that is held is active.
TypeOK ==
    /\ enrollment \in [Enrollment -> {"none", "active", "closed"}]
    /\ template \in [Template -> TemplateRow]
    /\ lesson \in [Lesson -> LessonRow]
    /\ settings \in [enabled : BOOLEAN, ahead : Ahead]
    /\ shared \in [Request -> SUBSET Enrollment]
    /\ \A r \in Request : \A e \in shared[r] : Active(e)
    /\ pc \in [Request -> {"idle", "templates", "enrollments", "existing", "create",
                           "share", "insert", "slots", "deactivate"}]
    /\ req \in [Request -> Asked]
    /\ lost \in [Request -> SUBSET (Template \X Time)]

\* A lesson or a template comes into being under an enrollment that is active at
\* that moment, though the templates were read before the enrollment was closed
\* (LessonsService.create and generate, ScheduleTemplatesService.create against
\* EnrollmentsService.update).  A replacement of a lesson may come later.
CreatedWhileEnrolled ==
    [][/\ \A l \in Lesson :
            ~Exists(lesson[l]) /\ Exists(lesson'[l]) /\ pc' # pc
              => Active(lesson'[l].enrollment)
       /\ \A t \in Template :
            ~template[t].exists /\ template'[t].exists => Active(EnrollmentOf[t])]_vars

\* When a generation commits, whether it inserts all that it planned, some of it
\* or nothing, every lesson it planned is there once: made by it, by another
\* replica or before, unless it was moved or removed while it ran
\* (LessonsService.generate).
GenerationIsComplete ==
    [][\A r \in Request : CreateMany(r) =>
         \A k \in req[r].plan \ lost[r] :
           \E l \in Lesson : /\ Exists(lesson'[l]) /\ Key(lesson'[l]) = k
                             /\ \A m \in Lesson : Exists(lesson'[m]) /\ Key(lesson'[m]) = k
                                                   => m = l]_vars

===============================================================================
