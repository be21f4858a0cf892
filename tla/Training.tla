------------------------------ MODULE Training ------------------------------
(***************************************************************************)
(* One assignment of a training course: the learner's and the managers'    *)
(* requests, and the completion gates evaluated from what they stored      *)
(* (services/training.service.ts, controllers/training.controller.ts).     *)
(* A request is a list of statements without a transaction; the reads of   *)
(* an evaluation run in parallel, so each takes its own moment.  Course    *)
(* authoring appears as an edit of the live tables.                        *)
(***************************************************************************)
EXTENDS Naturals, FiniteSetsExt

CONSTANTS Request,     \* requests under way at one time
          Lesson, Quiz,
          Null,
          Bounds       \* bounds to explore; Init chooses one

\* What the gates read of a course: its lessons and quizzes, how many lessons want an upload,
\* the completion criteria, and whether assigning it authors a final assessment.
Course == [lessons : SUBSET Lesson, quizzes : SUBSET Quiz, checks : Nat,
           minutes : Nat, passing : Nat \cup {Null}, tries : Nat \cup {Null},
           approval : BOOLEAN, capstone : BOOLEAN]

Kind == {"enroll", "progress", "attempt", "ack", "author", "submit", "grade", "complete", "overdue"}

\* The published version, what the live course may be edited to, the requests that come, how
\* many, the minutes one of them credits, and how many uploads, changes of the due date and
\* failed statements.
Bound == [course : Course, edits : SUBSET Course, kinds : SUBSET Kind, requests : Nat,
          credits : SUBSET Nat, uploads : Nat, dues : Nat, mishaps : Nat]

ASSUME BoundsAreBounds == Bounds \subseteq Bound

VARIABLES row, tables, live,
          past,      \* the due date has passed
          requests,  \* requests[r] : what r has read and is about to do
          left,      \* what is left of the bound
          met,       \* history: met[r] : the gates that were green at some time of r's evaluation
          chosen, overlapped, misread  \* history: completed by a request; two at a time; a read failed

vars == <<row, tables, live, past, requests, left, met, chosen, overlapped, misread>>

Status == {"NOT_STARTED", "IN_PROGRESS", "QUIZ_PENDING", "ASSIGNMENT_PENDING",
           "FINAL_ASSESSMENT_PENDING", "MANAGER_REVIEW_PENDING", "READY_TO_COMPLETE",
           "COMPLETED", "FAILED", "OVERDUE"}

\* The values of the column's type: a statement that writes another one is refused.
ColumnStatus == Status \ {"READY_TO_COMPLETE"}

\* pinned: course_version_id is set; stamped: completed_at is set.
Row == [status : ColumnStatus \cup {"none"}, pinned : BOOLEAN, stamped : BOOLEAN]
NoRow == [status |-> "none", pinned |-> FALSE, stamped |-> FALSE]

Approval == {"PENDING", "SUBMITTED", "APPROVED", "REJECTED"}
FinalAssessment == [passed : BOOLEAN, approval : Approval]
Progress == [completed : BOOLEAN, minutes : Nat]

\* nth: its place in time among the attempts at its quiz.
Attempt == [quiz : Quiz, nth : Nat, number : Nat, passed : BOOLEAN]

Empty == [progress |-> [l \in Lesson |-> [completed |-> FALSE, minutes |-> 0]],
          attempts |-> {}, uploads |-> 0, ack |-> FALSE, final |-> Null]
Table == {"progress", "attempts", "uploads", "ack", "final"}
Idle == [stage |-> "idle"]

-----------------------------------------------------------------------------
(* The gates and the status derived from them *)

AttemptsAt(attempts, q) == {a \in attempts : a.quiz = q}

\* The most recent attempt counts.
Passed(attempts, q) ==
    \E a \in AttemptsAt(attempts, q) : a.passed /\ \A b \in AttemptsAt(attempts, q) : b.nth <= a.nth

\* Mutant of Number: the attempts at every quiz count.
NumberOfAny(attempts, q) == Max({0} \cup {a.number : a \in attempts})

Number(attempts, q) == Max({0} \cup {a.number : a \in AttemptsAt(attempts, q)})

Exceeded(c, attempts) ==
    c.tries # Null /\ \E q \in c.quizzes : Number(attempts, q) > c.tries /\ ~Passed(attempts, q)

Earned(c, attempts) == {q \in c.quizzes : Passed(attempts, q)}
Done(c, progress) == {l \in c.lessons : progress[l].completed}
Studied(progress) == MapThenSumSet(LAMBDA l : progress[l].minutes, Lesson)

\* Each gate looks at one table.
QuizGate(c, attempts) ==
    \/ c.quizzes = {}
    \/ c.passing = Null /\ Earned(c, attempts) = c.quizzes
    \/ c.passing # Null /\ ~Exceeded(c, attempts) /\ Cardinality(Earned(c, attempts)) >= c.passing

Green(gate, c, s) ==
    CASE gate = "lessons" -> Done(c, s.progress) = c.lessons
      [] gate = "time" -> Studied(s.progress) >= c.minutes
      [] gate = "uploads" -> s.uploads >= c.checks
      [] gate = "quiz" -> QuizGate(c, s.attempts)
      [] gate = "final" -> s.final = Null \/ (s.final.passed /\ s.final.approval # "REJECTED")
      [] gate = "ack" -> s.ack
      [] gate = "approval" -> c.approval => s.final # Null /\ s.final.approval = "APPROVED"

Gate == {"lessons", "time", "uploads", "quiz", "final", "ack", "approval"}
GreenGates(c, s) == {gate \in Gate : Green(gate, c, s)}

Touched(c, s) ==
    \/ Done(c, s.progress) # {} \/ Studied(s.progress) > 0 \/ s.ack \/ s.final # Null
    \/ Earned(c, s.attempts) # {}

\* Mutant of Blockers: the approval is asked for only while there is no final assessment.
BlockersButApproval(c, s) ==
    (Gate \ GreenGates(c, s)) \ (IF s.final = Null THEN {} ELSE {"approval"})

Blockers(c, s) == Gate \ GreenGates(c, s)

\* Mutant of Finished: the last gate completes the course.
FinishedAtOnce == "COMPLETED"

Finished == "READY_TO_COMPLETE"

\* The first that applies.
deriveStatus(c, s) ==
    LET open == Blockers(c, s)
    IN  IF Exceeded(c, s.attempts) THEN "FAILED"
        ELSE IF ~Touched(c, s) THEN "NOT_STARTED"
        ELSE IF open = {} THEN Finished
        ELSE IF open \cap {"lessons", "time", "uploads"} # {} THEN "IN_PROGRESS"
        ELSE IF "quiz" \in open THEN "QUIZ_PENDING"
        ELSE IF "final" \in open \/ ("ack" \in open /\ s.final # Null) THEN "FINAL_ASSESSMENT_PENDING"
        ELSE IF "ack" \in open THEN "IN_PROGRESS"
        ELSE "MANAGER_REVIEW_PENDING"

-----------------------------------------------------------------------------
Init ==
    /\ left \in Bounds /\ live = left.course
    /\ row = NoRow /\ tables = Empty /\ past = FALSE
    /\ requests = [r \in Request |-> Idle]
    /\ met = [r \in Request |-> {}]
    /\ chosen = FALSE /\ overlapped = FALSE /\ misread = FALSE

Spend(what) == left[what] > 0 /\ left' = [left EXCEPT ![what] = @ - 1]

\* A request of a kind comes; all but those that assign are about an assignment that is there.
Comes(r, kind) ==
    /\ requests[r] = Idle /\ kind \in left.kinds /\ row # NoRow
    /\ Spend("requests")

Goto(r, next) == requests' = [requests EXCEPT ![r] = next]

Evaluate(goal) == [stage |-> "content", goal |-> goal]

\* The course content the assignment is pinned to.
Pinned == IF row.pinned THEN left.course ELSE live

\* Mutant of Update: the column takes any status.
UpdateAny(status, stamped) == row' = [row EXCEPT !.status = status, !.stamped = stamped]

\* A statement that writes a status the column does not have fails, and nobody looks.
Update(status, stamped) ==
    row' = IF status \in ColumnStatus THEN [row EXCEPT !.status = status, !.stamped = stamped] ELSE row

-----------------------------------------------------------------------------
(* Assigning, and the life of the course *)

Authored(final) ==
    IF final = Null THEN [passed |-> FALSE, approval |-> "PENDING"]
    ELSE [final EXCEPT !.approval = "PENDING"]

bulkAssignCourse(r) ==
    /\ row = NoRow /\ requests[r] = Idle
    /\ row' = [status |-> "NOT_STARTED", pinned |-> TRUE, stamped |-> FALSE]
    /\ Goto(r, IF live.capstone THEN [stage |-> "capstone"] ELSE Idle)
    /\ UNCHANGED <<tables, live, past, left, chosen, misread>>

capstone(r) ==
    /\ requests[r].stage = "capstone"
    /\ tables' = [tables EXCEPT !.final = Authored(@)]
    /\ Goto(r, Idle)
    /\ UNCHANGED <<row, live, past, left, chosen, misread>>

\* The learner takes the course himself: no version, no final assessment.
enroll ==
    /\ row = NoRow /\ "enroll" \in left.kinds
    /\ row' = [status |-> "NOT_STARTED", pinned |-> FALSE, stamped |-> FALSE]
    /\ UNCHANGED <<tables, live, past, requests, left, chosen, misread>>

\* Lessons and quizzes removed from the live course take the rows that refer to them along.
EditCourse(c) ==
    /\ live = left.course /\ c # live
    /\ live' = c
    /\ tables' = [tables EXCEPT
           !.progress = [l \in Lesson |-> IF l \in c.lessons THEN @[l] ELSE Empty.progress[l]],
           !.attempts = {a \in @ : a.quiz \in c.quizzes}]
    /\ UNCHANGED <<row, past, requests, left, chosen, misread>>

DayPasses ==
    /\ ~past /\ "overdue" \in left.kinds /\ past' = TRUE
    /\ UNCHANGED <<row, tables, live, requests, left, chosen, misread>>

\* A manager moves the due date.
updateAssignment ==
    /\ past /\ row # NoRow /\ Spend("dues")
    /\ past' = FALSE
    /\ UNCHANGED <<row, tables, live, requests, chosen, misread>>

-----------------------------------------------------------------------------
(* The learner's and the managers' requests: what they store first *)

Stores(r, new, next) ==
    /\ tables' = new /\ Goto(r, next)
    /\ UNCHANGED <<row, live, past, chosen, misread>>

\* The upsert replaces the minutes too.  One that fails, as it does for a lesson that is gone,
\* is not noticed.
markLessonProgress(r, l, completed, minutes) ==
    /\ Comes(r, "progress")
    /\ \/ /\ l \in live.lessons
          /\ Stores(r, [tables EXCEPT !.progress[l] = [completed |-> completed, minutes |-> minutes]],
                    Evaluate("recalc"))
       \/ Stores(r, tables, Evaluate("recalc"))

\* Not followed by an evaluation.
recordUpload ==
    /\ row # NoRow /\ Spend("uploads")
    /\ tables' = [tables EXCEPT !.uploads = @ + 1]
    /\ UNCHANGED <<row, live, past, requests, chosen, misread>>

\* The number is read first; the attempt is inserted by a statement of its own.
recordQuizAttempt(r, q, passed) ==
    /\ Comes(r, "attempt") /\ q \in Pinned.quizzes
    /\ Stores(r, tables, [stage |-> "insert", attempt |->
                             [quiz |-> q, number |-> Number(tables.attempts, q) + 1, passed |-> passed]])

insertAttempt(r) ==
    /\ requests[r].stage = "insert"
    /\ LET a == requests[r].attempt
           new == [quiz |-> a.quiz, nth |-> Cardinality(AttemptsAt(tables.attempts, a.quiz)) + 1,
                   number |-> a.number, passed |-> a.passed]
       IN  IF a.quiz \in live.quizzes
           THEN Stores(r, [tables EXCEPT !.attempts = @ \cup {new}], Evaluate("recalc"))
           ELSE Stores(r, tables, Idle)
    /\ UNCHANGED left

acknowledge(r) == Comes(r, "ack") /\ ~tables.ack /\ Stores(r, tables, [stage |-> "sign"])

\* There is one acknowledgement; a second one is refused.
sign(r) ==
    /\ requests[r].stage = "sign"
    /\ Stores(r, [tables EXCEPT !.ack = TRUE], IF tables.ack THEN Idle ELSE Evaluate("recalc"))
    /\ UNCHANGED left

\* Replacing the questions leaves a grade that was given.
authorFinalAssessment(r) ==
    /\ Comes(r, "author")
    /\ Stores(r, [tables EXCEPT !.final = Authored(@)], Evaluate("recalc"))

submitFinalAssessment(r) ==
    /\ Comes(r, "submit") /\ tables.final # Null
    /\ Stores(r, [tables EXCEPT !.final.approval = "SUBMITTED"], Evaluate("recalc"))

\* Either may be left as it is.
gradeFinalAssessment(r, passed, approval) ==
    /\ Comes(r, "grade") /\ tables.final # Null
    /\ Stores(r, [tables EXCEPT !.final = [passed |-> passed, approval |-> approval]], Evaluate("recalc"))

completeAssignment(r) == Comes(r, "complete") /\ Stores(r, tables, Evaluate("complete"))

\* A list of assignments is asked for: what is past its date is stamped, as the list has it.
flagOverdue(r) ==
    /\ Comes(r, "overdue") /\ past /\ row.status \notin {"COMPLETED", "FAILED", "OVERDUE"}
    /\ Stores(r, tables, [stage |-> "stamp"])

stamp(r) ==
    /\ requests[r].stage = "stamp"
    /\ Update("OVERDUE", row.stamped) /\ Goto(r, Idle)
    /\ UNCHANGED <<tables, live, past, left, chosen, misread>>

-----------------------------------------------------------------------------
(* evaluateCompletion and what follows it *)

Reads(r, next) == Goto(r, next) /\ UNCHANGED <<row, tables, live, past, chosen>>

\* The reads that make a difference to the gates of the course.
Needed(c) ==
    Table \ ((IF c.quizzes = {} THEN {"attempts"} ELSE {}) \cup (IF c.checks = 0 THEN {"uploads"} ELSE {}))

\* todo: the tables still to be read; seen: what the others held.
Content(r, c) ==
    /\ requests[r].stage = "content"
    /\ Reads(r, [stage |-> "tables", goal |-> requests[r].goal, content |-> c, seen |-> Empty,
                 todo |-> Needed(c)])

resolveContent(r) == Content(r, Pinned) /\ UNCHANGED <<left, misread>>

\* A version that cannot be read is as good as none.
VersionUnread(r) == row.pinned /\ Content(r, live) /\ Spend("mishaps") /\ misread' = TRUE

\* An assignment that cannot be read has not been started.
AssignmentUnread(r) ==
    /\ requests[r].stage = "content" /\ Spend("mishaps") /\ misread' = TRUE
    /\ Reads(r, IF requests[r].goal = "recalc" THEN [stage |-> "look", verdict |-> "NOT_STARTED"] ELSE Idle)

\* One of the parallel reads; the last one leaves a verdict.
Sees(r, t, value) ==
    LET q == requests[r]
        seen == [q.seen EXCEPT ![t] = value]
        todo == q.todo \ {t}
        verdict == deriveStatus(q.content, seen)
    IN  /\ q.stage = "tables" /\ t \in q.todo
        /\ Reads(r, IF todo # {} THEN [q EXCEPT !.seen = seen, !.todo = todo]
                    ELSE IF q.goal = "recalc" THEN [stage |-> "look", verdict |-> verdict]
                    ELSE IF verdict = Finished THEN [stage |-> "finish"]
                    ELSE Idle)

readTable(r, t) == Sees(r, t, tables[t]) /\ UNCHANGED <<left, misread>>

\* The error of a read is not looked at: the table is taken for empty.
TableUnread(r, t) == Sees(r, t, Empty[t]) /\ Spend("mishaps") /\ misread' = TRUE

finish(r) ==
    /\ requests[r].stage = "finish"
    /\ Update("COMPLETED", TRUE) /\ chosen' = TRUE /\ Goto(r, Idle)
    /\ UNCHANGED <<tables, live, past, left, misread>>

\* Mutant of Kept: the row is not asked whether it is complete.
KeptNever == FALSE

\* alreadyCompleted
Kept == row.status = "COMPLETED"

Looks(r, kept) ==
    /\ requests[r].stage = "look"
    /\ Reads(r, [stage |-> "write", verdict |-> requests[r].verdict, kept |-> kept])

look(r) == Looks(r, Kept) /\ UNCHANGED <<left, misread>>
LookFails(r) == Looks(r, FALSE) /\ Spend("mishaps") /\ misread' = TRUE

recalcAssignmentStatus(r) ==
    LET q == requests[r]
    IN  /\ q.stage = "write"
        /\ IF q.kept THEN Update("COMPLETED", row.stamped) ELSE Update(q.verdict, FALSE)
        /\ Goto(r, Idle)
        /\ UNCHANGED <<tables, live, past, left, chosen, misread>>

\* A statement fails and ends the request, or does nothing at its end; or the process dies.
Stops(r) ==
    /\ requests[r] # Idle /\ Spend("mishaps") /\ Goto(r, Idle)
    /\ UNCHANGED <<row, tables, live, past, chosen, misread>>

-----------------------------------------------------------------------------
Statement(r) ==
    \/ bulkAssignCourse(r) \/ capstone(r)
    \/ \E l \in Lesson, completed \in BOOLEAN, n \in left.credits : markLessonProgress(r, l, completed, n)
    \/ \E q \in Quiz, passed \in BOOLEAN : recordQuizAttempt(r, q, passed)
    \/ insertAttempt(r) \/ acknowledge(r) \/ sign(r)
    \/ authorFinalAssessment(r) \/ submitFinalAssessment(r)
    \/ \E passed \in BOOLEAN, a \in Approval : gradeFinalAssessment(r, passed, a)
    \/ completeAssignment(r) \/ flagOverdue(r) \/ stamp(r)
    \/ resolveContent(r) \/ VersionUnread(r) \/ AssignmentUnread(r)
    \/ finish(r) \/ look(r) \/ LookFails(r)
    \/ \E t \in Table : readTable(r, t) \/ TableUnread(r, t)
    \/ recalcAssignmentStatus(r) \/ Stops(r)

\* Who is evaluating, and about to complete.
Completing(r) ==
    \/ requests[r].stage = "finish"
    \/ requests[r].stage \in {"content", "tables"} /\ requests[r].goal = "complete"

Remember ==
    /\ met' = [r \in Request |-> IF Completing(r)' THEN met[r] \cup GreenGates(Pinned, tables)' ELSE {}]
    /\ overlapped' = (overlapped \/ Cardinality({r \in Request : requests'[r] # Idle}) > 1)

Next ==
    /\ \/ \E r \in Request : Statement(r)
       \/ enroll \/ DayPasses \/ updateAssignment \/ recordUpload
       \/ \E c \in left.edits : EditCourse(c)
    /\ Remember

Spec == Init /\ [][Next]_vars

-----------------------------------------------------------------------------
TypeOK ==
    /\ row \in Row /\ live \in Course /\ past \in BOOLEAN
    /\ tables.progress \in [Lesson -> Progress] /\ tables.attempts \subseteq Attempt
    /\ tables.uploads \in Nat /\ tables.ack \in BOOLEAN
    /\ tables.final \in FinalAssessment \cup {Null}
    /\ met \in [Request -> SUBSET Gate] /\ {chosen, overlapped, misread} \subseteq BOOLEAN
    /\ \A r \in Request : requests[r].stage \in
          {"idle", "capstone", "insert", "sign", "stamp", "content", "tables", "look", "write", "finish"}

\* training.service.ts 568-571: there is "no path to COMPLETED that skips the gates".  Whatever
\* else is stored, edited and evaluated meanwhile, each gate of a pinned course was green at
\* some time while the request that completes it was evaluating; provided its reads succeed.
NoGateSkipped ==
    \A r \in Request : requests[r].stage = "finish" /\ row.pinned /\ ~misread => met[r] = Gate

\* training.service.ts 547-552: "a recalc must never auto-flip a row to COMPLETED".  A row is
\* COMPLETED only after a request has completed it, however recalculations overlap.
CompletedByChoice == row.status = "COMPLETED" => chosen

\* The same comment: and "never UN-complete a row that the learner already finished", nor lose
\* when.  So it is as long as no two requests overlap and the row can be read.
CompletedStays ==
    chosen /\ ~overlapped /\ ~misread => row.status = "COMPLETED" /\ row.stamped

\* training.service.ts 615-618: the attempts are counted per quiz.  Nobody is failed before
\* some quiz has been tried more often than the course allows, even if attempts overlap; as
\* long as the course is pinned and not edited and no read has failed.
FailedFairly ==
    row.status = "FAILED" /\ row.pinned /\ live = left.course /\ ~misread =>
        \E q \in left.course.quizzes :
            Cardinality(AttemptsAt(tables.attempts, q)) > left.course.tries

(* What the comments say of them, and TLC refutes. *)

\* 540-541, 549-551: a recalculation persists the status derived, READY_TO_COMPLETE at the most.
VerdictIsStored ==
    [][\A r \in Request : requests[r].stage = "write" /\ recalcAssignmentStatus(r) =>
           row'.status \in {requests[r].verdict, "COMPLETED"}]_vars

\* 547-548: no recalculation completes a row.
NeverAutoCompleted ==
    [][row'.status = "COMPLETED" /\ row.status # "COMPLETED" => \E r \in Request : finish(r)]_vars

\* 548-550: and none takes the completion back.
NeverUncompleted == chosen => row.status = "COMPLETED"

\* 616-618: recordQuizAttempt is the single writer of the counter of attempts.
AttemptsAreNumbered ==
    \A a, b \in tables.attempts : a # b /\ a.quiz = b.quiz => a.number # b.number

\* database/training-versioning.sql 4-5: later edits of the course do not break the records of
\* those who are assigned a version of it.
EditsSpareRecords == [][live' # live /\ row.pinned => tables' = tables]_vars
=============================================================================
