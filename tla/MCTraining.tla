----------------------------- MODULE MCTraining -----------------------------
(* Small instances of Training for TLC. *)
EXTENDS Training, TLC

CONSTANTS r1, r2, l1, q1, q2

Alike == Permutations(Request)

Reading == [lessons |-> {l1}, quizzes |-> {}, checks |-> 0, minutes |-> 0, passing |-> Null,
            tries |-> Null, approval |-> FALSE, capstone |-> FALSE]
Assessed == [Reading EXCEPT !.lessons = {}, !.approval = TRUE, !.capstone = TRUE]
Quizzed == [Reading EXCEPT !.lessons = {}, !.quizzes = {q1, q2}, !.passing = 1, !.tries = 1]
Worked == [Reading EXCEPT !.checks = 1, !.minutes = 1]
Asked == [Reading EXCEPT !.lessons = {}, !.quizzes = {q1}, !.tries = 1]
Bare == [Reading EXCEPT !.lessons = {}]

\* A learner finishes, goes back on it and is late; a final assessment is replaced, submitted
\* and graded; quizzes are tried too often; the course is edited; statements fail.
MCBounds == {
    [course |-> Reading, edits |-> {}, kinds |-> {"progress", "ack", "complete", "overdue"},
     requests |-> 5, credits |-> {0}, uploads |-> 0, dues |-> 1, mishaps |-> 0],
    [course |-> Assessed, edits |-> {}, kinds |-> {"ack", "author", "submit", "grade", "complete"},
     requests |-> 4, credits |-> {0}, uploads |-> 0, dues |-> 0, mishaps |-> 0],
    [course |-> Quizzed, edits |-> {}, kinds |-> {"attempt", "ack", "complete"},
     requests |-> 3, credits |-> {0}, uploads |-> 0, dues |-> 0, mishaps |-> 0],
    [course |-> Reading, edits |-> {Bare}, kinds |-> {"enroll", "progress", "ack", "complete"},
     requests |-> 4, credits |-> {0}, uploads |-> 0, dues |-> 0, mishaps |-> 0],
    [course |-> Asked, edits |-> {Bare}, kinds |-> {"enroll", "attempt", "ack", "complete"},
     requests |-> 3, credits |-> {0}, uploads |-> 0, dues |-> 0, mishaps |-> 0],
    [course |-> Worked, edits |-> {}, kinds |-> {"progress", "ack", "complete"},
     requests |-> 3, credits |-> {0, 1}, uploads |-> 1, dues |-> 0, mishaps |-> 1]}
=============================================================================
