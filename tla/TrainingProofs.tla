--------------------------- MODULE TrainingProofs ---------------------------
(***************************************************************************)
(* Proofs about Training, for every course, number of requests, edits and  *)
(* failed statements.  What a request does at its end it has decided       *)
(* statements before; the inductive invariant says of each statement what  *)
(* the request may hold by then, whatever the others have done since.      *)
(***************************************************************************)
EXTENDS Training, FiniteSetTheorems, WellFoundedInduction, TLAPS

\* What a request has read and is about to do.
Goal == {"recalc", "complete"}
Verdict == Status \ {"COMPLETED", "OVERDUE"}
Tables == [progress : [Lesson -> Progress], attempts : SUBSET Attempt, uploads : Nat, ack : BOOLEAN,
           final : FinalAssessment \cup {Null}]
Stage == {"idle", "capstone", "insert", "sign", "stamp", "content", "tables", "look", "write", "finish"}

InsertingRequest == [stage : {"insert"}, attempt : [quiz : Quiz, number : Nat, passed : BOOLEAN]]
EvaluatingRequest == [stage : {"tables"}, goal : Goal, content : Course, seen : Tables, todo : SUBSET Table]

Formed(q) ==
    /\ q.stage \in Stage
    /\ q.stage = "idle" => q = Idle
    /\ q.stage = "insert" => q \in InsertingRequest
    /\ q.stage = "content" => q.goal \in Goal
    /\ q.stage = "tables" => q \in EvaluatingRequest
    /\ q.stage \in {"look", "write"} => q.verdict \in Verdict
    /\ q.stage = "write" => q.kept \in BOOLEAN

Typed ==
    /\ row \in Row /\ tables \in Tables /\ live \in Course /\ past \in BOOLEAN /\ left \in Bound
    /\ requests = [r \in Request |-> requests[r]]
    /\ met = [r \in Request |-> met[r]]
    /\ \A r \in Request : met[r] \subseteq Gate
    /\ chosen \in BOOLEAN /\ overlapped \in BOOLEAN /\ misread \in BOOLEAN
    /\ \A r \in Request : Formed(requests[r])

\* Before the assignment is there nobody has anything to do with it.
Assigned == row.status = "none" => row = NoRow /\ \A r \in Request : requests[r].stage = "idle"

\* Nobody is about to complete what no request has completed.
Chosen ==
    /\ row.status = "COMPLETED" => chosen
    /\ \A r \in Request : requests[r].stage = "write" /\ requests[r].kept => chosen

Busy == {r \in Request : requests[r].stage # "idle"}

\* Once completed, and requests having come one by one, nobody is about to write another status.
Staying ==
    /\ IsFiniteSet(Busy)
    /\ ~overlapped => \A p, r \in Busy : p = r
    /\ chosen /\ ~overlapped /\ ~misread =>
          /\ row.status = "COMPLETED" /\ row.stamped
          /\ \A r \in Request : /\ requests[r].stage # "stamp"
                                /\ requests[r].stage = "write" => requests[r].kept

TableOf(gate) ==
    CASE gate \in {"lessons", "time"} -> "progress"
      [] gate = "uploads" -> "uploads"
      [] gate = "quiz" -> "attempts"
      [] gate = "ack" -> "ack"
      [] gate \in {"final", "approval"} -> "final"

\* Who evaluates a pinned course has its content, and every gate that is green in what it has
\* read was green meanwhile.
Evaluating(r) ==
    /\ requests[r].stage = "tables" =>
          /\ requests[r].content = left.course
          /\ requests[r].goal = "complete" =>
                \A gate \in Gate :
                    TableOf(gate) \notin requests[r].todo
                    /\ Green(gate, requests[r].content, requests[r].seen) => gate \in met[r]
    /\ requests[r].stage = "finish" => met[r] = Gate

Grounded == row.pinned /\ ~misread => \A r \in Request : Evaluating(r)

Tries(q) == Cardinality(AttemptsAt(tables.attempts, q))
TriedTooOften == left.course.tries # Null /\ \E q \in left.course.quizzes : Tries(q) > left.course.tries

\* The attempts of a quiz are numbered no higher than there are.
Numbered ==
    /\ IsFiniteSet(tables.attempts)
    /\ \A a \in tables.attempts : a.number <= Tries(a.quiz)
    /\ \A r \in Request :
          /\ requests[r].stage = "insert"
          /\ live = left.course \/ requests[r].attempt.quiz \in live.quizzes
          => requests[r].attempt.number <= Tries(requests[r].attempt.quiz) + 1
    /\ live = left.course =>
          \A r \in Request : requests[r].stage = "tables" => requests[r].seen.attempts \subseteq tables.attempts

Fair ==
    row.pinned /\ live = left.course /\ ~misread =>
        /\ row.status = "FAILED" => TriedTooOften
        /\ \A r \in Request :
              requests[r].stage \in {"look", "write"} /\ requests[r].verdict = "FAILED" => TriedTooOften

IInv == Typed /\ Assigned /\ Chosen /\ Staying /\ Grounded /\ Numbered /\ Fair

-----------------------------------------------------------------------------
(* The operators of the model *)

LEMMA LessIsRelated ==
    ASSUME NEW m \in Nat, NEW n \in Nat, m < n
    PROVE  <<m, n>> \in OpToRel(<, Nat)
  BY DEF OpToRel

\* The largest of a bounded set of numbers.
LEMMA MaxOfBounded ==
    ASSUME NEW n \in Nat, NEW S \in SUBSET (0 .. n), S # {}
    PROVE  Max(S) \in S /\ \A x \in S : x <= Max(S)
  <1> DEFINE T == {n - x : x \in S}
  <1>1. T \subseteq Nat /\ T # {}
    <2>1. \A x \in S : n - x \in Nat
      OBVIOUS
    <2> QED BY <2>1
  <1>2. PICK y \in T : \A z \in T : ~(<<z, y>> \in OpToRel(<, Nat))
    BY <1>1, NatLessThanWellFounded, WFMin
  <1>3. ASSUME NEW z \in T PROVE y <= z
    <2>1. z \in Nat /\ y \in Nat
      BY <1>1
    <2> HIDE DEF T
    <2>2. ~(z < y)
      BY <1>2, <2>1, LessIsRelated
    <2> QED BY <2>1, <2>2
  <1>4. PICK x \in S : y = n - x
    BY <1>2
  <1>5. ASSUME NEW z \in S PROVE z <= x
    <2>1. n - z \in T /\ z \in Nat /\ x \in Nat
      OBVIOUS
    <2> QED BY <1>3, <1>4, <2>1
  <1>6. \A z \in S : x >= z
    BY <1>5
  <1> QED BY <1>6 DEF Max

\* A verdict does not complete a course; that it may be completed means that every gate is green,
\* and that it has failed that some quiz was tried too often.
LEMMA VerdictMeans ==
    ASSUME NEW c, NEW s
    PROVE  /\ deriveStatus(c, s) \in Verdict
           /\ deriveStatus(c, s) = Finished => \A gate \in Gate : Green(gate, c, s)
           /\ deriveStatus(c, s) = "FAILED" => Exceeded(c, s.attempts)
  <1>1. deriveStatus(c, s) \in Verdict
    BY DEF deriveStatus, Verdict, Status, Finished
  <1>2. deriveStatus(c, s) = Finished => Blockers(c, s) = {}
    BY DEF deriveStatus, Finished
  <1>3. deriveStatus(c, s) = "FAILED" => Exceeded(c, s.attempts)
    BY DEF deriveStatus, Finished
  <1> QED BY <1>1, <1>2, <1>3 DEF Blockers, GreenGates

\* A gate looks at one table.
LEMMA GateLooksAtTable ==
    ASSUME NEW gate \in Gate, NEW c, NEW s, NEW t, s[TableOf(gate)] = t[TableOf(gate)]
    PROVE  Green(gate, c, s) = Green(gate, c, t)
  BY DEF Green, Gate, TableOf

\* The tables that are not needed do not matter to the gates of the course.
LEMMA NeededMeans ==
    ASSUME NEW c \in Course, NEW s \in Tables, NEW gate \in Gate, TableOf(gate) \notin Needed(c)
    PROVE  Green(gate, c, s)
  <1>1. CASE gate = "quiz"
    <2>1. c.quizzes = {}
      BY <1>1 DEF Needed, TableOf, Table
    <2> QED BY <1>1, <2>1 DEF Green, QuizGate
  <1>2. CASE gate = "uploads"
    <2>1. c.checks = 0 /\ s.uploads \in Nat
      BY <1>2 DEF Needed, TableOf, Table, Tables
    <2> QED BY <1>2, <2>1 DEF Green
  <1>3. CASE gate \notin {"quiz", "uploads"}
    <2>1. TableOf(gate) \in {"progress", "ack", "final"}
      BY <1>3 DEF TableOf, Gate
    <2> QED BY <2>1 DEF Needed, Table
  <1> QED BY <1>1, <1>2, <1>3

\* Of a set that has not more than one element.
LEMMA AtMostOne ==
    ASSUME NEW S, IsFiniteSet(S), ~(Cardinality(S) > 1)
    PROVE  \A p, r \in S : p = r
  <1> SUFFICES ASSUME NEW p \in S, NEW r \in S, p # r PROVE FALSE
    OBVIOUS
  <1>1. IsFiniteSet({p}) /\ Cardinality({p}) = 1
    BY FS_Singleton
  <1>2. IsFiniteSet({p} \cup {r}) /\ Cardinality({p} \cup {r}) = 2
    <2>1. r \notin {p}
      OBVIOUS
    <2>2. IsFiniteSet({p} \cup {r}) /\ Cardinality({p} \cup {r}) = Cardinality({p}) + 1
      BY <1>1, <2>1, FS_AddElement
    <2> QED BY <1>1, <2>2
  <1>3. {p} \cup {r} \in SUBSET S
    BY Zenon
  <1>4. Cardinality({p} \cup {r}) <= Cardinality(S)
    BY <1>3, FS_Subset
  <1>5. Cardinality(S) \in Nat
    BY FS_CardinalityType
  <1> QED BY <1>2, <1>4, <1>5

\* What every step adds to the histories.
LEMMA Remembered ==
    ASSUME Typed, Remember, \A p \in Request : Formed(requests'[p]), IsFiniteSet(Busy')
    PROVE  /\ met' = [r \in Request |-> met'[r]] /\ \A r \in Request : met'[r] \subseteq Gate
           /\ overlapped' \in BOOLEAN
           /\ ~overlapped' => ~overlapped /\ \A p, r \in Busy' : p = r
           /\ \A r \in Request : Completing(r)' => met'[r] = met[r] \cup GreenGates(Pinned, tables)'
  <1>1. met' = [r \in Request |-> IF Completing(r)' THEN met[r] \cup GreenGates(Pinned, tables)' ELSE {}]
    BY DEF Remember
  <1>2. GreenGates(Pinned, tables)' \subseteq Gate
    BY DEF GreenGates
  <1>3. \A r \in Request : met'[r] = IF Completing(r)' THEN met[r] \cup GreenGates(Pinned, tables)' ELSE {}
    BY <1>1
  <1>4. \A r \in Request : met'[r] \subseteq Gate
    BY <1>2, <1>3 DEF Typed
  <1>5. met' = [r \in Request |-> met'[r]]
    BY <1>1
  <1>6. {r \in Request : requests'[r] # Idle} = Busy'
    BY DEF Busy, Formed, Idle
  <1>7. overlapped' = (overlapped \/ Cardinality(Busy') > 1)
    BY <1>6 DEF Remember
  <1>8. overlapped' \in BOOLEAN /\ (~overlapped' => ~overlapped /\ ~(Cardinality(Busy') > 1))
    BY <1>7 DEF Typed
  <1>9. ~overlapped' => \A p, r \in Busy' : p = r
    BY <1>8, AtMostOne
  <1> QED BY <1>3, <1>4, <1>5, <1>8, <1>9

\* One request goes on.
LEMMA Gone ==
    ASSUME Typed, NEW r \in Request, NEW next, Goto(r, next), Formed(next)
    PROVE  /\ requests'[r] = next /\ \A p \in Request \ {r} : requests'[p] = requests[p]
           /\ requests' = [p \in Request |-> requests'[p]]
           /\ \A p \in Request : Formed(requests'[p])
           /\ Busy' \subseteq Busy \cup {r}
  <1>1. requests = [p \in Request |-> requests[p]]
    BY DEF Typed
  <1>2. requests'[r] = next /\ \A p \in Request \ {r} : requests'[p] = requests[p]
    BY <1>1 DEF Goto
  <1>3. requests' = [p \in Request |-> requests'[p]]
    BY <1>1 DEF Goto
  <1>4. \A p \in Request : Formed(requests'[p])
    BY <1>2 DEF Typed
  <1>5. Busy' \subseteq Busy \cup {r}
    BY <1>2 DEF Busy
  <1> QED BY <1>2, <1>3, <1>4, <1>5

LEMMA BusyStaysFinite ==
    ASSUME Staying, NEW r, Busy' \subseteq Busy \cup {r}
    PROVE  IsFiniteSet(Busy')
  <1>1. IsFiniteSet(Busy \cup {r})
    BY FS_AddElement DEF Staying
  <1> QED BY <1>1, FS_Subset

-----------------------------------------------------------------------------
(* What a step may change, one part of the invariant after the other *)

\* Requests evaluate what they evaluated, and what was green at some time stays remembered.
LEMMA StaysGrounded ==
    ASSUME Typed, Assigned, Grounded, Remember, IsFiniteSet(Busy'), left'.course = left.course,
           \A p \in Request : Formed(requests'[p]),
           misread => misread',
           row'.pinned => row.pinned \/ row.status = "none",
           \A p \in Request : requests'[p] = requests[p] \/ (row'.pinned /\ ~misread' => Evaluating(p)')
    PROVE  Grounded'
  <1> SUFFICES ASSUME row'.pinned, ~misread', NEW p \in Request, requests'[p] = requests[p]
               PROVE  Evaluating(p)'
    BY DEF Grounded
  <1>1. requests[p].stage = "idle" \/ row.pinned
    BY DEF Assigned
  <1>2. CASE requests[p].stage = "idle"
    BY <1>2 DEF Evaluating
  <1>3. CASE row.pinned
    <2>1. Evaluating(p)
      BY <1>3 DEF Grounded
    <2>2. Completing(p)' => met[p] \subseteq met'[p] /\ met'[p] \subseteq Gate
      BY Remembered
    <2> QED BY <2>1, <2>2 DEF Evaluating, Completing
  <1> QED BY <1>1, <1>2, <1>3

\* Who has failed has tried too often, and has no fewer attempts than before.
LEMMA StaysFair ==
    ASSUME Fair, left'.course = left.course,
           misread => misread', live' = left'.course => live = left.course,
           row'.pinned => row.pinned \/ row.status = "none",
           TriedTooOften => TriedTooOften',
           row.status = "none" => /\ row'.status # "FAILED"
                                  /\ \A p \in Request : requests'[p].stage \notin {"look", "write"},
           row'.status = "FAILED" =>
               \/ row.status = "FAILED"
               \/ \E p \in Request : requests[p].stage = "write" /\ requests[p].verdict = "FAILED",
           \A p \in Request : \/ requests'[p] = requests[p]
                              \/ requests'[p].stage \notin {"look", "write"}
                              \/ requests[p].stage = "look" /\ requests'[p].verdict = requests[p].verdict
                              \/ requests'[p].verdict = "FAILED" /\ row'.pinned /\ live' = left'.course /\ ~misread'
                                    => TriedTooOften'
    PROVE  Fair'
  BY DEF Fair

\* Nobody writes another status than before.
LEMMA StaysComplete ==
    ASSUME Staying, Remember, Typed, \A p \in Request : Formed(requests'[p]),
           NEW r, Busy' \subseteq Busy \cup {r},
           misread => misread', chosen' = chosen, row' = row,
           \A p \in Request :
               \/ requests'[p] = requests[p]
               \/ /\ requests'[p].stage = "stamp" => row.status # "COMPLETED"
                  /\ requests'[p].stage = "write" => requests'[p].kept \/ row.status # "COMPLETED" \/ misread'
    PROVE  Staying'
  <1>1. IsFiniteSet(Busy')
    BY BusyStaysFinite
  <1>2. ~overlapped' => ~overlapped /\ \A p, q \in Busy' : p = q
    BY <1>1, Remembered
  <1> QED BY <1>1, <1>2 DEF Staying

\* No attempt is made: they stay numbered.
LEMMA StaysNumbered ==
    ASSUME Numbered, tables'.attempts = tables.attempts, live' = live, left'.course = left.course,
           \A p \in Request :
               \/ requests'[p] = requests[p]
               \/ /\ requests'[p].stage = "insert" =>
                        requests'[p].attempt.number <= Tries(requests'[p].attempt.quiz) + 1
                  /\ requests'[p].stage = "tables" /\ live = left.course =>
                        requests'[p].seen.attempts \subseteq tables.attempts
    PROVE  Numbered' /\ (TriedTooOften' <=> TriedTooOften)
  <1>1. \A q : Tries(q)' = Tries(q)
    BY DEF Tries
  <1>2. TriedTooOften' <=> TriedTooOften
    BY <1>1 DEF TriedTooOften
  <1> QED BY <1>1, <1>2 DEF Numbered

-----------------------------------------------------------------------------
(* The steps *)

\* A request goes on and writes neither the row nor an attempt.
LEMMA RequestGoesOn ==
    ASSUME IInv, NEW r \in Request, NEW next, Goto(r, next), Formed(next), Remember,
           row.status # "none", row' = row, live' = live, past' = past, chosen' = chosen,
           left' \in Bound, left'.course = left.course, misread' \in {misread, TRUE},
           tables' \in Tables, tables'.attempts = tables.attempts,
           next.stage = "stamp" => row.status # "COMPLETED",
           next.stage = "insert" => next.attempt.number <= Tries(next.attempt.quiz) + 1,
           next.stage = "tables" /\ live = left.course => next.seen.attempts \subseteq tables.attempts,
           next.stage = "write" => IF next.kept THEN row.status = "COMPLETED"
                                   ELSE row.status # "COMPLETED" \/ misread',
           \/ next.stage \notin {"look", "write"}
           \/ requests[r].stage = "look" /\ next.verdict = requests[r].verdict
           \/ next.verdict = "FAILED" /\ row.pinned /\ live = left.course /\ ~misread' => TriedTooOften,
           row.pinned /\ ~misread' => Evaluating(r)'
    PROVE  IInv'
  <1>1. /\ requests'[r] = next /\ \A p \in Request \ {r} : requests'[p] = requests[p]
        /\ requests' = [p \in Request |-> requests'[p]]
        /\ \A p \in Request : Formed(requests'[p])
        /\ Busy' \subseteq Busy \cup {r}
    BY Gone DEF IInv
  <1>2. IsFiniteSet(Busy')
    BY <1>1, BusyStaysFinite DEF IInv
  <1>3. Typed'
    <2>1. misread' \in BOOLEAN /\ chosen' \in BOOLEAN
      BY DEF IInv, Typed
    <2> QED BY <1>1, <1>2, <2>1, Remembered DEF IInv, Typed
  <1>4. Assigned'
    BY DEF Assigned
  <1>5. Chosen'
    BY <1>1 DEF IInv, Chosen
  <1>6. misread => misread'
    BY DEF IInv, Typed
  <1>7. Staying'
    BY <1>1, <1>6, StaysComplete DEF IInv
  <1>8. Grounded'
    BY <1>1, <1>2, <1>6, StaysGrounded DEF IInv
  <1>9. Numbered' /\ (TriedTooOften' <=> TriedTooOften)
    BY <1>1, StaysNumbered DEF IInv
  <1>10. Fair'
    <2>1. \A p \in Request : \/ requests'[p] = requests[p]
                             \/ requests'[p].stage \notin {"look", "write"}
                             \/ requests[p].stage = "look" /\ requests'[p].verdict = requests[p].verdict
                             \/ requests'[p].verdict = "FAILED" /\ row'.pinned /\ live' = left'.course /\ ~misread'
                                   => TriedTooOften'
      BY <1>1, <1>9
    <2> QED BY <1>6, <1>9, <2>1, StaysFair DEF IInv
  <1> QED BY <1>3, <1>4, <1>5, <1>7, <1>8, <1>9, <1>10 DEF IInv

\* The same for a request that ends, or starts to evaluate, or is about to store something.
LEMMA RequestIsQuiet ==
    ASSUME IInv, NEW r \in Request, NEW next, Goto(r, next), Remember,
           next.stage \in {"idle", "capstone", "sign", "stamp", "content"},
           next.stage = "idle" => next = Idle, next.stage = "content" => next.goal \in Goal,
           row.status # "none", row' = row, live' = live, past' = past, chosen' = chosen,
           left' \in Bound, left'.course = left.course, misread' \in {misread, TRUE},
           tables' \in Tables, tables'.attempts = tables.attempts,
           next.stage = "stamp" => row.status # "COMPLETED"
    PROVE  IInv'
  <1>1. Formed(next)
    BY DEF Formed, Stage
  <1>2. requests'[r] = next
    BY <1>1, Gone DEF IInv
  <1>3. Evaluating(r)'
    BY <1>2 DEF Evaluating
  <1> QED BY <1>1, <1>3, RequestGoesOn

\* Requests do not move, and neither the row nor the attempts are written.
LEMMA NobodyMoves ==
    ASSUME IInv, UNCHANGED <<row, live, requests, chosen, misread>>, Remember \/ UNCHANGED <<met, overlapped>>,
           past' \in BOOLEAN, left' \in Bound, left'.course = left.course,
           tables' \in Tables, tables'.attempts = tables.attempts
    PROVE  IInv'
  <1>1. (\A p \in Request : Formed(requests'[p])) /\ Busy' = Busy /\ IsFiniteSet(Busy')
    BY DEF IInv, Typed, Busy, Staying
  <1>2. Numbered' /\ (TriedTooOften' <=> TriedTooOften)
    BY StaysNumbered DEF IInv
  <1>3. Fair'
    BY <1>2 DEF IInv, Fair
  <1>4. Assigned' /\ Chosen'
    BY DEF IInv, Assigned, Chosen
  <1>5. CASE Remember
    <2>1. Typed'
      BY <1>1, <1>5, Remembered DEF IInv, Typed
    <2>2. Staying'
      <3>1. ~overlapped' => ~overlapped
        BY <1>1, <1>5, Remembered DEF IInv
      <3> QED BY <1>1, <3>1 DEF IInv, Staying
    <2>3. Grounded'
      BY <1>1, <1>5, StaysGrounded DEF IInv
    <2> QED BY <1>2, <1>3, <1>4, <2>1, <2>2, <2>3 DEF IInv
  <1>6. CASE UNCHANGED <<met, overlapped>>
    <2>1. Typed'
      BY <1>6 DEF IInv, Typed
    <2>2. Staying'
      BY <1>1, <1>6 DEF IInv, Staying
    <2>3. Grounded'
      BY <1>6 DEF IInv, Grounded, Evaluating
    <2> QED BY <1>2, <1>3, <1>4, <2>1, <2>2, <2>3 DEF IInv
  <1> QED BY <1>5, <1>6

LEMMA SpendsBound ==
    ASSUME left \in Bound, NEW what \in {"requests", "uploads", "dues", "mishaps"}, Spend(what)
    PROVE  left' \in Bound /\ left'.course = left.course
  BY DEF Spend, Bound

LEMMA BoundStays == IInv => left \in Bound /\ tables \in Tables /\ misread \in BOOLEAN
  BY DEF IInv, Typed

\* Who is at work is at work on an assignment that is there, and so is who comes.
LEMMA AtWork ==
    ASSUME IInv, NEW r \in Request, requests[r].stage # "idle" \/ row # NoRow
    PROVE  row.status # "none"
  BY DEF IInv, Assigned

LEMMA Coming ==
    ASSUME IInv, NEW r \in Request, NEW kind, Comes(r, kind)
    PROVE  row.status # "none" /\ left' \in Bound /\ left'.course = left.course /\ requests[r] = Idle
  BY AtWork, BoundStays, SpendsBound DEF Comes

\* What the requests store first.
LEMMA StoresTables ==
    ASSUME IInv
    PROVE  /\ \A l \in Lesson, completed \in BOOLEAN, n \in Nat :
                 [tables EXCEPT !.progress[l] = [completed |-> completed, minutes |-> n]] \in Tables
           /\ [tables EXCEPT !.ack = TRUE] \in Tables
           /\ \A f \in FinalAssessment : [tables EXCEPT !.final = f] \in Tables
           /\ [tables EXCEPT !.uploads = tables.uploads + 1] \in Tables
           /\ Authored(tables.final) \in FinalAssessment
  <1>1. tables \in Tables
    BY DEF IInv, Typed
  <1>2. ASSUME NEW l \in Lesson, NEW completed \in BOOLEAN, NEW n \in Nat
        PROVE  [tables EXCEPT !.progress[l] = [completed |-> completed, minutes |-> n]] \in Tables
    <2>1. [completed |-> completed, minutes |-> n] \in Progress
      BY DEF Progress
    <2>2. [tables.progress EXCEPT ![l] = [completed |-> completed, minutes |-> n]] \in [Lesson -> Progress]
      BY <1>1, <2>1 DEF Tables
    <2>3. PICK new \in [Lesson -> Progress] :
              new = [tables.progress EXCEPT ![l] = [completed |-> completed, minutes |-> n]]
      BY <2>2
    <2>4. [tables EXCEPT !.progress = new] \in Tables
      BY <1>1 DEF Tables
    <2> QED BY <2>3, <2>4
  <1>3. [tables EXCEPT !.ack = TRUE] \in Tables
    BY <1>1 DEF Tables
  <1>4. ASSUME NEW f \in FinalAssessment PROVE [tables EXCEPT !.final = f] \in Tables
    BY <1>1, <1>4 DEF Tables
  <1>5. [tables EXCEPT !.uploads = tables.uploads + 1] \in Tables
    BY <1>1 DEF Tables
  <1>6. Authored(tables.final) \in FinalAssessment
    <2>1. tables.final \in FinalAssessment \cup {Null}
      BY <1>1 DEF Tables
    <2> QED BY <2>1 DEF Authored, FinalAssessment, Approval
  <1> QED BY <1>2, <1>3, <1>4, <1>5, <1>6

LEMMA Evaluates == Evaluate("recalc").stage = "content" /\ Evaluate("recalc").goal \in Goal
                   /\ Evaluate("complete").stage = "content" /\ Evaluate("complete").goal \in Goal
                   /\ Idle.stage = "idle"
  BY DEF Evaluate, Goal, Idle

LEMMA CapstoneStep ==
    ASSUME IInv, NEW r \in Request, capstone(r), Remember
    PROVE  IInv'
  <1>1. tables' = [tables EXCEPT !.final = Authored(tables.final)]
    BY DEF capstone
  <1>2. tables' \in Tables /\ tables'.attempts = tables.attempts
    BY <1>1, StoresTables, BoundStays DEF Tables
  <1>3. row.status # "none"
    BY AtWork DEF capstone
  <1> QED BY <1>2, <1>3, RequestIsQuiet, BoundStays, Evaluates DEF capstone

\* A request stores something that is no attempt, and evaluates; or goes on without storing.
LEMMA StoresStep ==
    ASSUME IInv, NEW r \in Request, NEW new \in Tables, new.attempts = tables.attempts,
           NEW next, Stores(r, new, next), Remember, row.status # "none",
           left' \in Bound, left'.course = left.course,
           next.stage \in {"idle", "sign", "stamp", "content"},
           next.stage = "idle" => next = Idle, next.stage = "content" => next.goal \in Goal,
           next.stage = "stamp" => row.status # "COMPLETED"
    PROVE  IInv'
  BY RequestIsQuiet DEF Stores

LEMMA ProgressStep ==
    ASSUME IInv, NEW r \in Request, NEW l \in Lesson, NEW completed \in BOOLEAN, NEW n \in left.credits,
           markLessonProgress(r, l, completed, n), Remember
    PROVE  IInv'
  <1>1. n \in Nat
    BY BoundStays DEF Bound
  <1>2. PICK new : new = [tables EXCEPT !.progress[l] = [completed |-> completed, minutes |-> n]]
    OBVIOUS
  <1>3. new \in Tables /\ new.attempts = tables.attempts
    <2>1. new \in Tables
      BY <1>1, <1>2, StoresTables
    <2>2. new.attempts = tables.attempts
      BY <1>2, BoundStays DEF Tables
    <2> QED BY <2>1, <2>2
  <1>4. Stores(r, new, Evaluate("recalc")) \/ Stores(r, tables, Evaluate("recalc"))
    BY <1>2 DEF markLessonProgress
  <1>5. row.status # "none" /\ left' \in Bound /\ left'.course = left.course
    BY Coming DEF markLessonProgress
  <1> QED BY <1>3, <1>4, <1>5, StoresStep, BoundStays, Evaluates

LEMMA AcknowledgeStep ==
    ASSUME IInv, NEW r \in Request, acknowledge(r) \/ sign(r) \/ completeAssignment(r) \/ flagOverdue(r), Remember
    PROVE  IInv'
  <1>1. CASE acknowledge(r)
    BY <1>1, Coming, StoresStep, BoundStays DEF acknowledge
  <1>2. CASE sign(r)
    <2>1. PICK new : new = [tables EXCEPT !.ack = TRUE]
      OBVIOUS
    <2>2. new \in Tables /\ new.attempts = tables.attempts
      BY <2>1, StoresTables, BoundStays DEF Tables
    <2>3. PICK next : next = (IF tables.ack THEN Idle ELSE Evaluate("recalc"))
      OBVIOUS
    <2>4. row.status # "none" /\ Stores(r, new, next) /\ left' = left
      BY <1>2, <2>1, <2>3, AtWork DEF sign
    <2>5. next = Idle \/ next = Evaluate("recalc")
      BY <2>3
    <2> QED BY <2>2, <2>4, <2>5, StoresStep, BoundStays, Evaluates
  <1>3. CASE completeAssignment(r)
    BY <1>3, Coming, StoresStep, BoundStays, Evaluates DEF completeAssignment
  <1>4. CASE flagOverdue(r)
    BY <1>4, Coming, StoresStep, BoundStays DEF flagOverdue
  <1> QED BY <1>1, <1>2, <1>3, <1>4

LEMMA FinalStep ==
    ASSUME IInv, NEW r \in Request, Remember,
           \/ authorFinalAssessment(r) \/ submitFinalAssessment(r)
           \/ \E passed \in BOOLEAN, a \in Approval : gradeFinalAssessment(r, passed, a)
    PROVE  IInv'
  <1>1. PICK f \in FinalAssessment : Stores(r, [tables EXCEPT !.final = f], Evaluate("recalc"))
    <2>1. CASE authorFinalAssessment(r)
      BY <2>1, StoresTables DEF authorFinalAssessment
    <2>2. CASE submitFinalAssessment(r)
      <3>1. tables.final \in FinalAssessment
        BY <2>2, BoundStays DEF Tables, submitFinalAssessment
      <3>2. [tables.final EXCEPT !.approval = "SUBMITTED"] \in FinalAssessment
        BY <3>1 DEF FinalAssessment, Approval
      <3> QED BY <2>2, <3>2 DEF submitFinalAssessment
    <2>3. ASSUME NEW passed \in BOOLEAN, NEW a \in Approval, gradeFinalAssessment(r, passed, a)
          PROVE  \E f \in FinalAssessment : Stores(r, [tables EXCEPT !.final = f], Evaluate("recalc"))
      <3>1. [passed |-> passed, approval |-> a] \in FinalAssessment
        BY DEF FinalAssessment
      <3> QED BY <2>3, <3>1 DEF gradeFinalAssessment
    <2> QED BY <2>1, <2>2, <2>3
  <1>2. PICK new : new = [tables EXCEPT !.final = f]
    OBVIOUS
  <1>3. new \in Tables /\ new.attempts = tables.attempts
    BY <1>2, StoresTables, BoundStays DEF Tables
  <1>4. row.status # "none" /\ left' \in Bound /\ left'.course = left.course
    BY Coming DEF authorFinalAssessment, submitFinalAssessment, gradeFinalAssessment
  <1> QED BY <1>1, <1>2, <1>3, <1>4, StoresStep, Evaluates

LEMMA StopsStep ==
    ASSUME IInv, NEW r \in Request, Stops(r), Remember
    PROVE  IInv'
  <1>1. requests[r].stage # "idle"
    BY DEF Stops, IInv, Typed, Formed
  <1>2. row.status # "none" /\ left' \in Bound /\ left'.course = left.course
    BY <1>1, AtWork, SpendsBound, BoundStays DEF Stops
  <1> QED BY <1>2, RequestIsQuiet, BoundStays, Evaluates DEF Stops

LEMMA OtherSteps ==
    ASSUME IInv, DayPasses \/ updateAssignment \/ recordUpload, Remember
    PROVE  IInv'
  <1>1. CASE DayPasses
    BY <1>1, NobodyMoves, BoundStays DEF DayPasses
  <1>2. CASE updateAssignment
    BY <1>2, NobodyMoves, BoundStays, SpendsBound DEF updateAssignment
  <1>3. CASE recordUpload
    <2>1. tables' = [tables EXCEPT !.uploads = tables.uploads + 1]
      BY <1>3 DEF recordUpload
    <2>2. tables' \in Tables /\ tables'.attempts = tables.attempts
      BY <2>1, StoresTables, BoundStays DEF Tables
    <2>3. left' \in Bound /\ left'.course = left.course /\ past' \in BOOLEAN
      BY <1>3, SpendsBound, BoundStays DEF recordUpload, IInv, Typed
    <2> QED BY <1>3, <2>2, <2>3, NobodyMoves DEF recordUpload
  <1> QED BY <1>1, <1>2, <1>3

-----------------------------------------------------------------------------
(* Assigning the course, and editing it *)

LEMMA AssignStep ==
    ASSUME IInv, row = NoRow, row' \in Row, row'.status = "NOT_STARTED", NEW r, Remember,
           UNCHANGED <<tables, live, past, left, chosen, misread>>,
           requests' = [p \in Request |-> requests'[p]],
           Busy' \subseteq Busy \cup {r}, \A p \in Request : Formed(requests'[p]),
           \A p \in Request : requests'[p] = requests[p] \/ requests'[p].stage \in {"idle", "capstone"}
    PROVE  IInv'
  <1>1. row.status = "none" /\ \A p \in Request : requests[p].stage = "idle"
    BY DEF IInv, Assigned, NoRow
  <1>2. \A p \in Request : requests'[p].stage \in {"idle", "capstone"}
    BY <1>1
  <1>3. IsFiniteSet(Busy')
    BY BusyStaysFinite DEF IInv
  <1>4. Typed'
    BY <1>3, Remembered DEF IInv, Typed
  <1>5. Assigned' /\ Chosen'
    BY <1>2 DEF IInv, Assigned, Chosen
  <1>6. ~overlapped' => ~overlapped /\ \A p, q \in Busy' : p = q
    BY <1>3, Remembered DEF IInv
  <1>7. Staying'
    BY <1>1, <1>3, <1>6 DEF IInv, Staying
  <1>8. Grounded'
    <2>1. \A p \in Request : Evaluating(p)'
      BY <1>2 DEF Evaluating
    <2> QED BY <2>1 DEF Grounded
  <1>9. Numbered' /\ (TriedTooOften' <=> TriedTooOften)
    <2>1. \A p \in Request : requests'[p].stage \notin {"insert", "tables"}
      BY <1>2
    <2> QED BY <2>1, StaysNumbered DEF IInv
  <1>10. Fair'
    BY <1>2 DEF Fair
  <1> QED BY <1>4, <1>5, <1>7, <1>8, <1>9, <1>10 DEF IInv

LEMMA BulkAssignStep ==
    ASSUME IInv, NEW r \in Request, bulkAssignCourse(r), Remember
    PROVE  IInv'
  <1>1. PICK next : next = IF live.capstone THEN [stage |-> "capstone"] ELSE Idle
    OBVIOUS
  <1>2. Formed(next) /\ next.stage \in {"idle", "capstone"}
    BY <1>1 DEF Formed, Stage, Idle
  <1>3. Goto(r, next)
    BY <1>1 DEF bulkAssignCourse
  <1>4. /\ requests'[r] = next /\ \A p \in Request \ {r} : requests'[p] = requests[p]
        /\ requests' = [p \in Request |-> requests'[p]]
        /\ \A p \in Request : Formed(requests'[p])
        /\ Busy' \subseteq Busy \cup {r}
    BY <1>2, <1>3, Gone DEF IInv
  <1>5. row' \in Row /\ row'.status = "NOT_STARTED"
    BY DEF bulkAssignCourse, Row, ColumnStatus, Status
  <1> QED BY <1>2, <1>4, <1>5, AssignStep DEF bulkAssignCourse

LEMMA EnrollStep ==
    ASSUME IInv, enroll, Remember
    PROVE  IInv'
  <1>1. row' \in Row /\ row'.status = "NOT_STARTED"
    BY DEF enroll, Row, ColumnStatus, Status
  <1>2. requests' = requests
    BY DEF enroll
  <1>3. /\ requests' = [p \in Request |-> requests'[p]]
        /\ Busy' = Busy /\ \A p \in Request : Formed(requests'[p])
    BY <1>2 DEF IInv, Typed, Busy
  <1>4. Busy' \subseteq Busy \cup {Null}
    BY <1>3
  <1> QED BY <1>1, <1>2, <1>3, <1>4, AssignStep DEF enroll

LEMMA EmptyIsTables == Empty \in Tables /\ Empty.attempts = {}
  BY DEF Empty, Tables, Progress

LEMMA EditStep ==
    ASSUME IInv, NEW c \in left.edits, EditCourse(c), Remember
    PROVE  IInv'
  <1>1. c \in Course
    BY BoundStays DEF Bound
  <1>2. PICK progress, attempts :
            /\ progress = [l \in Lesson |-> IF l \in c.lessons THEN tables.progress[l] ELSE Empty.progress[l]]
            /\ attempts = {a \in tables.attempts : a.quiz \in c.quizzes}
    OBVIOUS
  <1>3. tables' = [tables EXCEPT !.progress = progress, !.attempts = attempts]
    BY <1>2 DEF EditCourse
  <1>4. progress \in [Lesson -> Progress]
    BY <1>2, BoundStays, EmptyIsTables DEF Tables
  <1>5. attempts \subseteq Attempt
    BY <1>2, BoundStays DEF Tables
  <1>6. tables' \in Tables /\ tables'.attempts = attempts
    BY <1>3, <1>4, <1>5, BoundStays DEF Tables
  <1>7. live' = c /\ live = left.course /\ c # left.course /\ left' = left
    BY DEF EditCourse
  <1>8. (\A p \in Request : Formed(requests'[p])) /\ Busy' = Busy /\ IsFiniteSet(Busy') /\ requests' = requests
    BY DEF IInv, Typed, Busy, Staying, EditCourse
  <1>9. Typed'
    BY <1>1, <1>6, <1>7, <1>8, Remembered DEF IInv, Typed, EditCourse
  <1>10. Assigned' /\ Chosen'
    BY DEF IInv, Assigned, Chosen, EditCourse
  <1>11. Staying'
    <2>1. ~overlapped' => ~overlapped
      BY <1>8, Remembered DEF IInv
    <2> QED BY <1>8, <2>1 DEF IInv, Staying, EditCourse
  <1>12. Grounded'
    BY <1>8, StaysGrounded DEF IInv, EditCourse
  <1>13. Numbered'
    <2>1. ASSUME NEW q \in c.quizzes PROVE Tries(q)' = Tries(q)
      <3>1. AttemptsAt(tables'.attempts, q) = AttemptsAt(tables.attempts, q)
        BY <1>2, <1>6 DEF AttemptsAt
      <3> QED BY <3>1 DEF Tries
    <2>2. IsFiniteSet(tables'.attempts)
      BY <1>2, <1>6, FS_Subset DEF IInv, Numbered
    <2>3. \A a \in tables'.attempts : a.number <= Tries(a.quiz)'
      BY <1>2, <1>6, <2>1 DEF IInv, Numbered
    <2>4. ASSUME NEW p \in Request, requests'[p].stage = "insert", requests'[p].attempt.quiz \in live'.quizzes
          PROVE  (requests[p].attempt.number <= Tries(requests[p].attempt.quiz) + 1)'
      <3>1. PICK a : a = requests[p].attempt
        OBVIOUS
      <3>2. a.number <= Tries(a.quiz) + 1
        BY <1>7, <1>8, <2>4, <3>1 DEF IInv, Numbered
      <3>3. a.quiz \in c.quizzes
        BY <1>7, <1>8, <2>4, <3>1
      <3>4. a.number <= Tries(a.quiz)' + 1
        BY <2>1, <3>2, <3>3
      <3>5. requests'[p].attempt = a
        BY <1>8, <3>1
      <3> QED BY <3>4, <3>5
    <2> QED BY <1>7, <2>2, <2>3, <2>4 DEF Numbered
  <1>14. Fair'
    BY <1>7 DEF Fair
  <1> QED BY <1>9, <1>10, <1>11, <1>12, <1>13, <1>14 DEF IInv

-----------------------------------------------------------------------------
(* Attempts *)

\* The highest number is bounded by what bounds them all.
LEMMA NumberIsBounded ==
    ASSUME NEW attempts \in SUBSET Attempt, NEW q, NEW n \in Nat,
           \A a \in AttemptsAt(attempts, q) : a.number <= n
    PROVE  Number(attempts, q) \in 0 .. n
  <1> DEFINE S == {0} \cup {a.number : a \in AttemptsAt(attempts, q)}
  <1>1. \A a \in AttemptsAt(attempts, q) : a.number \in 0 .. n
    BY DEF AttemptsAt, Attempt
  <1>2. S \in SUBSET (0 .. n) /\ S # {}
    BY <1>1
  <1>3. Number(attempts, q) = Max(S)
    BY DEF Number
  <1> HIDE DEF S
  <1>4. Max(S) \in S
    BY <1>2, MaxOfBounded
  <1> QED BY <1>2, <1>3, <1>4

LEMMA TriesCounts ==
    ASSUME IInv, NEW q
    PROVE  Tries(q) \in Nat /\ IsFiniteSet(AttemptsAt(tables.attempts, q))
  <1>1. IsFiniteSet(AttemptsAt(tables.attempts, q))
    <2>1. AttemptsAt(tables.attempts, q) \in SUBSET tables.attempts
      BY DEF AttemptsAt
    <2> QED BY <2>1, FS_Subset DEF IInv, Numbered
  <1> QED BY <1>1, FS_CardinalityType DEF Tries

LEMMA AttemptStep ==
    ASSUME IInv, NEW r \in Request, NEW q \in Quiz, NEW passed \in BOOLEAN,
           recordQuizAttempt(r, q, passed), Remember
    PROVE  IInv'
  <1>1. \A a \in AttemptsAt(tables.attempts, q) : a.number <= Tries(q)
    BY DEF IInv, Numbered, AttemptsAt
  <1>2. Number(tables.attempts, q) \in 0 .. Tries(q) /\ Tries(q) \in Nat
    BY <1>1, TriesCounts, NumberIsBounded, BoundStays DEF Tables
  <1>3. PICK n \in Nat : n = Number(tables.attempts, q) + 1 /\ n <= Tries(q) + 1
    BY <1>2
  <1>4. PICK next : next = [stage |-> "insert", attempt |-> [quiz |-> q, number |-> n, passed |-> passed]]
    OBVIOUS
  <1>5. Stores(r, tables, next)
    BY <1>3, <1>4 DEF recordQuizAttempt
  <1>6. Formed(next)
    BY <1>4 DEF Formed, Stage, InsertingRequest
  <1>7. next.stage = "insert" /\ next.attempt.number <= Tries(next.attempt.quiz) + 1
    BY <1>3, <1>4
  <1>8. row.status # "none" /\ left' \in Bound /\ left'.course = left.course
    BY Coming DEF recordQuizAttempt
  <1>9. Evaluating(r)'
    <2>1. requests'[r].stage = "insert"
      BY <1>5, <1>6, <1>7, Gone DEF Stores, IInv
    <2> QED BY <2>1 DEF Evaluating
  <1> QED BY <1>5, <1>6, <1>7, <1>8, <1>9, RequestGoesOn, BoundStays DEF Stores

LEMMA InsertStep ==
    ASSUME IInv, NEW r \in Request, insertAttempt(r), Remember
    PROVE  IInv'
  <1> PICK q, new :
          /\ q = requests[r].attempt.quiz
          /\ new = [quiz |-> q, nth |-> Cardinality(AttemptsAt(tables.attempts, q)) + 1,
                    number |-> requests[r].attempt.number, passed |-> requests[r].attempt.passed]
    OBVIOUS
  <1>1. requests[r].stage = "insert" /\ row.status # "none"
    BY AtWork DEF insertAttempt
  <1>2. requests[r].attempt \in [quiz : Quiz, number : Nat, passed : BOOLEAN]
    BY <1>1 DEF IInv, Typed, Formed, InsertingRequest
  <1>3. CASE q \notin live.quizzes
    <2>1. Stores(r, tables, Idle) /\ left' = left
      BY <1>3 DEF insertAttempt
    <2> QED BY <1>1, <2>1, StoresStep, BoundStays, Evaluates
  <1>4. CASE q \in live.quizzes
    <2>1. Cardinality(AttemptsAt(tables.attempts, q)) = Tries(q)
      BY DEF Tries
    <2>2. new \in Attempt
      BY <1>2, <2>1, TriesCounts DEF Attempt
    <2>3. Stores(r, [tables EXCEPT !.attempts = tables.attempts \cup {new}], Evaluate("recalc")) /\ left' = left
      BY <1>4 DEF insertAttempt
    <2>4. new.quiz = q /\ new.number = requests[r].attempt.number /\ new.number <= Tries(q) + 1
      BY <1>1, <1>4 DEF IInv, Numbered
    <2>5. tables' = [tables EXCEPT !.attempts = tables.attempts \cup {new}]
      BY <2>3 DEF Stores
    <2>6. tables' \in Tables /\ tables'.attempts = tables.attempts \cup {new}
      BY <2>2, <2>5, BoundStays DEF Tables
    <2>7. PICK next : next = Evaluate("recalc") /\ next.stage = "content" /\ Formed(next)
      BY Evaluates DEF Formed, Stage
    <2>8. /\ requests'[r] = next /\ \A p \in Request \ {r} : requests'[p] = requests[p]
          /\ requests' = [p \in Request |-> requests'[p]]
          /\ \A p \in Request : Formed(requests'[p])
          /\ Busy' \subseteq Busy \cup {r}
      BY <2>3, <2>7, Gone DEF IInv, Stores
    <2>9. UNCHANGED <<row, live, past, left, chosen, misread>>
      BY <2>3 DEF Stores
    <2>10. IsFiniteSet(Busy')
      BY <2>8, BusyStaysFinite DEF IInv
    <2>11. Typed'
      BY <2>6, <2>8, <2>9, <2>10, Remembered DEF IInv, Typed
    <2>12. Assigned'
      BY <1>1, <2>9 DEF Assigned
    <2>13. Chosen'
      BY <2>7, <2>8, <2>9 DEF IInv, Chosen
    <2>14. Staying'
      BY <2>7, <2>8, <2>9, StaysComplete DEF IInv
    <2>15. Grounded'
      <3>1. Evaluating(r)'
        BY <2>7, <2>8 DEF Evaluating
      <3> QED BY <2>8, <2>9, <2>10, <3>1, StaysGrounded DEF IInv
    \* One more attempt at this quiz, or the same attempts.
    <2>16. \A p : Tries(p)' >= Tries(p) /\ Tries(p)' \in Nat
      <3> SUFFICES ASSUME NEW p PROVE Tries(p)' >= Tries(p) /\ Tries(p)' \in Nat
        OBVIOUS
      <3>1. IsFiniteSet(AttemptsAt(tables.attempts, p) \cup {new})
        BY TriesCounts, FS_AddElement
      <3>2. AttemptsAt(tables'.attempts, p) \in SUBSET (AttemptsAt(tables.attempts, p) \cup {new})
        BY <2>6 DEF AttemptsAt
      <3>3. AttemptsAt(tables.attempts, p) \in SUBSET AttemptsAt(tables'.attempts, p)
        BY <2>6 DEF AttemptsAt
      <3>4. IsFiniteSet(AttemptsAt(tables'.attempts, p))
        BY <3>1, <3>2, FS_Subset
      <3>5. Cardinality(AttemptsAt(tables.attempts, p)) <= Cardinality(AttemptsAt(tables'.attempts, p))
        BY <3>3, <3>4, FS_Subset
      <3>6. /\ Tries(p) = Cardinality(AttemptsAt(tables.attempts, p))
            /\ Tries(p)' = Cardinality(AttemptsAt(tables'.attempts, p))
        BY DEF Tries
      <3>7. Cardinality(AttemptsAt(tables'.attempts, p)) \in Nat
        BY <3>4, FS_CardinalityType
      <3>8. Tries(p) \in Nat
        BY TriesCounts
      <3> QED BY <3>5, <3>6, <3>7, <3>8
    <2>17. new.number <= Tries(q)'
      <3>1. CASE new \in tables.attempts
        <4>1. new.number <= Tries(q)
          BY <2>4, <3>1 DEF IInv, Numbered
        <4>2. Tries(q)' >= Tries(q) /\ Tries(q)' \in Nat /\ Tries(q) \in Nat /\ new.number \in Nat
          BY <2>2, <2>16, TriesCounts DEF Attempt
        <4> QED BY <4>1, <4>2
      <3>2. CASE new \notin tables.attempts
        <4>1. AttemptsAt(tables'.attempts, q) = AttemptsAt(tables.attempts, q) \cup {new}
          BY <2>4, <2>6 DEF AttemptsAt
        <4>2. new \notin AttemptsAt(tables.attempts, q)
          BY <3>2 DEF AttemptsAt
        <4>3. Cardinality(AttemptsAt(tables.attempts, q) \cup {new})
                = Cardinality(AttemptsAt(tables.attempts, q)) + 1
          BY <4>2, TriesCounts, FS_AddElement
        <4>4. Tries(q)' = Tries(q) + 1
          <5>1. Tries(q)' = Cardinality(AttemptsAt(tables'.attempts, q))
            BY DEF Tries
          <5> QED BY <4>1, <4>3, <5>1, <2>1
        <4> QED BY <2>4, <4>4
      <3> QED BY <3>1, <3>2
    <2>18. Numbered'
      <3>1. IsFiniteSet(tables'.attempts)
        BY <2>6, FS_AddElement DEF IInv, Numbered
      <3>2. ASSUME NEW a \in tables'.attempts PROVE a.number <= Tries(a.quiz)'
        <4>1. CASE a = new
          BY <2>4, <2>17, <4>1
        <4>2. CASE a \in tables.attempts
          <5>1. a.number <= Tries(a.quiz) /\ a.number \in Nat
            BY <4>2, BoundStays DEF IInv, Numbered, Tables, Attempt
          <5>2. Tries(a.quiz)' >= Tries(a.quiz) /\ Tries(a.quiz)' \in Nat /\ Tries(a.quiz) \in Nat
            BY <2>16, TriesCounts
          <5> QED BY <5>1, <5>2
        <4> QED BY <2>6, <4>1, <4>2
      <3>3. ASSUME NEW p \in Request, requests'[p].stage = "insert",
                   live' = left'.course \/ requests'[p].attempt.quiz \in live'.quizzes
            PROVE  (requests[p].attempt.number <= Tries(requests[p].attempt.quiz) + 1)'
        <4>1. requests'[p] = requests[p]
          BY <2>7, <2>8, <3>3
        <4>2. PICK a : a = requests[p].attempt
          OBVIOUS
        <4>3. a.number \in Nat /\ a.number <= Tries(a.quiz) + 1
          BY <2>9, <3>3, <4>1, <4>2 DEF IInv, Numbered, Typed, Formed, InsertingRequest
        <4>4. Tries(a.quiz)' >= Tries(a.quiz) /\ Tries(a.quiz)' \in Nat /\ Tries(a.quiz) \in Nat
          BY <2>16, TriesCounts
        <4>5. a.number <= Tries(a.quiz)' + 1
          BY <4>3, <4>4
        <4>6. requests'[p].attempt = a
          BY <4>1, <4>2
        <4> QED BY <4>5, <4>6
      <3>4. ASSUME live' = left'.course, NEW p \in Request, requests'[p].stage = "tables"
            PROVE  requests'[p].seen.attempts \subseteq tables'.attempts
        BY <2>6, <2>7, <2>8, <2>9, <3>4 DEF IInv, Numbered
      <3> QED BY <3>1, <3>2, <3>3, <3>4 DEF Numbered
    <2>19. Fair'
      <3>1. TriedTooOften => TriedTooOften'
        <4> SUFFICES ASSUME TriedTooOften, NEW p \in left.course.quizzes, Tries(p) > left.course.tries
                     PROVE  Tries(p)' > left.course.tries
          BY <2>9 DEF TriedTooOften
        <4>1. left.course.tries \in Nat
          BY BoundStays DEF Bound, Course, TriedTooOften
        <4>2. Tries(p)' >= Tries(p) /\ Tries(p)' \in Nat /\ Tries(p) \in Nat
          BY <2>16, TriesCounts
        <4> QED BY <4>1, <4>2
      <3> QED BY <1>1, <2>7, <2>8, <2>9, <3>1, StaysFair DEF IInv
    <2> QED BY <2>11, <2>12, <2>13, <2>14, <2>15, <2>18, <2>19 DEF IInv
  <1> QED BY <1>3, <1>4

-----------------------------------------------------------------------------
(* The evaluation *)

LEMMA ContentStep ==
    ASSUME IInv, NEW r \in Request, resolveContent(r) \/ VersionUnread(r), Remember
    PROVE  IInv'
  <1>1. requests[r].stage = "content" /\ row.status # "none"
    BY AtWork DEF resolveContent, VersionUnread, Content
  <1>2. PICK c, next :
            /\ next = [stage |-> "tables", goal |-> requests[r].goal, content |-> c, seen |-> Empty,
                       todo |-> Needed(c)]
            /\ c = Pinned \/ misread'
            /\ c \in {Pinned, live}
            /\ Reads(r, next)
    BY DEF resolveContent, VersionUnread, Content
  <1>3. c \in Course
    BY <1>2, BoundStays DEF Pinned, IInv, Typed, Bound
  <1>4. requests[r].goal \in Goal
    BY <1>1 DEF IInv, Typed, Formed
  <1>5. Needed(c) \in SUBSET Table
    BY DEF Needed
  <1>6. Formed(next)
    <2>1. next \in EvaluatingRequest
      BY <1>2, <1>3, <1>4, <1>5, EmptyIsTables DEF EvaluatingRequest
    <2>2. next.stage = "tables"
      BY <1>2
    <2> QED BY <2>1, <2>2 DEF Formed, Stage
  <1>7. left' \in Bound /\ left'.course = left.course /\ misread' \in {misread, TRUE}
    BY BoundStays, SpendsBound DEF resolveContent, VersionUnread
  <1>8. requests'[r] = next
    BY <1>2, <1>6, Gone DEF Reads, IInv
  <1>9. UNCHANGED <<row, tables, live, past, chosen>>
    BY <1>2 DEF Reads
  <1>10. ASSUME row.pinned, ~misread' PROVE Evaluating(r)'
    <2>1. c = left.course
      BY <1>2, <1>10 DEF Pinned
    <2>2. ASSUME next.goal = "complete" PROVE Completing(r)'
      BY <1>2, <1>8, <2>2 DEF Completing
    <2>3. ASSUME next.goal = "complete", NEW gate \in Gate, TableOf(gate) \notin Needed(c)
          PROVE  gate \in met'[r]
      <3>1. Green(gate, c, tables)
        BY <1>3, <2>3, NeededMeans, BoundStays
      <3>2. Pinned' = c /\ tables' = tables
        BY <1>7, <1>9, <1>10, <2>1 DEF Pinned
      <3>3. gate \in GreenGates(Pinned, tables)'
        BY <3>1, <3>2 DEF GreenGates
      <3>4. (\A p \in Request : Formed(requests'[p])) /\ IsFiniteSet(Busy')
        BY <1>2, <1>6, Gone, BusyStaysFinite DEF Reads, IInv
      <3>5. met'[r] = met[r] \cup GreenGates(Pinned, tables)'
        BY <2>2, <2>3, <3>4, Remembered DEF IInv
      <3> QED BY <3>3, <3>5
    <2>4. next.stage = "tables" /\ next.content = left'.course /\ next.todo = Needed(c)
      BY <1>2, <1>7, <2>1
    <2> QED BY <1>8, <2>3, <2>4 DEF Evaluating
  <1>11. next.stage = "tables" /\ next.seen.attempts \subseteq tables.attempts
    BY <1>2, EmptyIsTables
  <1> QED BY <1>1, <1>2, <1>6, <1>7, <1>9, <1>10, <1>11, RequestGoesOn, BoundStays DEF Reads

LEMMA UnreadStep ==
    ASSUME IInv, NEW r \in Request, AssignmentUnread(r), Remember
    PROVE  IInv'
  <1>1. row.status # "none"
    BY AtWork DEF AssignmentUnread
  <1>2. PICK next : next \in {[stage |-> "look", verdict |-> "NOT_STARTED"], Idle} /\ Reads(r, next)
    BY DEF AssignmentUnread
  <1>3. /\ Formed(next) /\ next.stage \in {"look", "idle"}
        /\ next.stage = "look" => next.verdict = "NOT_STARTED"
    BY <1>2 DEF Formed, Stage, Verdict, Status, Idle
  <1>4. left' \in Bound /\ left'.course = left.course /\ misread' = TRUE
    BY BoundStays, SpendsBound DEF AssignmentUnread
  <1> QED BY <1>1, <1>2, <1>3, <1>4, RequestGoesOn, BoundStays DEF Reads

\* With one more table, every gate that is green in what has been read was green meanwhile.
LEMMA SeesGates ==
    ASSUME IInv, NEW r \in Request, requests[r].stage = "tables", requests[r].goal = "complete",
           row.pinned, ~misread, NEW t \in requests[r].todo, NEW seen,
           seen = [requests[r].seen EXCEPT ![t] = tables[t]],
           NEW gate \in Gate, TableOf(gate) \notin requests[r].todo \ {t},
           Green(gate, requests[r].content, seen)
    PROVE  gate \in met[r] \cup GreenGates(left.course, tables)
  <1>1. requests[r].content = left.course /\ requests[r].seen \in Tables /\ t \in Table
    BY DEF IInv, Grounded, Evaluating, Typed, Formed, EvaluatingRequest
  <1>2. CASE TableOf(gate) = t
    <2>1. seen[TableOf(gate)] = tables[TableOf(gate)]
      BY <1>1, <1>2 DEF Tables, Table
    <2>2. Green(gate, left.course, tables)
      BY <1>1, <2>1, GateLooksAtTable
    <2> QED BY <2>2 DEF GreenGates
  <1>3. CASE TableOf(gate) # t
    <2>1. seen[TableOf(gate)] = requests[r].seen[TableOf(gate)]
      BY <1>1, <1>3 DEF Tables, Table
    <2>2. Green(gate, requests[r].content, requests[r].seen)
      BY <2>1, GateLooksAtTable
    <2>3. TableOf(gate) \notin requests[r].todo
      BY <1>3
    <2> QED BY <2>2, <2>3 DEF IInv, Grounded, Evaluating
  <1> QED BY <1>2, <1>3

\* Who has seen a quiz tried too often, it has been.
LEMMA ExceededMeans ==
    ASSUME IInv, live = left.course, NEW attempts \in SUBSET tables.attempts, Exceeded(left.course, attempts)
    PROVE  TriedTooOften
  <1>1. left.course.tries # Null
    BY DEF Exceeded
  <1>2. left.course.tries \in Nat
    BY <1>1, BoundStays DEF Bound, Course
  <1>3. PICK q \in left.course.quizzes : Number(attempts, q) > left.course.tries
    BY DEF Exceeded
  <1>4. Tries(q) \in Nat
    BY TriesCounts
  <1>5. \A a \in AttemptsAt(attempts, q) : a.number <= Tries(q)
    BY DEF IInv, Numbered, AttemptsAt
  <1>6. attempts \in SUBSET Attempt
    BY BoundStays DEF Tables
  <1>7. Number(attempts, q) \in 0 .. Tries(q)
    BY <1>4, <1>5, <1>6, NumberIsBounded
  <1>8. Tries(q) > left.course.tries
    BY <1>2, <1>3, <1>4, <1>7
  <1> QED BY <1>1, <1>8 DEF TriedTooOften

LEMMA SeesStep ==
    ASSUME IInv, NEW r \in Request, NEW t \in Table, readTable(r, t) \/ TableUnread(r, t), Remember
    PROVE  IInv'
  <1>1. PICK value : /\ Sees(r, t, value)
                     /\ value = tables[t] \/ (value = Empty[t] /\ misread')
    BY DEF readTable, TableUnread
  <1>2. requests[r].stage = "tables" /\ t \in requests[r].todo /\ row.status # "none"
    BY <1>1, AtWork DEF Sees
  <1>3. requests[r] \in EvaluatingRequest
    BY <1>2 DEF IInv, Typed, Formed
  <1>4. PICK seen, todo, verdict :
            /\ seen = [requests[r].seen EXCEPT ![t] = value] /\ todo = requests[r].todo \ {t}
            /\ verdict = deriveStatus(requests[r].content, seen)
    OBVIOUS
  <1>5. PICK next :
            /\ next = IF todo # {} THEN [requests[r] EXCEPT !.seen = seen, !.todo = todo]
                      ELSE IF requests[r].goal = "recalc" THEN [stage |-> "look", verdict |-> verdict]
                      ELSE IF verdict = Finished THEN [stage |-> "finish"]
                      ELSE Idle
            /\ Reads(r, next)
    BY <1>1, <1>4 DEF Sees
  <1>6. left' \in Bound /\ left'.course = left.course /\ misread' \in {misread, TRUE}
    BY BoundStays, SpendsBound DEF readTable, TableUnread
  <1>7. UNCHANGED <<row, tables, live, past, chosen>>
    BY <1>5 DEF Reads
  <1>8. seen \in Tables
    <2>1. requests[r].seen \in Tables
      BY <1>3 DEF EvaluatingRequest
    <2>2. tables \in Tables /\ Empty \in Tables
      BY BoundStays, EmptyIsTables
    <2>3. PICK from \in Tables : value = from[t]
      BY <1>1, <2>2
    <2>4. CASE t = "progress"
      BY <1>4, <2>1, <2>3, <2>4 DEF Tables
    <2>5. CASE t = "attempts"
      BY <1>4, <2>1, <2>3, <2>5 DEF Tables
    <2>6. CASE t = "uploads"
      BY <1>4, <2>1, <2>3, <2>6 DEF Tables
    <2>7. CASE t = "ack"
      BY <1>4, <2>1, <2>3, <2>7 DEF Tables
    <2>8. CASE t = "final"
      BY <1>4, <2>1, <2>3, <2>8 DEF Tables
    <2> QED BY <2>4, <2>5, <2>6, <2>7, <2>8 DEF Table
  <1>9. live = left.course => seen.attempts \subseteq tables.attempts
    <2>1. live = left.course => requests[r].seen.attempts \subseteq tables.attempts
      BY <1>2 DEF IInv, Numbered
    <2>2. t = "attempts" => value \subseteq tables.attempts
      BY <1>1, EmptyIsTables
    <2>3. requests[r].seen \in Tables
      BY <1>3 DEF EvaluatingRequest
    <2>4. CASE t = "attempts"
      BY <1>4, <2>2, <2>3, <2>4 DEF Tables
    <2>5. CASE t # "attempts"
      BY <1>4, <2>1, <2>3, <2>5 DEF Tables
    <2> QED BY <2>4, <2>5
  <1>10. /\ verdict \in Verdict
         /\ verdict = Finished => \A gate \in Gate : Green(gate, requests[r].content, seen)
         /\ verdict = "FAILED" => Exceeded(requests[r].content, seen.attempts)
    BY <1>4, VerdictMeans
  \* What the gates were, if the request is about to complete the course.
  <1>11. ASSUME row.pinned, ~misread'
         PROVE  /\ requests[r].content = left.course
                /\ requests[r].goal = "complete" =>
                     \A gate \in Gate : TableOf(gate) \notin todo /\ Green(gate, requests[r].content, seen) =>
                         gate \in met[r] \cup GreenGates(Pinned, tables)'
    <2>1. ~misread /\ value = tables[t]
      <3>1. misread => misread'
        BY <1>6 DEF IInv, Typed
      <3> QED BY <1>1, <1>11, <3>1
    <2>2. requests[r].content = left.course
      BY <1>2, <1>11, <2>1 DEF IInv, Grounded, Evaluating
    <2>3. GreenGates(Pinned, tables)' = GreenGates(left.course, tables)
      BY <1>6, <1>7, <1>11 DEF Pinned, GreenGates
    <2> QED BY <1>2, <1>4, <1>11, <2>1, <2>2, <2>3, SeesGates
  <1>12. Formed(next) => /\ requests'[r] = next
                         /\ Completing(r)' => met'[r] = met[r] \cup GreenGates(Pinned, tables)'
    <2> SUFFICES ASSUME Formed(next)
                 PROVE  /\ requests'[r] = next
                        /\ Completing(r)' => met'[r] = met[r] \cup GreenGates(Pinned, tables)'
      OBVIOUS
    <2>1. requests'[r] = next
      BY <1>5, Gone DEF Reads, IInv
    <2>2. (\A p \in Request : Formed(requests'[p])) /\ IsFiniteSet(Busy')
      BY <1>5, Gone, BusyStaysFinite DEF Reads, IInv
    <2>3. Completing(r)' => met'[r] = met[r] \cup GreenGates(Pinned, tables)'
      BY <2>2, Remembered DEF IInv
    <2> QED BY <2>1, <2>3
  \* There are tables left to read.
  <1>13. CASE todo # {}
    <2>1. next = [requests[r] EXCEPT !.seen = seen, !.todo = todo]
      BY <1>5, <1>13
    <2>2. /\ next \in EvaluatingRequest /\ next.stage = "tables" /\ next.goal = requests[r].goal
          /\ next.content = requests[r].content /\ next.seen = seen /\ next.todo = todo
      BY <1>3, <1>4, <1>8, <2>1 DEF EvaluatingRequest
    <2>3. Formed(next)
      BY <2>2 DEF Formed, Stage
    <2>4. requests'[r] = next
      BY <1>12, <2>3
    <2>5. ASSUME row.pinned, ~misread' PROVE Evaluating(r)'
      <3>1. next.goal = "complete" => Completing(r)'
        BY <2>2, <2>4 DEF Completing
      <3>2. next.goal = "complete" => \A gate \in Gate :
                TableOf(gate) \notin next.todo /\ Green(gate, next.content, next.seen) => gate \in met'[r]
        BY <1>11, <1>12, <2>2, <2>3, <2>5, <3>1
      <3> QED BY <1>6, <1>11, <2>2, <2>4, <2>5, <3>2 DEF Evaluating
    <2> QED BY <1>2, <1>5, <1>6, <1>7, <1>9, <2>2, <2>3, <2>5, RequestGoesOn, BoundStays DEF Reads
  \* The verdict of a recalculation.
  <1>14. CASE todo = {} /\ requests[r].goal = "recalc"
    <2>1. next = [stage |-> "look", verdict |-> verdict]
      BY <1>5, <1>14
    <2>2. Formed(next) /\ next.stage = "look" /\ next.verdict = verdict
      BY <1>10, <2>1 DEF Formed, Stage
    <2>3. ASSUME verdict = "FAILED", row.pinned, live = left.course, ~misread'
          PROVE  TriedTooOften
      BY <1>9, <1>10, <1>11, <2>3, ExceededMeans
    <2>4. Evaluating(r)'
      BY <1>12, <2>2 DEF Evaluating
    <2> QED BY <1>2, <1>5, <1>6, <1>7, <2>2, <2>3, <2>4, RequestGoesOn, BoundStays DEF Reads
  \* All gates are green.
  <1>15. CASE todo = {} /\ requests[r].goal # "recalc" /\ verdict = Finished
    <2>1. next = [stage |-> "finish"] /\ requests[r].goal = "complete"
      BY <1>3, <1>5, <1>15 DEF EvaluatingRequest, Goal
    <2>2. Formed(next) /\ next.stage = "finish"
      BY <2>1 DEF Formed, Stage
    <2>3. ASSUME row.pinned, ~misread' PROVE Evaluating(r)'
      <3>1. requests'[r].stage = "finish" /\ Completing(r)'
        BY <1>12, <2>2 DEF Completing
      <3>2. \A gate \in Gate : gate \in met'[r]
        BY <1>10, <1>11, <1>12, <1>15, <2>1, <2>2, <2>3, <3>1
      <3>3. met'[r] \subseteq Gate
        <4>1. (\A p \in Request : Formed(requests'[p])) /\ IsFiniteSet(Busy')
          BY <1>5, <2>2, Gone, BusyStaysFinite DEF Reads, IInv
        <4> QED BY <4>1, Remembered DEF IInv
      <3>4. met'[r] = Gate
        BY <3>2, <3>3
      <3> QED BY <3>1, <3>4 DEF Evaluating
    <2> QED BY <1>2, <1>5, <1>6, <1>7, <2>2, <2>3, RequestGoesOn, BoundStays DEF Reads
  <1>16. CASE todo = {} /\ requests[r].goal # "recalc" /\ verdict # Finished
    <2>1. next = Idle
      BY <1>5, <1>16
    <2> QED BY <1>2, <1>5, <1>6, <1>7, <2>1, RequestIsQuiet, BoundStays, Evaluates DEF Reads
  <1> QED BY <1>13, <1>14, <1>15, <1>16

LEMMA LookStep ==
    ASSUME IInv, NEW r \in Request, look(r) \/ LookFails(r), Remember
    PROVE  IInv'
  <1>1. PICK kept \in BOOLEAN : Looks(r, kept) /\ (kept = (row.status = "COMPLETED") \/ (~kept /\ misread'))
    <2>1. CASE look(r)
      BY <2>1, Zenon DEF look, Kept
    <2>2. CASE LookFails(r)
      BY <2>2 DEF LookFails
    <2> QED BY <2>1, <2>2
  <1>2. requests[r].stage = "look" /\ row.status # "none"
    BY <1>1, AtWork DEF Looks
  <1>3. requests[r].verdict \in Verdict
    BY <1>2 DEF IInv, Typed, Formed
  <1>4. PICK next : next = [stage |-> "write", verdict |-> requests[r].verdict, kept |-> kept]
    OBVIOUS
  <1>5. next.stage = "write" /\ next.verdict = requests[r].verdict /\ next.kept = kept
    BY <1>4
  <1>6. Formed(next)
    BY <1>3, <1>5 DEF Formed, Stage
  <1>7. Reads(r, next)
    BY <1>1, <1>4 DEF Looks
  <1>8. left' \in Bound /\ left'.course = left.course /\ misread' \in {misread, TRUE}
    BY BoundStays, SpendsBound DEF look, LookFails
  <1>9. Evaluating(r)'
    <2>1. requests'[r].stage = "write"
      BY <1>5, <1>6, <1>7, Gone DEF Reads, IInv
    <2> QED BY <2>1 DEF Evaluating
  <1> QED BY <1>1, <1>2, <1>5, <1>6, <1>7, <1>8, <1>9, RequestGoesOn, BoundStays DEF Reads

-----------------------------------------------------------------------------
(* Writing the row *)

LEMMA RowStep ==
    ASSUME IInv, NEW r \in Request, Goto(r, Idle), Remember, requests[r].stage # "idle",
           row' \in Row, row'.status # "none", row'.pinned = row.pinned,
           UNCHANGED <<tables, live, past, left, misread>>,
           chosen' \in BOOLEAN, chosen => chosen', row'.status = "COMPLETED" => chosen',
           row'.status = "FAILED" =>
               row.status = "FAILED" \/ (requests[r].stage = "write" /\ requests[r].verdict = "FAILED"),
           chosen' /\ ~overlapped /\ ~misread => row'.status = "COMPLETED" /\ row'.stamped
    PROVE  IInv'
  <1>1. Formed(Idle) /\ Idle.stage = "idle"
    BY DEF Formed, Stage, Idle
  <1>2. /\ requests'[r] = Idle /\ \A p \in Request \ {r} : requests'[p] = requests[p]
        /\ requests' = [p \in Request |-> requests'[p]]
        /\ \A p \in Request : Formed(requests'[p])
        /\ Busy' \subseteq Busy \cup {r}
    BY <1>1, Gone DEF IInv
  <1>3. IsFiniteSet(Busy')
    BY <1>2, BusyStaysFinite DEF IInv
  <1>4. Typed'
    BY <1>2, <1>3, Remembered DEF IInv, Typed
  <1>5. Assigned'
    BY DEF Assigned
  <1>6. Chosen'
    BY <1>1, <1>2 DEF IInv, Chosen
  <1>7. Staying'
    <2>1. ~overlapped' => ~overlapped /\ \A p, q \in Busy' : p = q
      BY <1>2, <1>3, Remembered DEF IInv
    <2>2. ~overlapped => Busy = {r}
      BY DEF IInv, Staying, Busy
    <2>3. ~overlapped => \A p \in Request : requests'[p].stage = "idle"
      BY <1>1, <1>2, <2>2 DEF Busy
    <2> QED BY <1>3, <2>1, <2>3 DEF Staying
  <1>8. Grounded'
    <2>1. Evaluating(r)'
      BY <1>1, <1>2 DEF Evaluating
    <2> QED BY <1>2, <1>3, <2>1, StaysGrounded DEF IInv
  <1>9. Numbered' /\ (TriedTooOften' <=> TriedTooOften)
    BY <1>1, <1>2, StaysNumbered DEF IInv
  <1>10. Fair'
    <2>1. row.status # "none"
      BY AtWork
    <2> QED BY <1>1, <1>2, <1>9, <2>1, StaysFair DEF IInv
  <1> QED BY <1>4, <1>5, <1>6, <1>7, <1>8, <1>9, <1>10 DEF IInv

\* What an update makes of the row.
LEMMA Updated ==
    ASSUME IInv, NEW status \in Status, NEW stamped \in BOOLEAN, Update(status, stamped)
    PROVE  /\ row' \in Row /\ row'.pinned = row.pinned
           /\ status # "READY_TO_COMPLETE" => row'.status = status /\ row'.stamped = stamped
           /\ status = "READY_TO_COMPLETE" => row' = row
  <1>1. row \in Row
    BY DEF IInv, Typed
  <1>2. CASE status \in ColumnStatus
    <2>1. row' = [row EXCEPT !.status = status, !.stamped = stamped]
      BY <1>2 DEF Update
    <2> QED BY <1>1, <1>2, <2>1 DEF Row, ColumnStatus
  <1>3. CASE status \notin ColumnStatus
    BY <1>1, <1>3 DEF Update, ColumnStatus
  <1> QED BY <1>2, <1>3

LEMMA WriteStep ==
    ASSUME IInv, NEW r \in Request, stamp(r) \/ finish(r) \/ recalcAssignmentStatus(r), Remember
    PROVE  IInv'
  <1>1. row.stamped \in BOOLEAN
    BY DEF IInv, Typed, Row
  <1>2. CASE stamp(r)
    <2>1. row' \in Row /\ row'.pinned = row.pinned /\ row'.status = "OVERDUE"
      BY <1>1, <1>2, Updated DEF stamp, Status
    <2>2. ~(chosen /\ ~overlapped /\ ~misread)
      BY <1>2 DEF stamp, IInv, Staying
    <2>3. chosen \in BOOLEAN
      BY DEF IInv, Typed
    <2> QED BY <1>2, <2>1, <2>2, <2>3, RowStep DEF stamp
  <1>3. CASE finish(r)
    <2>1. row' \in Row /\ row'.pinned = row.pinned /\ row'.status = "COMPLETED" /\ row'.stamped = TRUE
      BY <1>3, Updated DEF finish, Status
    <2> QED BY <1>3, <2>1, RowStep DEF finish
  <1>4. CASE recalcAssignmentStatus(r)
    <2>1. /\ requests[r].stage = "write" /\ Goto(r, Idle)
          /\ UNCHANGED <<tables, live, past, left, chosen, misread>>
          /\ requests[r].kept => Update("COMPLETED", row.stamped)
          /\ ~requests[r].kept => Update(requests[r].verdict, FALSE)
      BY <1>4 DEF recalcAssignmentStatus
    <2>2. chosen \in BOOLEAN /\ requests[r].verdict \in Verdict /\ requests[r].kept \in BOOLEAN
      BY <2>1 DEF IInv, Typed, Formed
    <2>3. row.status # "none"
      BY <2>1, AtWork
    <2>4. CASE requests[r].kept
      <3>1. row' \in Row /\ row'.pinned = row.pinned /\ row'.status = "COMPLETED" /\ row'.stamped = row.stamped
        BY <1>1, <2>1, <2>4, Updated DEF Status
      <3>2. chosen
        BY <2>1, <2>4 DEF IInv, Chosen
      <3>3. ~overlapped /\ ~misread => row.stamped
        BY <3>2 DEF IInv, Staying
      <3> QED BY <2>1, <2>2, <3>1, <3>2, <3>3, RowStep
    <2>5. CASE ~requests[r].kept
      <3>1. ~(chosen /\ ~overlapped /\ ~misread)
        BY <2>1, <2>5 DEF IInv, Staying
      <3>2. /\ row' \in Row /\ row'.pinned = row.pinned
            /\ row' = row \/ row'.status = requests[r].verdict
        BY <2>1, <2>2, <2>5, Updated DEF Verdict
      <3>3. row'.status = "COMPLETED" => chosen
        BY <2>2, <3>2 DEF IInv, Chosen, Verdict
      <3>4. row'.status # "none"
        BY <2>2, <2>3, <3>2 DEF Verdict, Status
      <3>5. row'.status = "FAILED" =>
               row.status = "FAILED" \/ (requests[r].stage = "write" /\ requests[r].verdict = "FAILED")
        BY <2>1, <3>2
      <3> QED BY <2>1, <2>2, <3>1, <3>2, <3>3, <3>4, <3>5, RowStep
    <2> QED BY <2>2, <2>4, <2>5
  <1> QED BY <1>2, <1>3, <1>4

-----------------------------------------------------------------------------
(* The invariant, and what follows *)

LEMMA InitIInv == Init => IInv
  <1> SUFFICES ASSUME Init PROVE IInv
    OBVIOUS
  <1>1. \A r \in Request : requests[r] = Idle /\ requests[r].stage = "idle"
    BY DEF Init, Idle
  <1>2. Typed
    <2>1. left \in Bound /\ live \in Course
      BY BoundsAreBounds DEF Init, Bound
    <2>2. \A r \in Request : Formed(requests[r])
      BY <1>1 DEF Formed, Stage
    <2>3. row \in Row
      BY DEF Init, NoRow, Row
    <2> QED BY <2>1, <2>2, <2>3, EmptyIsTables DEF Init, Typed
  <1>3. Assigned /\ Chosen
    BY <1>1 DEF Init, Assigned, Chosen, NoRow
  <1>4. Staying
    <2>1. Busy = {}
      BY <1>1 DEF Busy
    <2> QED BY <2>1, FS_EmptySet DEF Init, Staying
  <1>5. Grounded
    BY DEF Init, Grounded, NoRow
  <1>6. Numbered
    BY <1>1, EmptyIsTables, FS_EmptySet DEF Init, Numbered
  <1>7. Fair
    BY DEF Init, Fair, NoRow
  <1> QED BY <1>2, <1>3, <1>4, <1>5, <1>6, <1>7 DEF IInv

LEMMA NextIInv == IInv /\ [Next]_vars => IInv'
  <1> SUFFICES ASSUME IInv, [Next]_vars PROVE IInv'
    OBVIOUS
  <1>1. ASSUME NEW r \in Request, Statement(r), Remember PROVE IInv'
    <2>1. CASE bulkAssignCourse(r)
      BY <1>1, <2>1, BulkAssignStep
    <2>2. CASE capstone(r)
      BY <1>1, <2>2, CapstoneStep
    <2>3. CASE \E l \in Lesson, completed \in BOOLEAN, n \in left.credits :
                   markLessonProgress(r, l, completed, n)
      BY <1>1, <2>3, ProgressStep
    <2>4. CASE \E q \in Quiz, passed \in BOOLEAN : recordQuizAttempt(r, q, passed)
      BY <1>1, <2>4, AttemptStep
    <2>5. CASE insertAttempt(r)
      BY <1>1, <2>5, InsertStep
    <2>6. CASE acknowledge(r) \/ sign(r) \/ completeAssignment(r) \/ flagOverdue(r)
      BY <1>1, <2>6, AcknowledgeStep
    <2>7. CASE \/ authorFinalAssessment(r) \/ submitFinalAssessment(r)
               \/ \E passed \in BOOLEAN, a \in Approval : gradeFinalAssessment(r, passed, a)
      BY <1>1, <2>7, FinalStep
    <2>8. CASE stamp(r) \/ finish(r) \/ recalcAssignmentStatus(r)
      BY <1>1, <2>8, WriteStep
    <2>9. CASE resolveContent(r) \/ VersionUnread(r)
      BY <1>1, <2>9, ContentStep
    <2>10. CASE AssignmentUnread(r)
      BY <1>1, <2>10, UnreadStep
    <2>11. CASE look(r) \/ LookFails(r)
      BY <1>1, <2>11, LookStep
    <2>12. CASE \E t \in Table : readTable(r, t) \/ TableUnread(r, t)
      BY <1>1, <2>12, SeesStep
    <2>13. CASE Stops(r)
      BY <1>1, <2>13, StopsStep
    <2> QED
      BY <1>1, <2>1, <2>2, <2>3, <2>4, <2>5, <2>6, <2>7, <2>8, <2>9, <2>10, <2>11, <2>12, <2>13 DEF Statement
  <1>2. CASE enroll /\ Remember
    BY <1>2, EnrollStep
  <1>3. CASE (DayPasses \/ updateAssignment \/ recordUpload) /\ Remember
    BY <1>3, OtherSteps
  <1>4. ASSUME NEW c \in left.edits, EditCourse(c), Remember PROVE IInv'
    BY <1>4, EditStep
  <1>5. CASE UNCHANGED vars
    <2>1. UNCHANGED <<row, tables, live, past, requests, left, met, chosen, overlapped, misread>>
      BY <1>5 DEF vars
    <2>2. past' \in BOOLEAN
      BY <2>1 DEF IInv, Typed
    <2> QED BY <2>1, <2>2, NobodyMoves, BoundStays
  <1> QED BY <1>1, <1>2, <1>3, <1>4, <1>5 DEF Next

LEMMA Invariant == Spec => []IInv
  BY InitIInv, NextIInv, PTL DEF Spec

\* The row, the tables, the histories and the requests under way stay of their types.
THEOREM TypesStay == Spec => []TypeOK
  <1>1. IInv => TypeOK
    BY DEF IInv, Typed, TypeOK, Tables, Formed, Stage
  <1> QED BY <1>1, Invariant, PTL

\* Each gate of a pinned course was green at some time while the request that completes it was
\* evaluating, provided no read failed.
THEOREM GatesAreNotSkipped == Spec => []NoGateSkipped
  <1>1. IInv => NoGateSkipped
    BY DEF IInv, Grounded, Evaluating, NoGateSkipped
  <1> QED BY <1>1, Invariant, PTL

\* No recalculation completes what no request has completed.
THEOREM CompletionIsChosen == Spec => []CompletedByChoice
  <1>1. IInv => CompletedByChoice
    BY DEF IInv, Chosen, CompletedByChoice
  <1> QED BY <1>1, Invariant, PTL

\* Nor takes it back, as long as requests come one by one and the row can be read.
THEOREM CompletionStays == Spec => []CompletedStays
  <1>1. IInv => CompletedStays
    BY DEF IInv, Staying, CompletedStays
  <1> QED BY <1>1, Invariant, PTL

\* Nobody is failed before a quiz has been tried more often than the course allows, as long as
\* the course is pinned and not edited and no read failed.
THEOREM FailureIsFair == Spec => []FailedFairly
  <1>1. IInv => FailedFairly
    BY DEF IInv, Fair, TriedTooOften, Tries, FailedFairly
  <1> QED BY <1>1, Invariant, PTL
=============================================================================
