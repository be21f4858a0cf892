----------------------------- MODULE Reminders -----------------------------
(***************************************************************************)
(* Reminders: the rows their owner edits (controllers/reminders.           *)
(* controller.ts), those made ahead of an interview whenever it is saved   *)
(* (services/interviewReminders.service.ts), and the dispatcher that       *)
(* delivers what is due (jobs/reminders.job.ts), run by the scheduler of   *)
(* each worker that is allowed to (jobs/scheduler.ts).  One action per     *)
(* statement; owners have one account, and there is one interview.         *)
(***************************************************************************)
EXTENDS Naturals, Sequences, FiniteSets

CONSTANTS Worker, Saver,  \* processes that run the job, and requests that save the interview
          MaxRows, Horizon,   \* bounds on the rows and on the time
          Leads,     \* how long before the interview its reminders are due (LEAD_MINUTES)
          Batch,     \* rows taken per tick
          Bounds     \* bounds to explore; Init chooses one

Id == 1 .. MaxRows
Time == 0 .. Horizon

\* workers: JOBS_ALL_WORKERS, or an old and a new process during a restart, if there are
\* several; how often the owner creates and edits, the interview is saved, and statements or
\* processes fail; until: how far the time is followed.
Bound == [workers : SUBSET Worker, creates : Nat, edits : Nat, saves : Nat, mishaps : Nat, until : Time]

ASSUME BoundsAreBounds == Bounds \subseteq Bound
ASSUME NumbersAreNumbers ==
    MaxRows \in Nat /\ Horizon \in Nat /\ Batch \in Nat \ {0} /\ Leads \subseteq Nat /\ IsFiniteSet(Leads)

VARIABLES clock, rows, interview,
          savers,    \* savers[h] : a request that saves the interview
          workers,   \* workers[w] : the scheduler's lease and the tick
          left,      \* what is left of the bound
          armed,     \* history: how often a row became due to be sent
          delivered, failed,  \* history: how often a worker published a row, and could not mark it
          unsynced, touched  \* history: saves overlapped or failed; the owner changed an interview's reminder

vars == <<clock, rows, interview, savers, workers, left, armed, delivered, failed, unsynced, touched>>
history == <<armed, delivered, failed, unsynced, touched>>



Hand == 0  \* made by hand, not for an interview

Status == {"PENDING", "SENT", "DONE", "SNOOZED"}
Row == [status : Status \cup {"unused", "deleted"}, due : Time, for : Time]
Interview == [at : Time, live : BOOLEAN]
Save == [stage : {"idle", "clear", "insert"}, at : Time, live : BOOLEAN]

\* timer: the lease has a timer; owners: the owners of the batch could be read.
Lease == [timer : BOOLEAN, todo : Seq(Id), stage : {"idle", "mark", "publish"}, owners : BOOLEAN]

Unused == [status |-> "unused", due |-> 0, for |-> Hand]
Waiting == [timer |-> TRUE, todo |-> <<>>, stage |-> "idle", owners |-> TRUE]
NoSave == [stage |-> "idle", at |-> 0, live |-> FALSE]

Init ==
    /\ clock = 0 /\ left \in Bounds
    /\ rows = [i \in Id |-> Unused]
    /\ interview = [at |-> 0, live |-> FALSE]
    /\ savers = [h \in Saver |-> NoSave]
    /\ workers = [w \in Worker |-> Waiting]
    /\ armed = [i \in Id |-> 0]
    /\ delivered = [w \in Worker |-> [i \in Id |-> 0]] /\ failed = delivered
    /\ unsynced = FALSE /\ touched = FALSE

Spend(what) == left[what] > 0 /\ left' = [left EXCEPT ![what] = @ - 1]

Live(i) == rows[i].status \in Status
ForInterview(i) == rows[i].for # Hand
Free == {i \in Id : rows[i].status = "unused"}

\* A row is armed when it becomes PENDING, and when it is given a new time while PENDING.
Write(i, row) ==
    /\ rows' = [rows EXCEPT ![i] = row]
    /\ armed' = [armed EXCEPT ![i] = IF row.status = "PENDING" /\ row # rows[i] THEN @ + 1 ELSE @]

-----------------------------------------------------------------------------
(* The owner *)

create(due) ==
    /\ Spend("creates")
    /\ \E i \in Free : /\ \A m \in Free : i <= m
                       /\ Write(i, [status |-> "PENDING", due |-> due, for |-> Hand])
    /\ UNCHANGED <<clock, interview, savers, workers, delivered, failed, unsynced, touched>>

Edits(i, row) ==
    /\ Live(i) /\ Spend("edits") /\ Write(i, row)
    /\ touched' = (touched \/ ForInterview(i))
    /\ UNCHANGED <<clock, interview, savers, workers, delivered, failed, unsynced>>

update(i, due, status) == Edits(i, [rows[i] EXCEPT !.due = due, !.status = status])
complete(i) == Edits(i, [rows[i] EXCEPT !.status = "DONE"])
remove(i) == Edits(i, [rows[i] EXCEPT !.status = "deleted"])

-----------------------------------------------------------------------------
(* The interview: schedule and update, and syncInterviewReminders *)

Saving == {h \in Saver : savers[h].stage # "idle"}

\* The row is saved; what is synchronised is what this statement returned.
saveInterview(h, at, live) ==
    /\ h \notin Saving /\ Spend("saves")
    /\ interview' = [at |-> at, live |-> live]
    /\ savers' = [savers EXCEPT ![h] = [stage |-> "clear", at |-> at, live |-> live]]
    /\ unsynced' = (unsynced \/ Saving # {})
    /\ UNCHANGED <<clock, rows, workers, armed, delivered, failed, touched>>

\* Mutant of Cleared: only the reminders of the date saved are dropped.
ClearedOfDate(h) == {i \in Id : rows[i].for = savers[h].at /\ rows[i].for # Hand /\ rows[i].status = "PENDING"}

Cleared(h) == {i \in Id : rows[i].for # Hand /\ rows[i].status = "PENDING"}

clearExisting(h) ==
    /\ savers[h].stage = "clear"
    /\ rows' = [i \in Id |-> IF i \in Cleared(h) THEN [rows[i] EXCEPT !.status = "deleted"] ELSE rows[i]]
    /\ savers' = [savers EXCEPT ![h] = IF @.live /\ @.at # 0 THEN [@ EXCEPT !.stage = "insert"] ELSE NoSave]
    /\ UNCHANGED <<clock, interview, workers, left, history>>

\* One insert for every lead time that is still to come.
Ahead(at) == {d \in Time : d > clock /\ \E l \in Leads : d + l = at}

insert(h) ==
    LET dues == Ahead(savers[h].at)
        news == {i \in Free : Cardinality({j \in Free : j <= i}) <= Cardinality(dues)}
    IN  /\ savers[h].stage = "insert" /\ Cardinality(news) = Cardinality(dues)
        /\ \E dueOf \in [news -> dues] :
              /\ \A i, j \in news : i < j => dueOf[i] < dueOf[j]
              /\ rows' = [i \in Id |-> IF i \in news
                                       THEN [status |-> "PENDING", due |-> dueOf[i], for |-> savers[h].at]
                                       ELSE rows[i]]
        /\ armed' = [i \in Id |-> IF i \in news THEN armed[i] + 1 ELSE armed[i]]
        /\ savers' = [savers EXCEPT ![h] = NoSave]
        /\ UNCHANGED <<clock, interview, workers, left, delivered, failed, unsynced, touched>>

\* A statement fails, which is logged and swallowed, or the process dies.
SyncFails(h) ==
    /\ h \in Saving /\ Spend("mishaps")
    /\ savers' = [savers EXCEPT ![h] = NoSave] /\ unsynced' = TRUE
    /\ UNCHANGED <<clock, rows, interview, workers, armed, delivered, failed, touched>>

-----------------------------------------------------------------------------
(* The scheduler and the dispatcher *)

Due == {i \in Id : rows[i].status = "PENDING" /\ rows[i].due <= clock}

\* order by due_at limit Batch.
Batches ==
    LET size == IF Cardinality(Due) <= Batch THEN Cardinality(Due) ELSE Batch
    IN  {q \in [1 .. size -> Due] :
            /\ \A m, n \in 1 .. size : m < n => q[m] # q[n] /\ rows[q[m]].due <= rows[q[n]].due
            /\ \A i \in Due, n \in 1 .. size :
                  rows[i].due < rows[q[n]].due => \E m \in 1 .. size : q[m] = i}

\* Mutant of Ended: a tick that fails is not scheduled again.
EndedWell(ok) == [Waiting EXCEPT !.timer = ok]

\* finally: whether the tick succeeded or threw, the next one is scheduled.
Ended(ok) == Waiting

\* The timer goes off: the tick reads its batch and the owners.
Read(w, owners) ==
    /\ w \in left.workers /\ workers[w].timer
    /\ \E q \in Batches :
          workers' = [workers EXCEPT ![w] =
              IF q = <<>> THEN Ended(TRUE)
              ELSE [timer |-> FALSE, todo |-> q, stage |-> "mark", owners |-> owners]]
    /\ UNCHANGED <<clock, rows, interview, savers, history>>

Fire(w) == Due # {} /\ Read(w, TRUE) /\ UNCHANGED left
OwnersUnread(w) == Due # {} /\ Read(w, FALSE) /\ Spend("mishaps")

\* The read of the reminders fails: the tick throws.
ReadFails(w) ==
    /\ w \in left.workers /\ workers[w].timer /\ Spend("mishaps")
    /\ workers' = [workers EXCEPT ![w] = Ended(FALSE)]
    /\ UNCHANGED <<clock, rows, interview, savers, history>>

Rest(w) ==
    IF Len(workers[w].todo) = 1 THEN Ended(TRUE)
    ELSE [timer |-> FALSE, todo |-> Tail(workers[w].todo), stage |-> "mark", owners |-> workers[w].owners]

\* Mutant of Marks: the row is marked after it has been published, if at all.
MarksNot(w) == FALSE

\* update ... where status = 'PENDING'
Marks(w) == rows[Head(workers[w].todo)].status = "PENDING"

\* A row whose owner is not known is closed and not published.
Mark(w) ==
    /\ workers[w].stage = "mark"
    /\ rows' = IF Marks(w) THEN [rows EXCEPT ![Head(workers[w].todo)].status = "SENT"] ELSE rows
    /\ workers' = [workers EXCEPT ![w] = IF @.owners THEN [@ EXCEPT !.stage = "publish"] ELSE Rest(w)]
    /\ UNCHANGED <<clock, interview, savers, left, history>>

\* The error of the UPDATE is not looked at.
MarkFails(w) ==
    /\ workers[w].stage = "mark" /\ workers[w].owners /\ Spend("mishaps")
    /\ workers' = [workers EXCEPT ![w].stage = "publish"]
    /\ failed' = [failed EXCEPT ![w][Head(workers[w].todo)] = @ + 1]
    /\ UNCHANGED <<clock, rows, interview, savers, armed, delivered, unsynced, touched>>

\* publishToUser and sendPushToUser, whatever the UPDATE has found.
Publish(w) ==
    /\ workers[w].stage = "publish"
    /\ delivered' = [delivered EXCEPT ![w][Head(workers[w].todo)] = @ + 1]
    /\ workers' = [workers EXCEPT ![w] = Rest(w)]
    /\ UNCHANGED <<clock, rows, interview, savers, left, armed, failed, unsynced, touched>>

\* The process dies and is started again.
Crash(w) ==
    /\ w \in left.workers /\ workers[w] # Waiting /\ Spend("mishaps")
    /\ workers' = [workers EXCEPT ![w] = Waiting]
    /\ UNCHANGED <<clock, rows, interview, savers, history>>

TimePasses ==
    /\ clock < left.until /\ clock' = clock + 1
    /\ UNCHANGED <<rows, interview, savers, workers, left, history>>

Dispatch(w) == Fire(w) \/ Mark(w) \/ Publish(w)

Next ==
    \/ \E d \in Time : create(d)
    \/ \E i \in Id : complete(i) \/ remove(i) \/ \E d \in Time, s \in Status : update(i, d, s)
    \/ \E h \in Saver : \/ \E at \in Time, live \in BOOLEAN : saveInterview(h, at, live)
                        \/ clearExisting(h) \/ insert(h) \/ SyncFails(h)
    \/ \E w \in Worker : Dispatch(w) \/ OwnersUnread(w) \/ ReadFails(w) \/ MarkFails(w) \/ Crash(w)
    \/ TimePasses

Spec == Init /\ [][Next]_vars

\* Timers go off and statements are answered.
FairSpec == Spec /\ \A w \in Worker : WF_vars(Dispatch(w))

-----------------------------------------------------------------------------
TypeOK ==
    /\ clock \in Time /\ rows \in [Id -> Row] /\ interview \in Interview
    /\ savers \in [Saver -> Save] /\ workers \in [Worker -> Lease] /\ left \in Bound
    /\ armed \in [Id -> Nat]
    /\ delivered \in [Worker -> [Id -> Nat]] /\ failed \in [Worker -> [Id -> Nat]]
    /\ unsynced \in BOOLEAN /\ touched \in BOOLEAN
    /\ \A w \in Worker : workers[w].timer <=> workers[w].todo = <<>>

\* reminders.job.ts 10-11 and 93-95: the guarded UPDATE keeps a tick from delivering what
\* has been delivered.  Whatever the owner and the interview do during its ticks, and
\* whatever other processes do, a process delivers a row at most once for every time it was
\* armed, and once more for every UPDATE of its own that failed.
DeliveredOncePerProcess ==
    \A w \in Worker, i \in Id : delivered[w][i] <= armed[i] + failed[w][i]

\* What those comments say: once, however many processes there are.
DeliveredOnce ==
    \A v, w \in Worker, i \in Id :
        v # w => delivered[v][i] + delivered[w][i] <= armed[i] + failed[v][i] + failed[w][i]

\* interviewReminders.service.ts 53-59: when no save is under way the reminders that wait
\* are for the date the interview has now, one for every lead time that is still to come and
\* none if it is not to take place; unless two saves overlapped, one failed, or the owner
\* has changed them.
RemindersFollowInterview ==
    LET waiting == {i \in Id : ForInterview(i) /\ rows[i].status = "PENDING"}
        dues == {rows[i].due : i \in waiting}
    IN  Saving = {} /\ ~unsynced /\ ~touched =>
            /\ Cardinality(dues) = Cardinality(waiting)
            /\ \A i \in waiting : interview.live /\ rows[i].for = interview.at
            /\ interview.live /\ interview.at # 0 => Ahead(interview.at) \subseteq dues

\* scheduler.ts 7-8, reminders.job.ts 1-8: a reminder that is due does not wait for good,
\* whatever fails meanwhile and however many are due before it.
DueIsDispatched == \A i \in Id : i \in Due ~> i \notin Due
=============================================================================
