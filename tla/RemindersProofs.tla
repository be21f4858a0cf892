-------------------------- MODULE RemindersProofs --------------------------
(***************************************************************************)
(* A process delivers a reminder at most once for every time it was armed, *)
(* and once more for every UPDATE of its own that failed, for every number *)
(* of processes, rows and requests.  A process may deliver a row when it   *)
(* has it in its batch; it takes a row into the batch while it is PENDING, *)
(* and then the row has been armed once more than the process has          *)
(* delivered it.                                                           *)
(***************************************************************************)
EXTENDS Reminders, FiniteSetTheorems, SequenceTheorems, TLAPS

\* The batch of worker w, in which no row comes twice.
Todo(w) == {workers[w].todo[n] : n \in 1 .. Len(workers[w].todo)}
Distinct(q) == \A m, n \in 1 .. Len(q) : q[m] = q[n] => m = n

Batched ==
    \A w \in Worker : /\ Distinct(workers[w].todo)
                      /\ workers[w].stage = "idle" <=> workers[w].todo = <<>>

\* Worker w has sent its UPDATE for row i and publishes it next.
Publishing(w, i) == workers[w].stage = "publish" /\ i = Head(workers[w].todo)

Credit(w, i) == armed[i] + failed[w][i]

\* What worker w has delivered of row i and may still deliver.
Within(w, i) ==
    /\ delivered[w][i] <= Credit(w, i)
    /\ i \in Todo(w) \/ rows[i].status = "PENDING" => delivered[w][i] + 1 <= Credit(w, i)
    /\ Publishing(w, i) /\ rows[i].status = "PENDING" => delivered[w][i] + 2 <= Credit(w, i)

AllWithin == \A w \in Worker, i \in Id : Within(w, i)

IInv == TypeOK /\ Batched /\ AllWithin

-----------------------------------------------------------------------------
\* Spending leaves a bound, with the same workers.
LEMMA SpendsBound ==
    ASSUME left \in Bound, NEW what \in {"creates", "edits", "saves", "mishaps"}, Spend(what)
    PROVE  left' \in Bound
  BY DEF Spend, Bound

\* The initial state satisfies the inductive invariant.
LEMMA InitIInv == Init => IInv
<1> SUFFICES ASSUME Init PROVE IInv
  OBVIOUS
<1>1. TypeOK
  <2>1. 0 \in Time
    BY NumbersAreNumbers DEF Time
  <2>2. left \in Bound
    BY BoundsAreBounds DEF Init
  <2>3. Waiting \in Lease
    BY DEF Waiting, Lease
  <2>4. /\ Unused \in Row /\ NoSave \in Save
        /\ [at |-> 0, live |-> FALSE] \in Interview
    BY <2>1 DEF Unused, Row, NoSave, Save, Interview, Hand
  <2> QED
    BY <2>1, <2>2, <2>3, <2>4 DEF Init, TypeOK, Waiting
<1>2. Batched
  BY DEF Init, Batched, Distinct, Waiting
<1>3. AllWithin
  BY DEF Init, AllWithin, Within, Todo, Publishing, Credit, Waiting, Unused, Hand
<1> QED
  BY <1>1, <1>2, <1>3 DEF IInv

\* A row that becomes PENDING is armed again.
ArmedAgain(i) == \/ armed'[i] = armed[i] + 1
                 \/ armed'[i] = armed[i] /\ (rows'[i].status = "PENDING" => rows[i].status = "PENDING")

\* Rows are written, and nothing else that the proof is about.
LEMMA RowsAreWithin ==
    ASSUME IInv, rows' \in [Id -> Row], armed' \in [Id -> Nat], UNCHANGED <<workers, delivered, failed>>,
           \A i \in Id : ArmedAgain(i)
    PROVE  Batched' /\ AllWithin'
  <1>1. Batched'
    BY DEF IInv, Batched
  <1>2. ASSUME NEW w \in Worker, NEW j \in Id PROVE Within(w, j)'
    <2>1. /\ armed'[j] \in Nat /\ armed[j] \in Nat /\ failed[w][j] \in Nat /\ delivered[w][j] \in Nat
          /\ failed'[w][j] = failed[w][j] /\ delivered'[w][j] = delivered[w][j]
      BY DEF IInv, TypeOK
    <2>2. Todo(w)' = Todo(w) /\ (Publishing(w, j)' <=> Publishing(w, j)) /\ Within(w, j)
      BY DEF Todo, Publishing, IInv, AllWithin
    <2>3. CASE armed'[j] = armed[j] + 1
      <3>1. delivered[w][j] <= Credit(w, j) /\ (Publishing(w, j) => delivered[w][j] + 1 <= Credit(w, j))
        <4>1. Publishing(w, j) => j \in Todo(w)
          BY DEF Publishing, Todo, IInv, Batched, TypeOK, Lease
        <4> QED BY <4>1, <2>2 DEF Within
      <3> QED BY <2>1, <2>2, <2>3, <3>1 DEF Within, Credit
    <2>4. CASE armed'[j] = armed[j] /\ (rows'[j].status = "PENDING" => rows[j].status = "PENDING")
      BY <2>1, <2>2, <2>4 DEF Within, Credit
    <2> QED BY <2>3, <2>4 DEF ArmedAgain
  <1> QED BY <1>1, <1>2 DEF AllWithin

\* One row is written.
LEMMA WriteIsWithin ==
    ASSUME IInv, NEW i \in Id, NEW row \in Row, Write(i, row), UNCHANGED <<workers, delivered, failed>>
    PROVE  /\ rows' \in [Id -> Row] /\ armed' \in [Id -> Nat]
           /\ Batched' /\ AllWithin'
  <1>1. rows' \in [Id -> Row] /\ armed' \in [Id -> Nat]
    BY DEF Write, IInv, TypeOK
  <1>2. \A j \in Id : ArmedAgain(j)
    BY DEF ArmedAgain, Write, IInv, TypeOK
  <1> QED BY <1>1, <1>2, RowsAreWithin

\* The batch without its first row.
LEMMA TailOfBatch ==
    ASSUME NEW q \in Seq(Id), q # <<>>, Distinct(q)
    PROVE  /\ Head(q) \in Id /\ Tail(q) \in Seq(Id) /\ Distinct(Tail(q))
           /\ Len(q) = 1 => Tail(q) = <<>>
           /\ Len(q) # 1 => Tail(q) # <<>>
           /\ {Tail(q)[n] : n \in 1 .. Len(Tail(q))} = {q[n] : n \in 1 .. Len(q)} \ {Head(q)}
  <1>1. Len(q) \in Nat /\ Len(q) >= 1 /\ Head(q) = q[1] /\ Head(q) \in Id
    OBVIOUS
  <1>2. Tail(q) \in Seq(Id) /\ Len(Tail(q)) = Len(q) - 1 /\ \A n \in 1 .. Len(q) - 1 : Tail(q)[n] = q[n + 1]
    OBVIOUS
  <1>3. Distinct(Tail(q))
    BY <1>1, <1>2 DEF Distinct
  <1>4. {Tail(q)[n] : n \in 1 .. Len(Tail(q))} = {q[n] : n \in 1 .. Len(q)} \ {Head(q)}
    <2>1. ASSUME NEW n \in 1 .. Len(Tail(q)) PROVE Tail(q)[n] \in {q[m] : m \in 1 .. Len(q)} \ {Head(q)}
      BY <1>1, <1>2 DEF Distinct
    <2>2. ASSUME NEW m \in 1 .. Len(q), q[m] # Head(q) PROVE q[m] \in {Tail(q)[n] : n \in 1 .. Len(Tail(q))}
      <3>1. m - 1 \in 1 .. Len(Tail(q)) /\ Tail(q)[m - 1] = q[m]
        BY <1>1, <1>2, <2>2
      <3> QED BY <3>1
    <2> QED BY <2>1, <2>2
  <1>5. Len(q) = 1 <=> Tail(q) = <<>>
    <2>1. Len(q) = 1 <=> Len(Tail(q)) = 0
      BY <1>1, <1>2
    <2>2. Len(Tail(q)) = 0 <=> Tail(q) = <<>>
      BY <1>2, EmptySeq
    <2> QED BY <2>1, <2>2
  <1> QED BY <1>1, <1>2, <1>3, <1>4, <1>5

\* The first row of a batch is done with: the worker goes on with the rest, if there is any.
LEMMA RestOfBatch ==
    ASSUME IInv, NEW w \in Worker, workers[w].todo # <<>>,
           workers' = [workers EXCEPT ![w] = Rest(w)]
    PROVE  /\ workers' \in [Worker -> Lease] /\ Batched'
           /\ \A v \in Worker : workers'[v].timer <=> workers'[v].todo = <<>>
           /\ Todo(w)' = Todo(w) \ {Head(workers[w].todo)}
           /\ \A i \in Id : ~Publishing(w, i)'
           /\ \A v \in Worker \ {w} : workers'[v] = workers[v]
  <1>1. workers[w] \in Lease /\ workers[w].todo \in Seq(Id) /\ Distinct(workers[w].todo) /\ ~workers[w].timer
    BY DEF IInv, TypeOK, Lease, Batched
  <1>2. \A v \in Worker \ {w} : workers'[v] = workers[v]
    BY DEF IInv, TypeOK
  <1>3. workers'[w] = Rest(w)
    BY DEF IInv, TypeOK
  <1>4. CASE Len(workers[w].todo) = 1
    <2>1. workers'[w] = Waiting
      BY <1>3, <1>4 DEF Rest, Ended
    <2>2. Todo(w)' = {} /\ Todo(w) \ {Head(workers[w].todo)} = {}
      BY <1>1, <1>4, <2>1, TailOfBatch DEF Todo, Waiting
    <2>3. workers' \in [Worker -> Lease]
      <3>1. Waiting \in Lease
        BY DEF Waiting, Lease
      <3> QED BY <1>3, <2>1, <3>1 DEF IInv, TypeOK
    <2>4. Batched' /\ \A v \in Worker : workers'[v].timer <=> workers'[v].todo = <<>>
      BY <1>2, <2>1 DEF Batched, IInv, TypeOK, Waiting, Distinct
    <2>5. \A i \in Id : ~Publishing(w, i)'
      BY <2>1 DEF Publishing, Waiting
    <2> QED BY <1>2, <2>2, <2>3, <2>4, <2>5
  <1>5. CASE Len(workers[w].todo) # 1
    <2>1. PICK q \in Seq(Id), o \in BOOLEAN : q = Tail(workers[w].todo) /\ o = workers[w].owners
      <3>1. Tail(workers[w].todo) \in Seq(Id)
        BY <1>1, TailOfBatch
      <3>2. workers[w].owners \in BOOLEAN
        BY <1>1 DEF Lease
      <3> QED BY <3>1, <3>2
    <2>2. workers'[w] = [timer |-> FALSE, todo |-> q, stage |-> "mark", owners |-> o]
      BY <1>3, <1>5, <2>1 DEF Rest
    <2>8. workers'[w].todo = q /\ workers'[w].stage = "mark"
      BY <2>2
    <2>9. workers'[w].timer = FALSE
      BY <2>2
    <2>10. workers'[w] \in Lease
      <3>1. [timer |-> FALSE, todo |-> q, stage |-> "mark", owners |-> o] \in Lease
        BY DEF Lease
      <3> QED BY <2>2, <3>1, Zenon
    <2>3. Todo(w)' = Todo(w) \ {Head(workers[w].todo)}
      <3>1. Todo(w)' = {q[n] : n \in 1 .. Len(q)}
        BY <2>8 DEF Todo
      <3> QED BY <1>1, <2>1, <3>1, TailOfBatch DEF Todo
    <2>4. Tail(workers[w].todo) # <<>> /\ Distinct(Tail(workers[w].todo))
      BY <1>1, <1>5, TailOfBatch
    <2>5. Batched' /\ \A v \in Worker : workers'[v].timer <=> workers'[v].todo = <<>>
      <3>1. Distinct(workers'[w].todo) /\ workers'[w].todo # <<>>
        BY <2>1, <2>4, <2>8
      <3>2. Batched'
        BY <1>2, <2>8, <3>1 DEF Batched, IInv
      <3>3. \A v \in Worker : workers'[v].timer <=> workers'[v].todo = <<>>
        BY <1>2, <2>9, <3>1 DEF IInv, TypeOK
      <3> QED BY <3>2, <3>3
    <2>6. workers' \in [Worker -> Lease]
      BY <2>10 DEF IInv, TypeOK
    <2>7. \A i \in Id : ~Publishing(w, i)'
      BY <2>8 DEF Publishing
    <2> QED BY <1>2, <2>3, <2>5, <2>6, <2>7
  <1> QED BY <1>4, <1>5

-----------------------------------------------------------------------------
(* The steps of the owner and of the interview *)

\* The owner creates or edits a row.
LEMMA OwnerStep ==
    ASSUME IInv, NEW i \in Id, NEW row \in Row, Write(i, row), left' \in Bound, touched' \in BOOLEAN,
           UNCHANGED <<clock, interview, savers, workers, delivered, failed, unsynced>>
    PROVE  IInv'
  <1>1. rows' \in [Id -> Row] /\ armed' \in [Id -> Nat] /\ Batched' /\ AllWithin'
    BY WriteIsWithin
  <1>2. TypeOK'
    BY <1>1 DEF IInv, TypeOK
  <1> QED BY <1>1, <1>2 DEF IInv

LEMMA CreateStep ==
    ASSUME IInv, NEW due \in Time, create(due)
    PROVE  IInv'
  <1>1. left' \in Bound
    BY SpendsBound DEF create, IInv, TypeOK
  <1>2. PICK i \in Free : Write(i, [status |-> "PENDING", due |-> due, for |-> Hand])
    BY DEF create
  <1>3. i \in Id
    BY <1>2 DEF Free
  <1>4. [status |-> "PENDING", due |-> due, for |-> Hand] \in Row
    BY NumbersAreNumbers DEF Row, Status, Hand, Time
  <1>5. touched' \in BOOLEAN
    BY DEF create, IInv, TypeOK
  <1> QED BY <1>1, <1>2, <1>3, <1>4, <1>5, OwnerStep DEF create

LEMMA EditStep ==
    ASSUME IInv, NEW i \in Id, NEW row \in Row, Edits(i, row)
    PROVE  IInv'
  <1>1. left' \in Bound
    BY SpendsBound DEF Edits, IInv, TypeOK
  <1>2. touched' \in BOOLEAN
    BY DEF Edits, ForInterview, IInv, TypeOK
  <1> QED BY <1>1, <1>2, OwnerStep DEF Edits

\* The rows an owner's edit writes.
LEMMA EditsWriteRows ==
    ASSUME IInv, NEW i \in Id, NEW due \in Time, NEW status \in Status
    PROVE  /\ [rows[i] EXCEPT !.due = due, !.status = status] \in Row
           /\ [rows[i] EXCEPT !.status = "DONE"] \in Row
           /\ [rows[i] EXCEPT !.status = "deleted"] \in Row
  <1>1. rows[i] \in Row
    BY DEF IInv, TypeOK
  <1> QED BY <1>1 DEF Row, Status

LEMMA SaveStep ==
    ASSUME IInv, NEW h \in Saver, NEW at \in Time, NEW live \in BOOLEAN, saveInterview(h, at, live)
    PROVE  IInv'
  <1>1. left' \in Bound
    BY SpendsBound DEF saveInterview, IInv, TypeOK
  <1>2. interview' \in Interview /\ savers' \in [Saver -> Save]
    BY DEF saveInterview, IInv, TypeOK, Interview, Save
  <1>3. unsynced' \in BOOLEAN
    BY DEF saveInterview, IInv, TypeOK
  <1>4. TypeOK'
    BY <1>1, <1>2, <1>3 DEF saveInterview, IInv, TypeOK
  <1>5. Batched' /\ AllWithin'
    <2>1. \A i \in Id : ArmedAgain(i)
      BY DEF saveInterview, ArmedAgain
    <2> QED BY <2>1, RowsAreWithin DEF saveInterview, IInv, TypeOK
  <1> QED BY <1>4, <1>5 DEF IInv

LEMMA ClearStep ==
    ASSUME IInv, NEW h \in Saver, clearExisting(h)
    PROVE  IInv'
  <1>1. rows' \in [Id -> Row]
    <2>1. \A i \in Id : rows[i] \in Row /\ [rows[i] EXCEPT !.status = "deleted"] \in Row
      BY DEF IInv, TypeOK, Row
    <2> QED BY <2>1 DEF clearExisting
  <1>2. savers' \in [Saver -> Save]
    <2>1. NoSave \in Save
      BY NumbersAreNumbers DEF NoSave, Save, Time
    <2>2. savers[h] \in Save /\ [savers[h] EXCEPT !.stage = "insert"] \in Save
      BY DEF IInv, TypeOK, Save
    <2>3. \/ savers' = [savers EXCEPT ![h] = [savers[h] EXCEPT !.stage = "insert"]]
          \/ savers' = [savers EXCEPT ![h] = NoSave]
      BY DEF clearExisting
    <2> QED BY <2>1, <2>2, <2>3 DEF IInv, TypeOK
  <1>3. TypeOK'
    BY <1>1, <1>2 DEF clearExisting, history, IInv, TypeOK
  <1>4. ASSUME NEW i \in Id PROVE ArmedAgain(i)
    <2>1. rows'[i] = rows[i] \/ (rows[i] \in Row /\ rows'[i] = [rows[i] EXCEPT !.status = "deleted"])
      BY DEF clearExisting, IInv, TypeOK
    <2> QED BY <2>1 DEF clearExisting, history, Row, ArmedAgain
  <1>5. Batched' /\ AllWithin'
    BY <1>1, <1>3, <1>4, RowsAreWithin DEF clearExisting, history, TypeOK
  <1> QED BY <1>3, <1>5 DEF IInv

LEMMA InsertStep ==
    ASSUME IInv, NEW h \in Saver, insert(h)
    PROVE  IInv'
  <1>0. PICK news \in SUBSET Id : \E dueOf \in [news -> Time] :
            /\ rows' = [i \in Id |-> IF i \in news
                                     THEN [status |-> "PENDING", due |-> dueOf[i], for |-> savers[h].at]
                                     ELSE rows[i]]
            /\ armed' = [i \in Id |-> IF i \in news THEN armed[i] + 1 ELSE armed[i]]
    <2> DEFINE dues == Ahead(savers[h].at)
               some == {i \in Free : Cardinality({j \in Free : j <= i}) <= Cardinality(dues)}
    <2>1. PICK dueOf \in [some -> dues] :
              /\ rows' = [i \in Id |-> IF i \in some
                                       THEN [status |-> "PENDING", due |-> dueOf[i], for |-> savers[h].at]
                                       ELSE rows[i]]
              /\ armed' = [i \in Id |-> IF i \in some THEN armed[i] + 1 ELSE armed[i]]
      BY DEF insert
    <2>2. some \in SUBSET Id /\ dues \in SUBSET Time
      BY DEF Free, Ahead
    <2> HIDE DEF some, dues
    <2>3. dueOf \in [some -> Time]
      BY <2>2
    <2> QED BY <2>1, <2>2, <2>3
  <1>1. PICK dueOf \in [news -> Time] :
            /\ rows' = [i \in Id |-> IF i \in news
                                     THEN [status |-> "PENDING", due |-> dueOf[i], for |-> savers[h].at]
                                     ELSE rows[i]]
            /\ armed' = [i \in Id |-> IF i \in news THEN armed[i] + 1 ELSE armed[i]]
    BY <1>0
  <1>2. rows' \in [Id -> Row] /\ armed' \in [Id -> Nat]
    <2>1. savers[h].at \in Time
      BY DEF IInv, TypeOK, Save
    <2>2. ASSUME NEW i \in news
          PROVE  [status |-> "PENDING", due |-> dueOf[i], for |-> savers[h].at] \in Row
      BY <2>1 DEF Row, Status
    <2> QED BY <1>1, <2>2 DEF IInv, TypeOK
  <1>3. savers' \in [Saver -> Save]
    BY NumbersAreNumbers DEF insert, IInv, TypeOK, NoSave, Save, Time
  <1>4. TypeOK'
    BY <1>2, <1>3 DEF insert, IInv, TypeOK
  <1>5. ASSUME NEW i \in Id PROVE ArmedAgain(i)
    BY <1>1 DEF ArmedAgain
  <1>6. Batched' /\ AllWithin'
    BY <1>2, <1>5, RowsAreWithin DEF insert
  <1> QED BY <1>4, <1>6 DEF IInv

LEMMA SyncFailsStep ==
    ASSUME IInv, NEW h \in Saver, SyncFails(h)
    PROVE  IInv'
  <1>1. left' \in Bound
    BY SpendsBound DEF SyncFails, IInv, TypeOK
  <1>2. savers' \in [Saver -> Save]
    BY NumbersAreNumbers DEF SyncFails, IInv, TypeOK, NoSave, Save, Time
  <1>3. TypeOK'
    BY <1>1, <1>2 DEF SyncFails, IInv, TypeOK
  <1>4. Batched' /\ AllWithin'
    <2>1. \A i \in Id : ArmedAgain(i)
      BY DEF SyncFails, ArmedAgain
    <2> QED BY <2>1, RowsAreWithin DEF SyncFails, IInv, TypeOK
  <1> QED BY <1>3, <1>4 DEF IInv

-----------------------------------------------------------------------------
(* The steps of the dispatcher *)

\* The worker waits for its timer: its tick is over, or is lost.
LEMMA Waits ==
    ASSUME IInv, NEW w \in Worker, workers' = [workers EXCEPT ![w] = Waiting], left' \in Bound,
           UNCHANGED <<clock, rows, interview, savers, history>>
    PROVE  IInv'
  <1>1. Waiting \in Lease
    BY DEF Waiting, Lease
  <1>2. \A v \in Worker : workers'[v] = IF v = w THEN Waiting ELSE workers[v]
    BY DEF IInv, TypeOK
  <1>3. TypeOK'
    <2>1. workers' \in [Worker -> Lease]
      BY <1>1 DEF IInv, TypeOK
    <2>2. \A v \in Worker : workers'[v].timer <=> workers'[v].todo = <<>>
      BY <1>2 DEF Waiting, IInv, TypeOK
    <2> QED BY <2>1, <2>2 DEF IInv, TypeOK, history
  <1>4. Batched'
    BY <1>2 DEF Waiting, IInv, Batched, Distinct
  <1>5. ASSUME NEW v \in Worker, NEW i \in Id PROVE Within(v, i)'
    <2>1. Within(v, i)
      BY DEF IInv, AllWithin
    <2>2. (i \in Todo(v)' => i \in Todo(v)) /\ (Publishing(v, i)' => Publishing(v, i))
      BY <1>2 DEF Todo, Publishing, Waiting
    <2> QED BY <2>1, <2>2 DEF Within, Credit, history
  <1> QED BY <1>3, <1>4, <1>5 DEF IInv, AllWithin

\* The rows of a batch are due, and no row comes twice in it.
LEMMA BatchIsDue ==
    ASSUME NEW q \in Batches
    PROVE  q \in Seq(Id) /\ Distinct(q) /\ \A n \in 1 .. Len(q) : q[n] \in Due
  <1>1. Due \subseteq Id /\ Cardinality(Due) \in Nat
    <2>1. Due \subseteq Id
      BY DEF Due
    <2>2. IsFiniteSet(Id)
      BY FS_Interval, NumbersAreNumbers DEF Id
    <2> QED BY <2>1, <2>2, FS_Subset, FS_CardinalityType
  <1>2. PICK size \in Nat :
            /\ q \in [1 .. size -> Due]
            /\ \A m, n \in 1 .. size : m < n => q[m] # q[n]
    BY <1>1, NumbersAreNumbers DEF Batches
  <1>3. q \in Seq(Id) /\ Len(q) = size
    BY <1>1, <1>2
  <1>4. Distinct(q)
    BY <1>2, <1>3 DEF Distinct
  <1> QED BY <1>2, <1>3, <1>4

\* The tick takes a batch: its rows are PENDING, so the worker may still deliver each once.
LEMMA TakesBatch ==
    ASSUME IInv, NEW w \in Worker, NEW q \in Batches, q # <<>>, NEW o \in BOOLEAN, workers[w].timer,
           workers' = [workers EXCEPT ![w] = [timer |-> FALSE, todo |-> q, stage |-> "mark", owners |-> o]],
           left' \in Bound, UNCHANGED <<clock, rows, interview, savers, history>>
    PROVE  IInv'
  <1>1. q \in Seq(Id) /\ Distinct(q) /\ \A n \in 1 .. Len(q) : rows[q[n]].status = "PENDING"
    BY BatchIsDue DEF Due
  <1>2. [timer |-> FALSE, todo |-> q, stage |-> "mark", owners |-> o] \in Lease
    BY <1>1 DEF Lease
  <1>3. \A v \in Worker \ {w} : workers'[v] = workers[v]
    BY DEF IInv, TypeOK
  <1>4. workers'[w] = [timer |-> FALSE, todo |-> q, stage |-> "mark", owners |-> o]
    BY DEF IInv, TypeOK
  <1>5. workers'[w].todo = q /\ workers'[w].stage = "mark"
    BY <1>4
  <1>6. workers'[w].timer = FALSE
    BY <1>4
  <1>7. TypeOK'
    <2>1. workers' \in [Worker -> Lease]
      BY <1>2 DEF IInv, TypeOK
    <2>2. \A v \in Worker : workers'[v].timer <=> workers'[v].todo = <<>>
      BY <1>3, <1>5, <1>6 DEF IInv, TypeOK
    <2> QED BY <2>1, <2>2 DEF IInv, TypeOK, history
  <1>8. Batched'
    BY <1>1, <1>3, <1>5 DEF Batched, IInv
  <1>9. ASSUME NEW v \in Worker, NEW i \in Id PROVE Within(v, i)'
    <2>1. Within(v, i)
      BY DEF IInv, AllWithin
    <2>2. CASE v # w
      <3>1. Todo(v)' = Todo(v) /\ (Publishing(v, i)' <=> Publishing(v, i))
        BY <1>3, <2>2 DEF Todo, Publishing
      <3> QED BY <2>1, <3>1 DEF Within, Credit, history
    <2>3. CASE v = w
      <3>1. ~Publishing(w, i)' /\ (i \in Todo(w)' => rows[i].status = "PENDING")
        BY <1>1, <1>5 DEF Todo, Publishing
      <3> QED BY <2>1, <2>3, <3>1 DEF Within, Credit, history
    <2> QED BY <2>2, <2>3
  <1> QED BY <1>7, <1>8, <1>9 DEF IInv, AllWithin

LEMMA ReadStep ==
    ASSUME IInv, NEW w \in Worker, NEW o \in BOOLEAN, Read(w, o), left' \in Bound
    PROVE  IInv'
  <1>1. PICK q \in Batches :
            workers' = [workers EXCEPT ![w] =
                IF q = <<>> THEN Ended(TRUE)
                ELSE [timer |-> FALSE, todo |-> q, stage |-> "mark", owners |-> o]]
    BY DEF Read
  <1>2. workers[w].timer /\ UNCHANGED <<clock, rows, interview, savers, history>>
    BY DEF Read
  <1>3. CASE q = <<>>
    BY <1>1, <1>2, <1>3, Waits DEF Ended
  <1>4. CASE q # <<>>
    BY <1>1, <1>2, <1>4, TakesBatch
  <1> QED BY <1>3, <1>4

LEMMA FireStep ==
    ASSUME IInv, NEW w \in Worker, Fire(w) \/ OwnersUnread(w)
    PROVE  IInv'
  <1>1. CASE Fire(w)
    <2>1. left' \in Bound
      BY <1>1 DEF Fire, IInv, TypeOK
    <2> QED BY <1>1, <2>1, ReadStep DEF Fire
  <1>2. CASE OwnersUnread(w)
    <2>1. left' \in Bound
      BY <1>2, SpendsBound DEF OwnersUnread, IInv, TypeOK
    <2> QED BY <1>2, <2>1, ReadStep DEF OwnersUnread
  <1> QED BY <1>1, <1>2

LEMMA LostStep ==
    ASSUME IInv, NEW w \in Worker, ReadFails(w) \/ Crash(w)
    PROVE  IInv'
  <1>1. left' \in Bound
    BY SpendsBound DEF ReadFails, Crash, IInv, TypeOK
  <1> QED BY <1>1, Waits DEF ReadFails, Crash, Ended

\* The row a worker works on.
LEMMA HeadOfBatch ==
    ASSUME IInv, NEW w \in Worker, workers[w].stage # "idle"
    PROVE  /\ workers[w] \in Lease /\ workers[w].todo \in Seq(Id) /\ workers[w].todo # <<>>
           /\ ~workers[w].timer
           /\ Head(workers[w].todo) \in Id /\ Head(workers[w].todo) \in Todo(w)
  <1>1. workers[w] \in Lease /\ workers[w].todo \in Seq(Id) /\ workers[w].todo # <<>>
    BY DEF IInv, TypeOK, Lease, Batched
  <1>2. ~workers[w].timer
    BY <1>1 DEF IInv, TypeOK
  <1>3. Head(workers[w].todo) \in Id /\ Head(workers[w].todo) \in Todo(w)
    BY <1>1 DEF Todo
  <1> QED BY <1>1, <1>2, <1>3

\* The worker publishes the row it works on next.
LEMMA GoesOn ==
    ASSUME IInv, NEW w \in Worker, workers[w].stage = "mark",
           workers' = [workers EXCEPT ![w] = [workers[w] EXCEPT !.stage = "publish"]]
    PROVE  /\ workers' \in [Worker -> Lease] /\ Batched'
           /\ \A v \in Worker : workers'[v].timer <=> workers'[v].todo = <<>>
           /\ \A v \in Worker : Todo(v)' = Todo(v)
           /\ \A i \in Id : Publishing(w, i)' <=> i = Head(workers[w].todo)
           /\ \A v \in Worker \ {w} : workers'[v] = workers[v]
  <1>1. workers[w] \in Lease /\ workers[w].todo # <<>> /\ ~workers[w].timer
    BY HeadOfBatch
  <1>2. [workers[w] EXCEPT !.stage = "publish"] \in Lease
    BY <1>1 DEF Lease
  <1>3. \A v \in Worker \ {w} : workers'[v] = workers[v]
    BY DEF IInv, TypeOK
  <1>4. workers'[w] = [workers[w] EXCEPT !.stage = "publish"]
    BY DEF IInv, TypeOK
  <1>5. workers'[w].todo = workers[w].todo /\ workers'[w].stage = "publish"
    BY <1>1, <1>4 DEF Lease
  <1>6. workers'[w].timer = workers[w].timer
    BY <1>1, <1>4 DEF Lease
  <1>7. workers' \in [Worker -> Lease]
    BY <1>2 DEF IInv, TypeOK
  <1>8. Batched'
    BY <1>1, <1>3, <1>5 DEF IInv, Batched
  <1>9. \A v \in Worker : workers'[v].timer <=> workers'[v].todo = <<>>
    BY <1>3, <1>5, <1>6 DEF IInv, TypeOK
  <1>10. \A v \in Worker : Todo(v)' = Todo(v)
    BY <1>3, <1>5 DEF Todo
  <1>11. \A i \in Id : Publishing(w, i)' <=> i = Head(workers[w].todo)
    BY <1>5 DEF Publishing
  <1> QED BY <1>3, <1>7, <1>8, <1>9, <1>10, <1>11

\* No row becomes PENDING by the UPDATE, and the one it is about is not PENDING after it.
LEMMA MarkWrites ==
    ASSUME IInv, NEW w \in Worker, Mark(w)
    PROVE  /\ rows' \in [Id -> Row]
           /\ \A i \in Id : rows'[i].status = "PENDING" => rows[i].status = "PENDING"
           /\ rows'[Head(workers[w].todo)].status # "PENDING"
  <1>1. Head(workers[w].todo) \in Id
    BY HeadOfBatch DEF Mark
  <1>2. PICK h \in Id : h = Head(workers[w].todo)
    BY <1>1
  <1>3. rows[h] \in Row /\ [rows[h] EXCEPT !.status = "SENT"] \in Row
    BY DEF IInv, TypeOK, Row, Status
  <1>4. [rows[h] EXCEPT !.status = "SENT"].status = "SENT"
    BY <1>3 DEF Row
  <1>5. \/ rows' = [rows EXCEPT ![h] = [rows[h] EXCEPT !.status = "SENT"]]
        \/ rows' = rows /\ rows[h].status # "PENDING"
    BY <1>2 DEF Mark, Marks
  <1> QED BY <1>2, <1>3, <1>4, <1>5 DEF IInv, TypeOK

LEMMA MarkStep ==
    ASSUME IInv, NEW w \in Worker, Mark(w)
    PROVE  IInv'
  <1>1. workers[w].stage = "mark" /\ UNCHANGED <<clock, interview, savers, left, history>>
    BY DEF Mark
  <1>2. workers[w].todo # <<>> /\ Head(workers[w].todo) \in Id
    BY <1>1, HeadOfBatch
  <1>3. \/ workers' = [workers EXCEPT ![w] = Rest(w)]
        \/ workers' = [workers EXCEPT ![w] = [workers[w] EXCEPT !.stage = "publish"]]
    BY DEF Mark
  <1>4. /\ workers' \in [Worker -> Lease] /\ Batched'
        /\ \A v \in Worker : workers'[v].timer <=> workers'[v].todo = <<>>
    BY <1>1, <1>2, <1>3, RestOfBatch, GoesOn
  <1>5. \A v \in Worker \ {w} : workers'[v] = workers[v]
    BY <1>1, <1>2, <1>3, RestOfBatch, GoesOn
  <1>6. \A i \in Id : (i \in Todo(w)' => i \in Todo(w)) /\ (Publishing(w, i)' => i = Head(workers[w].todo))
    BY <1>1, <1>2, <1>3, RestOfBatch, GoesOn
  <1>7. TypeOK'
    BY <1>1, <1>4, MarkWrites DEF IInv, TypeOK, history
  <1>8. ASSUME NEW v \in Worker, NEW i \in Id PROVE Within(v, i)'
    <2>1. Within(v, i)
      BY DEF IInv, AllWithin
    <2>2. (rows'[i].status = "PENDING" => rows[i].status = "PENDING")
      BY MarkWrites
    <2>3. i \in Todo(v)' => i \in Todo(v)
      BY <1>5, <1>6 DEF Todo
    <2>4. Publishing(v, i)' /\ rows'[i].status = "PENDING" => Publishing(v, i)
      BY <1>5, <1>6, MarkWrites DEF Publishing
    <2> QED BY <1>1, <2>1, <2>2, <2>3, <2>4 DEF Within, Credit, history
  <1> QED BY <1>4, <1>7, <1>8 DEF IInv, AllWithin

\* The UPDATE fails: the worker may deliver the row once more.
LEMMA MarkFailsStep ==
    ASSUME IInv, NEW w \in Worker, MarkFails(w)
    PROVE  IInv'
  <1>1. left' \in Bound
    BY SpendsBound DEF MarkFails, IInv, TypeOK
  <1>2. workers[w].stage = "mark" /\ UNCHANGED <<clock, rows, interview, savers, armed, delivered, unsynced, touched>>
    BY DEF MarkFails
  <1>3. PICK h \in Id : h = Head(workers[w].todo) /\ h \in Todo(w)
    BY <1>2, HeadOfBatch
  <1>4. workers' = [workers EXCEPT ![w] = [workers[w] EXCEPT !.stage = "publish"]]
    BY DEF MarkFails
  <1>5. /\ workers' \in [Worker -> Lease] /\ Batched'
        /\ \A v \in Worker : workers'[v].timer <=> workers'[v].todo = <<>>
        /\ \A v \in Worker : Todo(v)' = Todo(v)
        /\ \A i \in Id : Publishing(w, i)' <=> i = h
        /\ \A v \in Worker \ {w} : workers'[v] = workers[v]
    BY <1>2, <1>3, <1>4, GoesOn
  <1>6. failed' = [failed EXCEPT ![w] = [failed[w] EXCEPT ![h] = failed[w][h] + 1]]
    BY <1>3 DEF MarkFails
  <1>7. failed' \in [Worker -> [Id -> Nat]]
    <2>1. failed[w] \in [Id -> Nat]
      BY DEF IInv, TypeOK
    <2>2. [failed[w] EXCEPT ![h] = failed[w][h] + 1] \in [Id -> Nat]
      BY <2>1
    <2> QED BY <1>6, <2>2 DEF IInv, TypeOK
  <1>8. \A v \in Worker, i \in Id : failed'[v][i] = IF v = w /\ i = h THEN failed[v][i] + 1 ELSE failed[v][i]
    BY <1>6 DEF IInv, TypeOK
  <1>9. TypeOK'
    BY <1>1, <1>2, <1>5, <1>7 DEF IInv, TypeOK
  <1>10. ASSUME NEW v \in Worker, NEW i \in Id PROVE Within(v, i)'
    <2>1. Within(v, i) /\ armed[i] \in Nat /\ failed[v][i] \in Nat /\ delivered[v][i] \in Nat
      BY DEF IInv, AllWithin, TypeOK
    <2>2. CASE v = w /\ i = h
      <3>1. delivered[v][i] + 1 <= Credit(v, i)
        BY <1>3, <2>1, <2>2 DEF Within
      <3>2. Credit(v, i)' = Credit(v, i) + 1 /\ Credit(v, i) \in Nat /\ delivered'[v][i] = delivered[v][i]
        BY <1>2, <1>8, <2>1, <2>2 DEF Credit
      <3>3. /\ delivered'[v][i] <= Credit(v, i)' /\ delivered'[v][i] + 1 <= Credit(v, i)'
            /\ delivered'[v][i] + 2 <= Credit(v, i)'
        BY <2>1, <3>1, <3>2
      <3> QED BY <3>3 DEF Within
    <2>3. CASE ~(v = w /\ i = h)
      <3>1. Publishing(v, i)' => Publishing(v, i)
        BY <1>5, <2>3 DEF Publishing
      <3>2. failed'[v][i] = failed[v][i]
        BY <1>8, <2>3
      <3> QED BY <1>2, <1>5, <2>1, <3>1, <3>2 DEF Within, Credit
    <2> QED BY <2>2, <2>3
  <1> QED BY <1>5, <1>9, <1>10 DEF IInv, AllWithin

\* The row is published, and the worker is done with it.
LEMMA PublishStep ==
    ASSUME IInv, NEW w \in Worker, Publish(w)
    PROVE  IInv'
  <1>1. workers[w].stage = "publish" /\ UNCHANGED <<clock, rows, interview, savers, left, armed, failed, unsynced, touched>>
    BY DEF Publish
  <1>2. PICK h \in Id : h = Head(workers[w].todo) /\ h \in Todo(w) /\ workers[w].todo # <<>>
    BY <1>1, HeadOfBatch
  <1>3. /\ workers' \in [Worker -> Lease] /\ Batched'
        /\ \A v \in Worker : workers'[v].timer <=> workers'[v].todo = <<>>
        /\ Todo(w)' = Todo(w) \ {h}
        /\ \A i \in Id : ~Publishing(w, i)'
        /\ \A v \in Worker \ {w} : workers'[v] = workers[v]
    BY <1>2, RestOfBatch DEF Publish
  <1>4. delivered' = [delivered EXCEPT ![w] = [delivered[w] EXCEPT ![h] = delivered[w][h] + 1]]
    BY <1>2 DEF Publish
  <1>5. delivered' \in [Worker -> [Id -> Nat]]
    <2>1. delivered[w] \in [Id -> Nat]
      BY DEF IInv, TypeOK
    <2>2. [delivered[w] EXCEPT ![h] = delivered[w][h] + 1] \in [Id -> Nat]
      BY <2>1
    <2> QED BY <1>4, <2>2 DEF IInv, TypeOK
  <1>6. \A v \in Worker, i \in Id :
            delivered'[v][i] = IF v = w /\ i = h THEN delivered[v][i] + 1 ELSE delivered[v][i]
    BY <1>4 DEF IInv, TypeOK
  <1>7. TypeOK'
    BY <1>1, <1>3, <1>5 DEF IInv, TypeOK
  <1>8. ASSUME NEW v \in Worker, NEW i \in Id PROVE Within(v, i)'
    <2>1. Within(v, i) /\ armed[i] \in Nat /\ failed[v][i] \in Nat /\ delivered[v][i] \in Nat
      BY DEF IInv, AllWithin, TypeOK
    <2>2. CASE v = w /\ i = h
      <3>1. Publishing(w, i) /\ i \in Todo(w) /\ i \notin Todo(w)' /\ ~Publishing(w, i)'
        BY <1>1, <1>2, <1>3, <2>2 DEF Publishing
      <3>2. delivered'[v][i] = delivered[v][i] + 1
        BY <1>6, <2>2
      <3> QED BY <1>1, <2>1, <2>2, <3>1, <3>2 DEF Within, Credit
    <2>3. CASE ~(v = w /\ i = h)
      <3>1. (i \in Todo(v)' => i \in Todo(v)) /\ (Publishing(v, i)' => Publishing(v, i))
        <4>1. CASE v = w
          BY <1>3, <4>1
        <4>2. CASE v # w
          <5>1. workers'[v] = workers[v]
            BY <1>3, <4>2
          <5> QED BY <5>1 DEF Publishing, Todo
        <4> QED BY <4>1, <4>2
      <3>2. delivered'[v][i] = delivered[v][i]
        BY <1>6, <2>3
      <3> QED BY <1>1, <2>1, <3>1, <3>2 DEF Within, Credit
    <2> QED BY <2>2, <2>3
  <1> QED BY <1>3, <1>7, <1>8 DEF IInv, AllWithin

\* Time passes, or nothing happens.
LEMMA QuietStep ==
    ASSUME IInv, clock' \in Time, UNCHANGED <<rows, interview, savers, workers, left, history>>
    PROVE  IInv'
  <1>1. TypeOK'
    BY DEF IInv, TypeOK, history
  <1>2. \A i \in Id : ArmedAgain(i)
    BY DEF ArmedAgain, history
  <1>3. Batched' /\ AllWithin'
    BY <1>2, RowsAreWithin DEF IInv, TypeOK, history
  <1> QED BY <1>1, <1>3 DEF IInv

-----------------------------------------------------------------------------
\* Every step preserves the inductive invariant.
LEMMA NextIInv == IInv /\ [Next]_vars => IInv'
<1> SUFFICES ASSUME IInv, [Next]_vars PROVE IInv'
  OBVIOUS
<1>1. ASSUME NEW d \in Time, create(d) PROVE IInv'
  BY <1>1, CreateStep
<1>2. ASSUME NEW i \in Id, complete(i) \/ remove(i) PROVE IInv'
  <2>1. "DONE" \in Status
    BY DEF Status
  <2>2. \A due \in Time : [rows[i] EXCEPT !.status = "DONE"] \in Row /\ [rows[i] EXCEPT !.status = "deleted"] \in Row
    BY <2>1, EditsWriteRows
  <2>3. 0 \in Time
    BY NumbersAreNumbers DEF Time
  <2> QED BY <1>2, <2>2, <2>3, EditStep DEF complete, remove
<1>3. ASSUME NEW i \in Id, NEW d \in Time, NEW s \in Status, update(i, d, s) PROVE IInv'
  BY <1>3, EditStep, EditsWriteRows DEF update
<1>4. ASSUME NEW h \in Saver, NEW at \in Time, NEW live \in BOOLEAN, saveInterview(h, at, live) PROVE IInv'
  BY <1>4, SaveStep
<1>5. ASSUME NEW h \in Saver, clearExisting(h) \/ insert(h) \/ SyncFails(h) PROVE IInv'
  BY <1>5, ClearStep, InsertStep, SyncFailsStep
<1>6. ASSUME NEW w \in Worker, Dispatch(w) \/ OwnersUnread(w) PROVE IInv'
  BY <1>6, FireStep, MarkStep, PublishStep DEF Dispatch
<1>7. ASSUME NEW w \in Worker, ReadFails(w) \/ Crash(w) \/ MarkFails(w) PROVE IInv'
  BY <1>7, LostStep, MarkFailsStep
<1>8. CASE TimePasses
  <2>1. clock' \in Time
    BY <1>8, NumbersAreNumbers DEF TimePasses, Time, IInv, TypeOK, Bound
  <2> QED BY <1>8, <2>1, QuietStep DEF TimePasses
<1>9. CASE UNCHANGED vars
  BY <1>9, QuietStep DEF vars, history, IInv, TypeOK
<1> QED BY <1>1, <1>2, <1>3, <1>4, <1>5, <1>6, <1>7, <1>8, <1>9 DEF Next

LEMMA Inductive == Spec => []IInv
  BY InitIInv, NextIInv, PTL DEF Spec

\* Every variable keeps its type.
THEOREM TypeCorrect == Spec => []TypeOK
<1>1. IInv => TypeOK
  BY DEF IInv
<1> QED BY <1>1, Inductive, PTL

\* reminders.job.ts 10-11 and 93-95: whatever owners, interviews and other processes do, a
\* process delivers a row at most once for every time it was armed, and once more for every
\* UPDATE of its own that failed.
THEOREM DeliveriesAreBounded == Spec => []DeliveredOncePerProcess
<1>1. IInv => DeliveredOncePerProcess
  BY DEF IInv, AllWithin, Within, Credit, DeliveredOncePerProcess
<1> QED BY <1>1, Inductive, PTL

-----------------------------------------------------------------------------
(***************************************************************************)
(* The reminders that wait follow the interview.  While at most one save   *)
(* is under way it is for the interview as it is, and has left no reminder *)
(* before it inserts; and the dispatcher takes only rows whose time has    *)
(* come, so what it marks is not ahead any more.                           *)
(***************************************************************************)

\* The reminders of an interview that wait.
Awaited == {i \in Id : ForInterview(i) /\ rows[i].status = "PENDING"}

\* The rows of a batch exist, and those of an interview are due, unless the owner has moved them.
Ripe ==
    \A w \in Worker : \A i \in Todo(w) :
        rows[i].status # "unused" /\ (~touched /\ ForInterview(i) => rows[i].due <= clock)

Synced ==
    /\ \A i, j \in Awaited : rows[i].due = rows[j].due => i = j
    /\ \A i \in Awaited : interview.live /\ rows[i].for = interview.at
    /\ interview.live /\ interview.at # 0 =>
          \A d \in Ahead(interview.at) : \E i \in Awaited : rows[i].due = d

SaveIsCurrent(h) ==
    /\ savers[h].at = interview.at /\ savers[h].live = interview.live
    /\ savers[h].stage = "insert" => interview.live /\ interview.at # 0 /\ Awaited = {}

Following ==
    ~unsynced /\ ~touched =>
        /\ \A g, h \in Saving : g = h
        /\ \A h \in Saving : SaveIsCurrent(h)
        /\ Saving = {} => Synced

FInv == Ripe /\ Following

\* As many reminders as distinct times: what Synced says of waiting rows is what the property counts.
LEMMA DistinctDues ==
    ASSUME NEW S, IsFiniteSet(S), NEW R, NEW f \in [S -> R], \A i, j \in S : f[i] = f[j] => i = j
    PROVE  Cardinality({f[i] : i \in S}) = Cardinality(S)
  <1> DEFINE T == {f[i] : i \in S}
  <1>1. f \in Surjection(S, T)
    BY DEF Surjection
  <1>2. f \in Injection(S, T)
    BY DEF Injection, IsInjective
  <1> HIDE DEF T
  <1> QED BY <1>1, <1>2, FS_Surjection DEF T

LEMMA FInvMeansFollowing == IInv /\ FInv => RemindersFollowInterview
  <1> SUFFICES ASSUME IInv, FInv, Saving = {}, ~unsynced, ~touched
               PROVE  LET dues == {rows[i].due : i \in Awaited}
                      IN  /\ Cardinality(dues) = Cardinality(Awaited)
                          /\ \A i \in Awaited : interview.live /\ rows[i].for = interview.at
                          /\ interview.live /\ interview.at # 0 => Ahead(interview.at) \subseteq dues
    BY DEF RemindersFollowInterview, Awaited
  <1>1. Synced
    BY DEF FInv, Following
  <1>2. IsFiniteSet(Awaited)
    <2>1. IsFiniteSet(Id) /\ Awaited \subseteq Id
      BY FS_Interval, NumbersAreNumbers DEF Id, Awaited
    <2> QED BY <2>1, FS_Subset
  <1>3. Cardinality({rows[i].due : i \in Awaited}) = Cardinality(Awaited)
    <2> DEFINE due == [i \in Awaited |-> rows[i].due]
    <2>1. due \in [Awaited -> Time] /\ \A i \in Awaited : due[i] = rows[i].due
      BY DEF Awaited, IInv, TypeOK, Row
    <2>2. \A i, j \in Awaited : due[i] = due[j] => i = j
      BY <1>1 DEF Synced
    <2> HIDE DEF due
    <2>3. Cardinality({due[i] : i \in Awaited}) = Cardinality(Awaited)
      BY <1>2, <2>1, <2>2, DistinctDues
    <2>4. {due[i] : i \in Awaited} = {rows[i].due : i \in Awaited}
      BY <2>1
    <2> QED BY <2>3, <2>4
  <1>4. interview.live /\ interview.at # 0 => Ahead(interview.at) \subseteq {rows[i].due : i \in Awaited}
    BY <1>1 DEF Synced
  <1> QED BY <1>1, <1>3, <1>4 DEF Synced

LEMMA InitFInv == Init => FInv
  <1> SUFFICES ASSUME Init PROVE FInv
    OBVIOUS
  <1>1. Ripe
    BY DEF Init, Ripe, Todo, Waiting
  <1>2. Awaited = {} /\ ~interview.live
    BY DEF Init, Awaited, Unused, ForInterview, Hand
  <1>3. Saving = {}
    BY DEF Init, Saving, NoSave
  <1> QED BY <1>1, <1>2, <1>3 DEF FInv, Following, Synced

\* A row made by hand is written, or the owner has changed a reminder of the interview.
LEMMA HandRowWritten ==
    ASSUME IInv, FInv, NEW i \in Id, NEW row \in Row, Write(i, row),
           row.status # "unused", row.for = IF i \in Free THEN Hand ELSE rows[i].for,
           touched' = (touched \/ (i \notin Free /\ ForInterview(i))),
           UNCHANGED <<clock, interview, savers, workers, unsynced>>
    PROVE  FInv'
  <1>1. rows'[i] = row /\ \A j \in Id : j # i => rows'[j] = rows[j]
    BY DEF Write, IInv, TypeOK
  <1>2. \A w \in Worker : Todo(w)' = Todo(w) /\ Todo(w) \subseteq Id
    BY DEF Todo, IInv, TypeOK, Lease
  <1>3. Ripe'
    <2> SUFFICES ASSUME NEW w \in Worker, NEW j \in Todo(w)
                 PROVE  rows'[j].status # "unused" /\ (~touched' /\ ForInterview(j)' => rows'[j].due <= clock)
      BY <1>2 DEF Ripe
    <2>1. rows[j].status # "unused" /\ (~touched /\ ForInterview(j) => rows[j].due <= clock) /\ j \in Id
      BY <1>2 DEF FInv, Ripe
    <2>2. CASE j = i
      BY <1>1, <2>1, <2>2 DEF Free, ForInterview
    <2>3. CASE j # i
      BY <1>1, <2>1, <2>3 DEF ForInterview
    <2> QED BY <2>2, <2>3
  <1>4. CASE touched'
    BY <1>3, <1>4 DEF FInv, Following
  <1>5. CASE ~touched'
    <2>1. ~touched /\ (rows[i].for = Hand \/ i \in Free) /\ rows'[i].for = Hand
      BY <1>1, <1>5 DEF ForInterview
    <2>2. Awaited' = Awaited
      BY <1>1, <1>5, <2>1 DEF Awaited, ForInterview, Free
    <2>3. \A j \in Awaited : rows'[j] = rows[j]
      BY <1>1, <1>5, <2>1 DEF Awaited, ForInterview, Free
    <2>4. Synced => Synced'
      BY <2>2, <2>3 DEF Synced, Ahead
    <2>5. Saving' = Saving /\ \A h \in Saving : SaveIsCurrent(h) => SaveIsCurrent(h)'
      BY <2>2 DEF Saving, SaveIsCurrent
    <2> QED BY <1>3, <1>5, <2>1, <2>4, <2>5 DEF FInv, Following
  <1> QED BY <1>4, <1>5

LEMMA CreateFollows ==
    ASSUME IInv, FInv, NEW due \in Time, create(due)
    PROVE  FInv'
  <1>1. PICK i \in Free : Write(i, [status |-> "PENDING", due |-> due, for |-> Hand])
    BY DEF create
  <1>2. i \in Id
    BY <1>1 DEF Free
  <1>3. PICK row \in Row : row = [status |-> "PENDING", due |-> due, for |-> Hand]
    <2>1. [status |-> "PENDING", due |-> due, for |-> Hand] \in Row
      BY NumbersAreNumbers DEF Row, Status, Hand, Time
    <2> QED BY <2>1
  <1>4. row.status = "PENDING" /\ row.for = Hand
    BY <1>3
  <1>5. touched' = (touched \/ (i \notin Free /\ ForInterview(i)))
    BY <1>1 DEF create, IInv, TypeOK
  <1> QED BY <1>1, <1>2, <1>3, <1>4, <1>5, HandRowWritten DEF create

LEMMA EditFollows ==
    ASSUME IInv, FInv, NEW i \in Id, NEW row \in Row, Edits(i, row), row.status # "unused", row.for = rows[i].for
    PROVE  FInv'
  <1>1. i \notin Free
    BY DEF Edits, Live, Free, Status
  <1> QED BY <1>1, HandRowWritten DEF Edits

LEMMA SaveFollows ==
    ASSUME IInv, FInv, NEW h \in Saver, NEW at \in Time, NEW live \in BOOLEAN, saveInterview(h, at, live)
    PROVE  FInv'
  <1>1. interview' = [at |-> at, live |-> live] /\ savers'[h] = [stage |-> "clear", at |-> at, live |-> live]
    BY DEF saveInterview, IInv, TypeOK
  <1>2. \A g \in Saver : g # h => savers'[g] = savers[g]
    BY DEF saveInterview, IInv, TypeOK
  <1>3. Saving' = Saving \cup {h}
    BY <1>1, <1>2 DEF Saving
  <1>4. Ripe'
    BY DEF saveInterview, FInv, Ripe, Todo, ForInterview
  <1>5. Following'
    <2> SUFFICES ASSUME ~unsynced', ~touched'
                 PROVE  Saving' = {h} /\ SaveIsCurrent(h)'
      BY DEF Following
    <2>1. Saving' = {h}
      BY <1>3 DEF saveInterview, IInv, TypeOK
    <2>2. SaveIsCurrent(h)'
      BY <1>1 DEF SaveIsCurrent
    <2> QED BY <2>1, <2>2
  <1> QED BY <1>4, <1>5 DEF FInv

\* The reminders that wait are dropped, whatever their date.
LEMMA ClearFollows ==
    ASSUME IInv, FInv, NEW h \in Saver, clearExisting(h)
    PROVE  FInv'
  <1>1. h \in Saving
    BY DEF clearExisting, Saving
  <1>2. \A i \in Id : \/ rows'[i] = rows[i] /\ i \notin Awaited
                      \/ i \in Awaited /\ rows'[i] = [rows[i] EXCEPT !.status = "deleted"] /\ rows[i] \in Row
    BY DEF clearExisting, Cleared, Awaited, ForInterview, IInv, TypeOK
  <1>3. ASSUME NEW i \in Id
        PROVE  /\ rows'[i].for = rows[i].for /\ rows'[i].due = rows[i].due
               /\ i \notin Awaited'
               /\ rows[i].status # "unused" => rows'[i].status # "unused"
    <2>1. CASE rows'[i] = rows[i] /\ i \notin Awaited
      BY <2>1 DEF Awaited, ForInterview
    <2>2. CASE rows'[i] = [rows[i] EXCEPT !.status = "deleted"] /\ rows[i] \in Row
      <3>1. rows'[i].status = "deleted" /\ rows'[i].for = rows[i].for /\ rows'[i].due = rows[i].due
        BY <2>2 DEF Row
      <3> QED BY <3>1 DEF Awaited
    <2> QED BY <1>2, <2>1, <2>2
  <1>4. Awaited' = {}
    BY <1>3 DEF Awaited
  <1>5. UNCHANGED <<clock, interview, workers, touched, unsynced>>
    BY DEF clearExisting, history
  <1>6. Ripe'
    <2> SUFFICES ASSUME NEW w \in Worker, NEW i \in Todo(w)
                 PROVE  rows'[i].status # "unused" /\ (~touched /\ ForInterview(i)' => rows'[i].due <= clock)
      BY <1>5 DEF Ripe, Todo
    <2>1. i \in Id
      BY DEF Todo, IInv, TypeOK, Lease
    <2>2. rows[i].status # "unused" /\ (~touched /\ ForInterview(i) => rows[i].due <= clock)
      BY DEF FInv, Ripe
    <2> QED BY <1>3, <2>1, <2>2 DEF ForInterview
  <1>7. Following'
    <2> SUFFICES ASSUME ~unsynced, ~touched
                 PROVE  /\ \A f, g \in Saving' : f = g
                        /\ \A g \in Saving' : SaveIsCurrent(g)'
                        /\ Saving' = {} => Synced'
      BY <1>5 DEF Following
    <2>1. Saving = {h} /\ SaveIsCurrent(h)
      BY <1>1 DEF FInv, Following
    <2>2. \A g \in Saver : g # h => savers'[g] = savers[g]
      BY DEF clearExisting, IInv, TypeOK
    <2>3. savers[h] \in Save
      BY DEF IInv, TypeOK
    <2>4. CASE savers[h].live /\ savers[h].at # 0
      <3>1. savers'[h] = [savers[h] EXCEPT !.stage = "insert"]
        BY <2>4 DEF clearExisting, IInv, TypeOK
      <3>2. savers'[h].at = savers[h].at /\ savers'[h].live = savers[h].live /\ savers'[h].stage = "insert"
        BY <2>3, <3>1 DEF Save
      <3>3. Saving' = {h}
        BY <2>1, <2>2, <3>2 DEF Saving
      <3> QED BY <1>4, <1>5, <2>1, <2>4, <3>2, <3>3 DEF SaveIsCurrent
    <2>5. CASE ~(savers[h].live /\ savers[h].at # 0)
      <3>1. savers'[h] = NoSave
        BY <2>5 DEF clearExisting, IInv, TypeOK
      <3>2. Saving' = {}
        BY <2>1, <2>2, <3>1 DEF Saving, NoSave
      <3>3. ~(interview'.live /\ interview'.at # 0)
        BY <1>5, <2>1, <2>5 DEF SaveIsCurrent
      <3> QED BY <1>4, <3>2, <3>3 DEF Synced
    <2> QED BY <2>4, <2>5
  <1> QED BY <1>6, <1>7 DEF FInv

\* An increasing function between finite sets of numbers of the same size takes every value.
LEMMA IncreasingIsOnto ==
    ASSUME NEW S \in SUBSET Nat, NEW T \in SUBSET Nat, IsFiniteSet(T), Cardinality(S) = Cardinality(T),
           NEW f \in [S -> T], \A i, j \in S : i < j => f[i] < f[j]
    PROVE  /\ \A i, j \in S : f[i] = f[j] => i = j
           /\ \A d \in T : \E i \in S : f[i] = d
  <1>1. ASSUME NEW i \in S, NEW j \in S, f[i] = f[j] PROVE i = j
    <2>1. i \in Nat /\ j \in Nat /\ f[i] \in Nat /\ f[j] \in Nat
      OBVIOUS
    <2>2. ~(i < j) /\ ~(j < i)
      BY <1>1, <2>1
    <2> QED BY <2>1, <2>2
  <1>2. f \in Injection(S, T)
    BY <1>1 DEF Injection, IsInjective
  <1>3. f \in Surjection(S, T)
    BY <1>2, FS_Injection
  <1> QED BY <1>1, <1>3 DEF Surjection

\* One reminder is inserted for every lead time that is still to come.
LEMMA InsertWrites ==
    ASSUME IInv, NEW h \in Saver, insert(h)
    PROVE  \E news \in SUBSET Free : \E dueOf \in [news -> Ahead(savers[h].at)] :
              /\ \A i, j \in news : dueOf[i] = dueOf[j] => i = j
              /\ \A d \in Ahead(savers[h].at) : \E i \in news : dueOf[i] = d
              /\ rows' = [i \in Id |-> IF i \in news
                                       THEN [status |-> "PENDING", due |-> dueOf[i], for |-> savers[h].at]
                                       ELSE rows[i]]
  <1> DEFINE dues == Ahead(savers[h].at)
             news == {i \in Free : Cardinality({j \in Free : j <= i}) <= Cardinality(dues)}
  <1>1. PICK dueOf \in [news -> dues] :
            /\ \A i, j \in news : i < j => dueOf[i] < dueOf[j]
            /\ rows' = [i \in Id |-> IF i \in news
                                     THEN [status |-> "PENDING", due |-> dueOf[i], for |-> savers[h].at]
                                     ELSE rows[i]]
    BY DEF insert
  <1>2. Cardinality(news) = Cardinality(dues)
    BY DEF insert
  <1>3. news \in SUBSET Free /\ Free \in SUBSET Nat
    BY NumbersAreNumbers DEF Free, Id
  <1>4. dues \in SUBSET Nat /\ IsFiniteSet(dues)
    <2>1. IsFiniteSet(Time) /\ Time \in SUBSET Nat
      BY FS_Interval, NumbersAreNumbers DEF Time
    <2>2. dues \in SUBSET Time
      BY DEF Ahead
    <2> QED BY <2>1, <2>2, FS_Subset
  <1>5. news \in SUBSET Nat
    BY <1>3
  <1>7. dueOf \in [news -> dues]
    OBVIOUS
  <1> HIDE DEF news, dues
  <1>6. /\ \A i, j \in news : dueOf[i] = dueOf[j] => i = j
        /\ \A d \in dues : \E i \in news : dueOf[i] = d
    BY <1>1, <1>2, <1>4, <1>5, <1>7, IncreasingIsOnto
  <1> QED BY <1>1, <1>3, <1>6 DEF dues

LEMMA InsertFollows ==
    ASSUME IInv, FInv, NEW h \in Saver, insert(h)
    PROVE  FInv'
  <1>1. PICK news \in SUBSET Free : \E dueOf \in [news -> Ahead(savers[h].at)] :
            /\ \A i, j \in news : dueOf[i] = dueOf[j] => i = j
            /\ \A d \in Ahead(savers[h].at) : \E i \in news : dueOf[i] = d
            /\ rows' = [i \in Id |-> IF i \in news
                                     THEN [status |-> "PENDING", due |-> dueOf[i], for |-> savers[h].at]
                                     ELSE rows[i]]
    BY InsertWrites
  <1>2. PICK dueOf \in [news -> Ahead(savers[h].at)] :
            /\ \A i, j \in news : dueOf[i] = dueOf[j] => i = j
            /\ \A d \in Ahead(savers[h].at) : \E i \in news : dueOf[i] = d
            /\ rows' = [i \in Id |-> IF i \in news
                                     THEN [status |-> "PENDING", due |-> dueOf[i], for |-> savers[h].at]
                                     ELSE rows[i]]
    BY <1>1
  <1>3. \A i \in Id \ news : rows'[i] = rows[i]
    BY <1>2
  <1>4. ASSUME NEW i \in news
        PROVE  /\ i \in Id /\ rows[i].status = "unused"
               /\ rows'[i].status = "PENDING" /\ rows'[i].due = dueOf[i] /\ rows'[i].for = savers[h].at
    BY <1>2 DEF Free
  <1>5. UNCHANGED <<clock, interview, workers, touched, unsynced>> /\ h \in Saving /\ savers[h].stage = "insert"
    BY DEF insert, Saving
  <1>6. Ripe'
    <2> SUFFICES ASSUME NEW w \in Worker, NEW i \in Todo(w)
                 PROVE  rows'[i].status # "unused" /\ (~touched /\ ForInterview(i)' => rows'[i].due <= clock)
      BY <1>5 DEF Ripe, Todo
    <2>1. i \in Id
      BY DEF Todo, IInv, TypeOK, Lease
    <2>2. rows[i].status # "unused" /\ (~touched /\ ForInterview(i) => rows[i].due <= clock)
      BY DEF FInv, Ripe
    <2>3. rows'[i] = rows[i]
      BY <1>3, <1>4, <2>1, <2>2
    <2> QED BY <2>2, <2>3 DEF ForInterview
  <1>7. Following'
    <2> SUFFICES ASSUME ~unsynced, ~touched
                 PROVE  Saving' = {} /\ Synced'
      BY <1>5 DEF Following
    <2>1. /\ Saving = {h} /\ savers[h].at = interview.at
          /\ interview.live /\ interview.at # 0 /\ Awaited = {}
      BY <1>5 DEF FInv, Following, SaveIsCurrent
    <2>2. Saving' = {}
      BY <2>1 DEF Saving, insert, NoSave, IInv, TypeOK
    <2>3. Awaited' = news
      <3>1. ASSUME NEW i \in Id \ news PROVE i \notin Awaited'
        BY <1>3, <2>1, <3>1 DEF Awaited, ForInterview
      <3>2. ASSUME NEW i \in news PROVE i \in Awaited'
        BY <1>4, <2>1, <3>2 DEF Awaited, ForInterview, Hand
      <3>3. Awaited' \subseteq Id
        BY DEF Awaited
      <3> QED BY <3>1, <3>2, <3>3
    <2>4. \A i, j \in Awaited' : rows'[i].due = rows'[j].due => i = j
      BY <1>2, <1>4, <2>3
    <2>5. \A i \in Awaited' : interview'.live /\ rows'[i].for = interview'.at
      BY <1>4, <1>5, <2>1, <2>3
    <2>6. Ahead(interview.at)' = Ahead(savers[h].at)
      BY <1>5, <2>1 DEF Ahead
    <2>7. \A d \in Ahead(interview.at)' : \E i \in Awaited' : rows'[i].due = d
      BY <1>2, <1>4, <2>3, <2>6
    <2> QED BY <2>2, <2>4, <2>5, <2>7 DEF Synced
  <1> QED BY <1>6, <1>7 DEF FInv

LEMMA SyncFailsFollows ==
    ASSUME IInv, FInv, NEW h \in Saver, SyncFails(h)
    PROVE  FInv'
  BY DEF SyncFails, FInv, Ripe, Following, Todo, ForInterview

\* The dispatcher adds only rows that are due to its batches, and marks only rows of its batch.
LEMMA DispatcherFollows ==
    ASSUME IInv, FInv, UNCHANGED <<clock, interview, savers, unsynced, touched>>, rows' \in [Id -> Row],
           \A w \in Worker : Todo(w)' \subseteq Todo(w) \cup Due,
           \A i \in Id : \/ rows'[i] = rows[i]
                         \/ /\ rows'[i].status = "SENT" /\ rows'[i].for = rows[i].for /\ rows'[i].due = rows[i].due
                            /\ \E w \in Worker : i \in Todo(w)
    PROVE  FInv'
  <1>1. \A w \in Worker : Todo(w) \subseteq Id
    BY DEF Todo, IInv, TypeOK, Lease
  <1>2. Ripe'
    <2> SUFFICES ASSUME NEW w \in Worker, NEW i \in Todo(w)'
                 PROVE  rows'[i].status # "unused" /\ (~touched /\ ForInterview(i)' => rows'[i].due <= clock)
      BY DEF Ripe
    <2>1. i \in Id /\ rows[i].status # "unused" /\ (~touched /\ ForInterview(i) => rows[i].due <= clock)
      <3>1. CASE i \in Todo(w)
        BY <1>1, <3>1 DEF FInv, Ripe
      <3>2. CASE i \in Due
        BY <3>2 DEF Due
      <3> QED BY <3>1, <3>2
    <2> QED BY <2>1 DEF ForInterview
  <1>3. Following'
    <2> SUFFICES ASSUME ~unsynced, ~touched
                 PROVE  /\ \A f, g \in Saving : f = g
                        /\ \A g \in Saving : SaveIsCurrent(g)'
                        /\ Saving = {} => Synced'
      BY DEF Following, Saving
    <2>1. Awaited' \subseteq Awaited /\ \A i \in Awaited' : rows'[i] = rows[i]
      BY DEF Awaited, ForInterview
    <2>2. ASSUME NEW i \in Awaited, i \notin Awaited' PROVE rows[i].due <= clock
      <3>1. i \in Id /\ ForInterview(i) /\ rows'[i] # rows[i]
        BY <2>2 DEF Awaited, ForInterview
      <3> QED BY <3>1 DEF FInv, Ripe
    <2>3. Synced => Synced'
      <3> SUFFICES ASSUME Synced, interview.live, interview.at # 0, NEW d \in Ahead(interview.at)
                   PROVE  \E i \in Awaited' : rows'[i].due = d
        BY <2>1 DEF Synced, Ahead
      <3>1. PICK i \in Awaited : rows[i].due = d
        BY DEF Synced
      <3>2. d > clock /\ d \in Nat /\ clock \in Nat
        BY NumbersAreNumbers DEF Ahead, Time, IInv, TypeOK
      <3>3. i \in Awaited'
        BY <2>2, <3>1, <3>2
      <3> QED BY <2>1, <3>1, <3>3
    <2>4. \A g \in Saving : SaveIsCurrent(g) => SaveIsCurrent(g)'
      BY <2>1 DEF SaveIsCurrent
    <2> QED BY <2>3, <2>4 DEF FInv, Following
  <1> QED BY <1>2, <1>3 DEF FInv

\* A worker begins, goes on with, or loses its batch, and writes no row.
LEMMA BatchFollows ==
    ASSUME IInv, FInv, NEW w \in Worker, UNCHANGED <<clock, rows, interview, savers, unsynced, touched>>,
           NEW lease, workers' = [workers EXCEPT ![w] = lease],
           {lease.todo[n] : n \in 1 .. Len(lease.todo)} \subseteq Todo(w) \cup Due
    PROVE  FInv'
  <1>1. \A v \in Worker : Todo(v)' \subseteq Todo(v) \cup Due
    <2> TAKE v \in Worker
    <2>1. CASE v = w
      <3>1. workers'[v] = lease
        BY <2>1 DEF IInv, TypeOK
      <3> QED BY <2>1, <3>1 DEF Todo
    <2>2. CASE v # w
      <3>1. workers'[v] = workers[v]
        BY <2>2 DEF IInv, TypeOK
      <3> QED BY <3>1 DEF Todo
    <2> QED BY <2>1, <2>2
  <1>2. rows' \in [Id -> Row]
    BY DEF IInv, TypeOK
  <1> QED BY <1>1, <1>2, DispatcherFollows

LEMMA WaitsFollows ==
    ASSUME IInv, FInv, NEW w \in Worker, workers' = [workers EXCEPT ![w] = Waiting],
           UNCHANGED <<clock, rows, interview, savers, unsynced, touched>>
    PROVE  FInv'
  <1>1. {Waiting.todo[n] : n \in 1 .. Len(Waiting.todo)} = {}
    BY DEF Waiting
  <1> QED BY <1>1, BatchFollows

LEMMA ReadFollows ==
    ASSUME IInv, FInv, NEW w \in Worker, NEW o \in BOOLEAN, Read(w, o)
    PROVE  FInv'
  <1>1. PICK q \in Batches :
            workers' = [workers EXCEPT ![w] =
                IF q = <<>> THEN Ended(TRUE)
                ELSE [timer |-> FALSE, todo |-> q, stage |-> "mark", owners |-> o]]
    BY DEF Read
  <1>2. UNCHANGED <<clock, rows, interview, savers, unsynced, touched>>
    BY DEF Read, history
  <1>3. CASE q = <<>>
    BY <1>1, <1>2, <1>3, WaitsFollows DEF Ended
  <1>4. CASE q # <<>>
    <2>1. PICK lease : lease = [timer |-> FALSE, todo |-> q, stage |-> "mark", owners |-> o]
      OBVIOUS
    <2>2. lease.todo = q
      BY <2>1
    <2>3. {lease.todo[n] : n \in 1 .. Len(lease.todo)} \subseteq Todo(w) \cup Due
      BY <2>2, BatchIsDue
    <2> QED BY <1>1, <1>2, <1>4, <2>1, <2>3, BatchFollows
  <1> QED BY <1>3, <1>4

\* What Rest leaves of a batch.
LEMMA RestIsOfBatch ==
    ASSUME IInv, NEW w \in Worker, workers[w].todo # <<>>, workers' = [workers EXCEPT ![w] = Rest(w)]
    PROVE  \A v \in Worker : Todo(v)' \subseteq Todo(v)
  <1>1. Todo(w)' \subseteq Todo(w) /\ \A v \in Worker \ {w} : workers'[v] = workers[v]
    BY RestOfBatch
  <1>2. ASSUME NEW v \in Worker PROVE Todo(v)' \subseteq Todo(v)
    <2>1. CASE v = w
      BY <1>1, <2>1
    <2>2. CASE v # w
      <3>1. workers'[v] = workers[v]
        BY <1>1, <2>2
      <3> QED BY <3>1 DEF Todo
    <2> QED BY <2>1, <2>2
  <1> QED BY <1>2

LEMMA MarkFollows ==
    ASSUME IInv, FInv, NEW w \in Worker, Mark(w)
    PROVE  FInv'
  <1>1. workers[w].stage = "mark" /\ UNCHANGED <<clock, interview, savers, unsynced, touched>>
    BY DEF Mark, history
  <1>2. PICK h \in Id : h = Head(workers[w].todo) /\ h \in Todo(w) /\ workers[w].todo # <<>>
    BY <1>1, HeadOfBatch
  <1>3. \A v \in Worker : Todo(v)' \subseteq Todo(v)
    <2>1. CASE workers' = [workers EXCEPT ![w] = Rest(w)]
      BY <1>2, <2>1, RestIsOfBatch
    <2>2. CASE workers' = [workers EXCEPT ![w] = [workers[w] EXCEPT !.stage = "publish"]]
      BY <1>1, <2>2, GoesOn
    <2> QED BY <2>1, <2>2 DEF Mark
  <1>4. rows' \in [Id -> Row]
    BY MarkWrites
  <1>5. \A i \in Id : \/ rows'[i] = rows[i]
                      \/ /\ rows'[i].status = "SENT" /\ rows'[i].for = rows[i].for /\ rows'[i].due = rows[i].due
                         /\ \E v \in Worker : i \in Todo(v)
    <2>1. rows[h] \in Row
      BY DEF IInv, TypeOK
    <2>2. PICK sent : sent = [rows[h] EXCEPT !.status = "SENT"]
      OBVIOUS
    <2>3. sent.status = "SENT" /\ sent.for = rows[h].for /\ sent.due = rows[h].due
      BY <2>1, <2>2 DEF Row
    <2>4. rows' = [rows EXCEPT ![h] = sent] \/ rows' = rows
      BY <1>2, <2>2 DEF Mark
    <2> QED BY <1>2, <2>3, <2>4 DEF IInv, TypeOK
  <1> QED BY <1>1, <1>3, <1>4, <1>5, DispatcherFollows

LEMMA MarkFailsFollows ==
    ASSUME IInv, FInv, NEW w \in Worker, MarkFails(w)
    PROVE  FInv'
  <1>1. workers[w].stage = "mark" /\ UNCHANGED <<clock, rows, interview, savers, unsynced, touched>>
    BY DEF MarkFails
  <1>2. \A v \in Worker : Todo(v)' = Todo(v)
    BY <1>1, GoesOn DEF MarkFails
  <1>3. rows' \in [Id -> Row] /\ \A i \in Id : rows'[i] = rows[i]
    BY <1>1 DEF IInv, TypeOK
  <1> QED BY <1>1, <1>2, <1>3, DispatcherFollows

LEMMA PublishFollows ==
    ASSUME IInv, FInv, NEW w \in Worker, Publish(w)
    PROVE  FInv'
  <1>1. workers[w].stage = "publish" /\ UNCHANGED <<clock, rows, interview, savers, unsynced, touched>>
    BY DEF Publish
  <1>2. workers[w].todo # <<>>
    BY <1>1, HeadOfBatch
  <1>3. \A v \in Worker : Todo(v)' \subseteq Todo(v)
    BY <1>2, RestIsOfBatch DEF Publish
  <1>4. rows' \in [Id -> Row] /\ \A i \in Id : rows'[i] = rows[i]
    BY <1>1 DEF IInv, TypeOK
  <1> QED BY <1>1, <1>3, <1>4, DispatcherFollows

\* As time passes there is less ahead.
LEMMA TimeFollows ==
    ASSUME IInv, FInv, TimePasses
    PROVE  FInv'
  <1>1. clock \in Nat /\ clock' = clock + 1 /\ UNCHANGED <<rows, interview, savers, workers, unsynced, touched>>
    BY NumbersAreNumbers DEF TimePasses, history, IInv, TypeOK, Time
  <1>2. Ripe'
    <2> SUFFICES ASSUME NEW w \in Worker, NEW i \in Todo(w)
                 PROVE  rows[i].status # "unused" /\ (~touched /\ ForInterview(i) => rows[i].due <= clock + 1)
      BY <1>1 DEF Ripe, Todo, ForInterview
    <2>1. i \in Id /\ rows[i].status # "unused" /\ (~touched /\ ForInterview(i) => rows[i].due <= clock)
      BY DEF FInv, Ripe, Todo, IInv, TypeOK, Lease
    <2>2. rows[i].due \in Nat
      BY <2>1, NumbersAreNumbers DEF IInv, TypeOK, Row, Time
    <2> QED BY <1>1, <2>1, <2>2
  <1>3. Awaited' = Awaited /\ Saving' = Saving /\ \A h \in Saving : SaveIsCurrent(h)' <=> SaveIsCurrent(h)
    BY <1>1 DEF Awaited, ForInterview, Saving, SaveIsCurrent
  <1>4. \A at : Ahead(at)' \subseteq Ahead(at)
    BY <1>1, NumbersAreNumbers DEF Ahead, Time
  <1>5. Synced => Synced'
    BY <1>1, <1>3, <1>4 DEF Synced
  <1>6. Following'
    BY <1>1, <1>3, <1>5 DEF FInv, Following
  <1> QED BY <1>2, <1>6 DEF FInv

LEMMA NextFInv == IInv /\ FInv /\ [Next]_vars => FInv'
<1> SUFFICES ASSUME IInv, FInv, [Next]_vars PROVE FInv'
  OBVIOUS
<1>1. ASSUME NEW d \in Time, create(d) PROVE FInv'
  BY <1>1, CreateFollows
<1>2. ASSUME NEW i \in Id, complete(i) \/ remove(i) PROVE FInv'
  <2>1. /\ [rows[i] EXCEPT !.status = "DONE"] \in Row /\ [rows[i] EXCEPT !.status = "deleted"] \in Row
        /\ [rows[i] EXCEPT !.status = "DONE"].for = rows[i].for /\ [rows[i] EXCEPT !.status = "DONE"].status = "DONE"
        /\ [rows[i] EXCEPT !.status = "deleted"].for = rows[i].for
        /\ [rows[i] EXCEPT !.status = "deleted"].status = "deleted"
    <3>1. rows[i] \in Row
      BY DEF IInv, TypeOK
    <3> QED BY <3>1 DEF Row, Status
  <2> QED BY <1>2, <2>1, EditFollows DEF complete, remove
<1>3. ASSUME NEW i \in Id, NEW d \in Time, NEW s \in Status, update(i, d, s) PROVE FInv'
  <2>1. PICK row : row = [rows[i] EXCEPT !.due = d, !.status = s]
    OBVIOUS
  <2>2. row \in Row /\ row.for = rows[i].for /\ row.status = s
    <3>1. rows[i] \in Row
      BY DEF IInv, TypeOK
    <3> QED BY <2>1, <3>1 DEF Row
  <2>3. s # "unused"
    BY DEF Status
  <2> QED BY <1>3, <2>1, <2>2, <2>3, EditFollows DEF update
<1>4. ASSUME NEW h \in Saver, NEW at \in Time, NEW live \in BOOLEAN, saveInterview(h, at, live) PROVE FInv'
  BY <1>4, SaveFollows
<1>5. ASSUME NEW h \in Saver, clearExisting(h) \/ insert(h) \/ SyncFails(h) PROVE FInv'
  BY <1>5, ClearFollows, InsertFollows, SyncFailsFollows
<1>6. ASSUME NEW w \in Worker, Dispatch(w) \/ OwnersUnread(w) PROVE FInv'
  BY <1>6, ReadFollows, MarkFollows, PublishFollows DEF Dispatch, Fire, OwnersUnread
<1>7. ASSUME NEW w \in Worker, ReadFails(w) \/ Crash(w) \/ MarkFails(w) PROVE FInv'
  BY <1>7, WaitsFollows, MarkFailsFollows DEF ReadFails, Crash, Ended, history
<1>8. CASE TimePasses
  BY <1>8, TimeFollows
<1>9. CASE UNCHANGED vars
  BY <1>9 DEF vars, FInv, Ripe, Following, Synced, SaveIsCurrent, Awaited, ForInterview, Saving, Todo, Ahead
<1> QED BY <1>1, <1>2, <1>3, <1>4, <1>5, <1>6, <1>7, <1>8, <1>9 DEF Next

\* interviewReminders.service.ts 53-59: when no save is under way the reminders that wait are
\* for the date the interview has now, one for every lead time still to come and none if it
\* is not to take place, unless two saves overlapped, one failed, or the owner changed them.
THEOREM RemindersAreInStep == Spec => []RemindersFollowInterview
<1>1. Init => IInv /\ FInv
  BY InitIInv, InitFInv
<1>2. IInv /\ FInv /\ [Next]_vars => (IInv /\ FInv)'
  BY NextIInv, NextFInv
<1>3. IInv /\ FInv => RemindersFollowInterview
  BY FInvMeansFollowing
<1> QED BY <1>1, <1>2, <1>3, PTL DEF Spec
=============================================================================
