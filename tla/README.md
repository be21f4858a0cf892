# A TLA+ development of HireOrbit AI

TLA+ modules, TLC configurations and TLAPS proofs for the parts of HireOrbit AI
whose correctness depends on the order in which concurrent requests, connections,
tabs, jobs and failures happen. Paths below are relative to the repository's root.

Running it, inside this directory:

    tlc -workers 2 -config Invoices.cfg MCInvoices
    tlapm InvoicesProofs.tla

`PROJECT.json` lists the runs, the lines of source each definition stands for, the
mutants that show each property can fail, the hazards and the theorems.

## 1. The system

React and React Native clients call an Express 4 back end (`backend/src/server.ts`)
behind nginx; PM2 starts one worker of it, or more. All lasting state is in
PostgreSQL, reached through one `pg` pool (`config/db.ts`), and in a directory of
uploaded files. `docs/architecture.md` has the picture. What matters here:

* A handler is an `async` function. Between two `await`s nothing else runs in its
  worker; at an `await` any other request, of this or another worker, may run.
* Most handlers do **not** use a transaction: each statement commits by itself. The
  exceptions are the invoice handlers, which open one around the writing half but
  read and check the row before it, without a lock.
* The query builder of `config/db.ts` returns errors; whoever does not look at
  `error` goes on as if nothing had happened, with no row.
* A request may stop after any statement: an error, a restart by PM2, a lost
  connection. Nothing resumes it.
* In the browser every tab has its own modules and React state; tabs share
  `localStorage` and hear of each other's writes later, by `storage` events.

### Components

| Component | State | Operations | Interacts with | Hard part | Correct when |
|---|---|---|---|---|---|
| Invoices (`controllers/invoices.controller.ts`) | `invoices`, `invoice_payments`, `invoice_status_history` | create, update, transition, archive, restore, remove, recordPayment, voidPayment | overdue job and manual reminder read them | check on a snapshot, write later; sums cached in the row | the history explains the status, cached sums agree with the ledger, nobody overpays |
| Sessions (`config/auth.local.ts`, `services/auth.service.ts`, `middleware/auth.ts`) | `users.session_version`, password, lockout; `auth_sessions`; `password_reset_tokens` | login, refresh, logout, change, forgot, reset, status change, impersonate, requireAuth | every route; the browser's client; the purge job | lists of separate statements, no transaction | a revocation is final; a barred account gets nowhere |
| Super-admin guard (`controllers/adminUsers.controller.ts`, `users.controller.ts`) | `users.role`, `is_active` | promote, demote, activate, deactivate, delete | revokes sessions | guard and write are apart, lock held for one statement | some active super admin remains |
| Invitations (`services/invitation.service.ts`, `controllers/invitations.controller.ts`, `adminCreateUser`) | `invitations`, `users` | create, setup, accept, revoke, expire, delete the user | mail, sessions, hierarchy wiring | compare-and-set claim with a roll-back by further statements | one holder, one redemption, superseded links are dead |
| Realtime (`services/realtime.service.ts`, `controllers/realtime.controller.ts`) | the worker's `Map` of subscribers, one LISTEN client, the stream tokens | issue a token, subscribe, unsubscribe, connect, reconnect, shut down | PostgreSQL NOTIFY; messages, calls, reminders publish | await in the middle of subscribe, lost connections | who is subscribed is listened for; handlers are reached |
| Calls (`controllers/calls.controller.ts`, `hooks/useCall.ts`) | `calls`; every tab's hook: status, refs, timers | dial, offer, answer, reject, hang up, time out; the messages to the other tabs | realtime | several tabs, late answers, messages without a call id | one tab answers, all others stop ringing, ringing ends |
| Browser session (`services/session.ts`, `services/api.ts`, `AuthContext.tsx`, `useRealtime.ts`, `useSessionRevoke.ts`) | the stored session, a copy per module and tab, one refresh in flight per tab, the profile, the stream | sign in, sign out, request, refresh, reload, storage event, revocation | sessions, realtime | several tabs, one rotated refresh token, late answers | tabs agree; the profile is the session's; nothing but a refusal throws a session away |
| Permissions and groups (`services/permission.service.ts`, `groupScope.ts`; the recruiters, consultants, managers and userGroups controllers; `setRole`) | `users.role`, `group_id`, `recruiters`, `consultants`, `recruiter_managers`, `manager_group_grants`; a cache of answers | assign, enrol, unenrol, onboard, add and remove supervisors, move, grant, promote, deactivate; look | messages, calls, every list | sequences of statements over five tables; a cache with explicit invalidation | who may write to me I may answer; a lost assignment is gone from the answers; consultants are in their recruiter's group |
| Reminders and the scheduler (`jobs/scheduler.ts`, `reminders.job.ts`, `services/interviewReminders.service.ts`) | `reminders`, the interview's row; per process a lease with a timer and a batch | create, edit, complete, remove, save the interview; fire, mark, publish | interviews, realtime, push | batch read, then guarded writes whose outcome is not looked at; drop and recreate | deliver once; follow the interview; nothing waits for good |
| Attachments (`pages/Messages.tsx`, `controllers/messageAttachments.controller.ts`, `messages.controller.ts`, `jobs/attachments-purge.job.ts`) | the composer; `message_attachments`; files | pick, upload, unstage, send, claim, put back, purge | storage | an orphan is claimed while it is purged; file and row are two writes | a sent message keeps its files; what was never sent disappears |
| Training (`services/training.service.ts`, `controllers/training.controller.ts`) | an assignment, its progress, attempts, uploads, acknowledgement, final assessment; the course and its version | assign, enrol, progress, attempt, upload, sign, author, submit, grade, complete, flag overdue; edit the course | storage, achievements | verdicts from five parallel reads, written later; cascades of course edits | no gate is skipped, no recalculation completes or un-completes, nobody fails too early |
| Call budget, feature flags, recruiting records, tasks, AI, ingestion, mail, storage, reports, user interface, deployment | rows, caches and files | CRUD, text, I/O | | | see section 6 |

What of a modelled component is left out, and why the others are, is in
`PROJECT.json`, component by component.

## 2. The modules

| Module | What it is |
|---|---|
| `AuditedStatus` | abstract specification: the life of a document with an audit log |
| `Invoices`, `InvoicesProofs` | the invoice handlers; they implement `AuditedStatus` |
| `Requests` | the requests that are being served: `req`, `Idle`, `Busy` |
| `Sessions`, over `Requests` | every request that touches the sessions of one account |
| `SuperAdmins`, over `SoleAdmin` | the guard for the last super admin; `SoleAdmin` has the accounts and what is promised of them |
| `Invitations`, over `Redemption` | the invitations to one address and its account; `Redemption` has the tables and what is promised of them |
| `AccountsProofs` | proofs about `Sessions`, `SuperAdmins` and `Invitations` |
| `Realtime` | one worker's subscribers and its LISTEN client |
| `Calls`, `CallsProofs` | the rows and handlers of calls and the hook in every tab |
| `Client`, `ClientProofs` | the tabs of one browser and the session they share |
| `Reach` | who reaches whom: the pure part of the permission engine |
| `OrgChart`, `OrgChartProofs` | how the organisation under `Reach` changes, and the engine's cache |
| `Reminders`, `RemindersProofs` | reminders, an interview that makes them, and the scheduled dispatcher |
| `Attachments`, over `SentFiles` | the files of a message from the composer to the purge; `SentFiles` has what is stored and what is promised of it |
| `MessagingProofs` | proofs about `Realtime` and `Attachments` |
| `Training`, `TrainingProofs` | one assignment of a course and its completion gates |
| `MC...` | small instances for TLC |

`AccountsProofs` and `MessagingProofs` prove facts about several models that share names
(`Init`, `Next`, `IInv`): they extend one of them and take the others by `INSTANCE` (`INV`,
`SA`, `AT`). `Requests`, `Redemption`, `SoleAdmin` and `SentFiles` hold the variables,
assumptions and promises of those models that such a module has to see under their own
names; the actions stay in the model.

`OrgChart` extends `Reach`; `Client` takes of the server what `Sessions` says when
nothing interferes (signing in ends the account's other pairs of tokens, refreshing uses
up the refresh token); `Calls`, `Reminders` and `Client` take of realtime that a
message to an open stream arrives in order.

### How code becomes actions

A statement that commits by itself is one step, and so is a transaction, because
each one takes the row lock of the only row it works on with its first statement.
What a handler read earlier is kept in the request's record. In the browser, code
between two awaits is one step.

* **Invoices.** `req[h]` holds the operation and `snap`, the unlocked read of
  `loadInvoiceScopedOr404`. `XxxCheck` is the handler up to the end of its checks,
  `Xxx` the transaction (or the single statement) that follows. `Remove` is the
  delete with its cascades. `reconcileFromLedger` is called inside `recordPayment`
  and `voidPayment` as in the code; it gets `approved_at` from the snapshot,
  because the callers spread the snapshot and override only the status and amounts.
* **Sessions.** A request is the sequence `todo` of statements it has still to run;
  `Program` is the table of operations, composed of the functions they call
  (`signInWithPassword == <<"verify">> \o revokeAllSessions \o ...`). One action per
  statement. `Swallow` is a failing statement whose error the code ignores, `Fail`
  one it does not ignore, a refusal or a crash. Session *n* is the *n*-th pair of
  access and refresh token. `revoked`, `old`, `alone` and `barred` are history
  variables read by properties only.
* **SuperAdmins.** `pc` walks through load, the guard's two queries (`Lock`,
  `Count`) and the write; `LockFails` is the `.catch` that turns an error into "no
  row". `sole` and `skipped` are history.
* **Invitations.** `pc` again. `DeleteUser` and `Revert` are the roll-backs.
  `freshest`, `superseded`, `redeemed` are history.
* **Realtime.** `queue` is the `pg` client's queue of commands; `Execute` and
  `ExecuteFails` are PostgreSQL's answers, after which the stream or the loop that
  awaits them continues. The Set a stream creates is named after that stream, so
  that a Set that was dropped from the Map still exists for the closure that holds
  it. `Arrives` asks for a stream token, `Leave` is a close event that comes before
  its handler. `astray` is history.
* **Calls.** `tab[t]` is the hook of a tab; an async function of it that is waiting for
  the microphone or for its POST is a task, and the handler that serves the POST is
  the middle of the same task. `publishToUser` appends to the queue of every tab of a
  user, `Handle` takes from it. `Timeout` is the 45 s timer, `Lose` a failed request.
  `adrift` is history: calls whose caller's tab has forgotten them.
* **Client.** `tab[t]` has the variables of the modules (`memory`, `profile`, the
  stream); a request is waiting for a refresh, sent, or answered and not yet handled,
  so that answers arrive in any order. `StorageEvent` reaches the other tabs late.
  `Anew`, `Rotated`, `Ended` are the server. `quiet` and `gap` are history.
* **Reach and OrgChart.** `Reach(o, u)` is `getAccessibleUserIds` as a function of the
  tables. A request of `OrgChart` is checked when it begins and is then a sequence of
  writes, `Perform`ed one at a time; `forget` (an invalidation of the cache), `next` and
  `cleanup` (a read that yields further writes) are such steps too. `Look` reads an
  answer, `Store` keeps it, `Expire` is its 30 s. Of an answer only the assignments it
  rests on are kept. `torn` and `strayed` are history. It starts from organisations
  in which assignments lead from a consultants row to a recruiters row of the same group
  (`OrgsAreSettled`): the foreign keys see to the one, the handlers to the other.
* **Reminders.** `workers[w]` is the lease of the scheduler with its timer and the rest of
  its batch; `Fire` reads the batch, `Mark` is the guarded UPDATE, `Publish` the toast
  and the push, `Ended` the `finally`. `clearExisting` and `insert` are the two halves of
  a sync, `SyncFails` its catch. `armed`, `delivered`, `failed`, `unsynced`, `touched` are
  history.
* **Attachments.** Each file operation, statement and answer is a step: `Write`,
  `InsertRow`, `Undo` of an upload; `ReadRow`, `RemoveFile`, `DeleteRow` of a removal;
  `InsertMessage`, `claimAttachmentsForMessage`, `Answer` of a message; `Select`,
  `DeleteFiles`, `DeleteRows` of the purge. `excused`, `unclaimed` and `leaked` are
  history: files taken out of the composer or selected by the purge while no message had
  them, messages whose claim failed, files that were not removed or never got a row.
* **Training.** A request stores something (`markLessonProgress`, `sign`, ...) and then
  evaluates: `resolveContent`, one `readTable` per parallel read, each at its own
  moment, and with the last of them the verdict of `deriveStatus`. A recalculation goes on with
  `look` and the UPDATE, a completion with `finish`. `VersionUnread`, `AssignmentUnread`,
  `TableUnread` and `LookFails` are reads whose error nobody looks at. `EditCourse` is the
  removal of lessons and quizzes with the cascades of the foreign keys. `met`, `chosen`,
  `overlapped`, `misread` are history.

### Abstractions

* Money is in cents; `round2` and the half-cent tolerance are then identities.
  Time stamps are "set" or "not set". Currency, line items and documents are left out.
* `LedgerSum` is the community modules' fold over the rows of the ledger.
* One account in `Sessions`, one address in `Invitations`, one worker in `Realtime`, one
  browser in `Client`, one interview in `Reminders`, one page in `Attachments`, one
  assignment in `Training`: different ones share no state these operations read.
  (Workers share PostgreSQL, which delivers a NOTIFY to each one's own connection.)
* Statuses other than `active` act like `inactive`, roles other than `SUPER_ADMIN`
  alike; the operations of `Sessions` and `SuperAdmins` do not tell them apart.
* A statement either commits and is answered or does neither; a connection lost
  between the two looks to the code like a failed statement and to the database like
  a later crash of the request, and both are there.
* A temporary password may have expired, nondeterministically (`Gate`).
* `SuperAdmins` has the five operations that use the guard or undo what it watches; a
  bulk action is one request per target. Roles written elsewhere are left out: an
  invitation may name SUPER_ADMIN (which acts like `promote`), and accepting one writes
  the role of the caller's own account without asking the guard.
* After a redemption the invitation service also wires managers, recruiters and
  consultants. That touches other tables and no property here.
* In `Realtime` the `await client.end()` of a shutdown is atomic. NOTIFY's payload,
  publishing and heartbeats change no state and are left out.
* `Reach` has one role for SUPER_ADMIN, CEO, CTO and DIRECTOR and one for MANAGER and
  HR_MANAGER: the engine tells no more apart. One resolution is one read although it is
  several queries. There is one cache: PM2's configuration starts one worker unless told
  otherwise. Deleting a group and bulk moves are left out, and so are ranks inside a tier.
* `Training` keeps of a course what its gates read; quizzes have equal points, so that the
  passing score is a number of quizzes. Reads that make no difference to the gates of the
  course at hand are not steps (`Needed`). A course is edited once.

## 3. Runs

Every run but `calls_timeout` exhausts its state space and passes. "Bounds" are sets of
limits, one of which an initial state picks; that one run covers several instances.

| Run | Instance | Shows |
|---|---|---|
| `invoices` | 1 invoice, 2 requests, totals 1 and 3, amounts 0 to 3, 3 payments | history, stamps, cached sum and ledger stay consistent; no overpayment; `AuditedStatus` is implemented |
| `sessions` | 2 requests at a time, 3 in all, 2 passwords, lockout at 2 | revocation is final, an undisturbed sign-in evicts all others, a barred account gets nowhere |
| `super_admins` | 3 accounts, 1 founder, 3 requests at a time, queries may fail | the only super admin is safe unless the guard's own query fails |
| `invitations` | 2 invitations, 2 requests at a time, 2 accounts | one holder, one redemption, superseded links are dead |
| `realtime` | 2 users, 3 streams, cap 1, 2 outages, fair | channels follow subscribers, the cap is exceeded by at most one, handlers are reached |
| `calls` | a caller with one tab, a callee with two; one call with one mishap, or two calls between one tab each; fair | one tab answers; every ringing tab is told off and ringing ends, but for calls adrift |
| `calls_timeout` | as `calls` | *violated*: the no-answer timer ends an answered call |
| `client` | 2 tabs, 2 accounts, 3 pairs of tokens; four bounds: one tab renewing twice with a reload, two tabs with two accounts, two tabs renewing one session with a mishap, one tab against another device; fair | tabs agree, the profile is the session's, waiting requests are released, a sign-out is seen everywhere, only a refusal throws a session away |
| `permissions` | 6 users of all roles but DEVELOPER, 2 groups, 2 requests at a time; one change with a mishap and two looks by anybody, two changes and a look by the recruiter | the engine is bidirectional; where requests about the same users do not overlap or fail, consultants are in their recruiter's group and a lost assignment is gone from the answers, but for those being read meanwhile |
| `reminders` | 2 processes, 2 savers, 4 rows, batches of 2, four bounds (a full batch with a mishap; two processes; an interview saved twice, undisturbed and with a mishap); fair | deliveries are bounded, reminders follow an interview whose saves neither overlap nor fail, what is due is dispatched |
| `attachments` | 2 conversations, 1 purging process, 3 files, 2 sends, batches of 2, four bounds; fair | a sent message keeps its files and what was never sent disappears, with the exceptions below |
| `training` | 2 requests at a time, 3 to 5 in all, six courses: read with a due date; assessed; quizzed with limited attempts; edited while read; edited while tried; minutes and checks with an upload and a failing statement | no gate is skipped, nothing is completed that nobody has completed, an undisturbed completion is not taken back, nobody fails early in a course that was not edited |

### What the properties except

Several properties hold with exceptions only. Each is a history variable or a condition in
the formula. Where one coincides with a hazard of `PROJECT.json`, that case of the
hazard is *not* shown to be harmless; mostly it is not.

| Property | Excepted |
|---|---|
| `EvictsOthers` | revocations that another request issuing a session overlaps |
| `BarredGetsNowhere` | requests that started before the account was barred or saw it reactivated |
| `SoleIsSafe` | a guard whose own query fails (it lets the request pass) |
| `ChannelsFollowSubscribers` | users whose last LISTEN or UNLISTEN was refused |
| `RingingIsToldOff`, `RingingStops` | calls the caller's tab forgot or the callee hung up while they rang, gone back to from the microphone's prompt, with a lost request, or with an /end refused after its write |
| `ProfileIsOwn` | a session that changed hands while a profile was loading, or whose profile did not load |
| `StaysSignedIn` | more tabs than one, sign-outs, sign-ins elsewhere, failed requests |
| `Bidirectional` | inactive accounts, edges of an earlier role, an admin with a consultant |
| `CutOff` | answers being read when the assignment went; users whom two requests at once, or a failed one, were about |
| `SameGroup` | the same users; consultants last moved by something else than an assignment |
| `RemindersFollowInterview` | saves that overlapped or failed, reminders the owner changed |
| `SentWhole` | files taken out of the composer; files the purge selected while no message had them. From belonging to a message, not from being there: files picked for another peer, the files of a message whose claim failed |
| `OrphansArePurged` | files that could not be removed, or whose upload died between the file and its row |
| `NoGateSkipped`, `FailedFairly` | courses that are not pinned, failed reads; for `FailedFairly` also edited courses |
| `CompletedStays` | requests that overlapped, failed reads |

### Why the bounds are enough

The races of this code are between a read and a write of one request with one other
request in between; two requests at a time show all of them, a third matters only
where three rows are in play (`super_admins`, where the third account is the peer
that makes a guard pass). Requests are not bounded in `invoices`, `super_admins` and
`invitations`: a handler that is done takes the next one, so long sequences of
requests happen too. `sessions` bounds them by three, enough for a sign-in or refresh
that overlaps a revocation and a third request that uses what came out. Three
payments give a partial payment, a second one, and the reconciling one. Two totals let
an edit move the balance under a payment. In `realtime` three streams are one that
awaits, one that comes and goes meanwhile, and one that comes after; two outages make
a second connection fail while the loop of the first is still asking for channels
again. A cap of 1 behaves like 16: only "at the cap" matters, and with three streams it
is reached.

* `calls`: a second tab of the callee is what the -elsewhere messages are for, and a
  second call is what a late answer or a message without a call id can be mistaken for.
  The model also allows calls that cross (both users dial); they are outside these bounds.
* `client`: a third pair of tokens is one that a tab does not know of yet while its own has
  been replaced twice. Renewal, change of account and another device are separate bounds,
  because each uses up its pairs by itself.
* `permissions`: two groups make a move possible, a second lead and recruiter are where one
  moves to, and a grant reaches across. One mishap covers every place a request can stop at.
* `reminders`: three rows exceed a batch of two; a horizon of 3 lets an interview be moved
  before and after its reminders are due; two leads make two rows per save.
* `attachments`: three files exceed the purge's batch; two sends are a send and its retry.
* `training`: each bound has the gates of one kind of course, since a gate only adds reads;
  two requests overlap and the others come before or after.

Deadlock is not checked: each model may stop where its bounds are used up.

### Fairness

Five specifications add weak fairness, of no more than an event loop, a browser or a
timer gives to what is ready. Users, failures and connections are never forced.

| Run | Fairness | Why |
|---|---|---|
| `realtime` | `WF(Work)` | PostgreSQL answers commands it was sent, the event loop goes on with a loop that is due. `HandlersAreReached` is conditional on the connection staying up and LISTEN not being refused |
| `calls` | `WF(Progress)` | requests are served, queued events are delivered, timers fire. Nobody must answer or hang up: the 45 s timer ends the ringing |
| `client` | `WF(StorageEvent(t))` for each tab | a browser delivers `storage` events to every open tab |
| `reminders` | `WF(Dispatch(w))` for each process | `setTimeout` of the scheduler fires; its `finally` schedules it again, also after a tick that threw |
| `attachments` | `WF(Upstream(i))` for each file, `WF(Purging(w))` for each process | the server goes on with an upload it has begun; the purge ticks every six hours and goes on with its batch |

All other properties are safety properties: any request may stop for good at any
statement.

## 4. Proofs

Every safety property that a passing run checks is a theorem, for every number of
invoices, requests, accounts, tabs, calls, processes and so on. What the theorems assume
of the constants are the `ASSUME`s of the modules (amounts are naturals, names differ),
which TLC evaluates in every run. A proof about a model has the shape `InitIInv`, one
lemma per action, `NextIInv`, `Inductive == Spec => []IInv`, and the theorems as its
consequences; in `AccountsProofs` and `MessagingProofs` one after the other. Type
correctness of `Sessions`, `SuperAdmins`, `Invitations`, `Realtime`, `Reminders` and
`Attachments` is proved and not checked by a run as well.

* **`InvoicesProofs`**: type correctness, `HistoryFollowsStatus`, `StampsMatchStatus`,
  `CacheIsLedgerSum`, `ArchivedIsNotDraft`, `NoOverpayment` and `Refinement`: `Invoices`
  implements `AuditedStatus`. None of the properties is inductive by itself, because what a
  request writes depends on a snapshot of the past. The strengthening (`SnapshotsAge`)
  says how a row can have changed since a pending request read it: no status goes
  back to Draft, an approval time stamp stays, a row may be gone but does not come
  back. `LedgerOK` says that payments belong to invoices that exist and that ids are
  not reused, so the ledger is finite. `NoOverpayment` is about a step: the balance
  that `recordPayment` compares with is that of the locked row, which is the ledger's
  (`CacheIsLedgerSum`), and one more row adds its amount to the sum (`SumOfRow`). That a
  fold over a finite set does not depend on the order of its elements is an induction, which
  the library offers with an operator parameter only. It is done by a smallest
  counterexample instead (`Smallest`): of the sets of rows for which a lemma fails, one has no
  smaller one of them inside.
* **`AccountsProofs`, `Sessions`**: type correctness, `RevokedStaysDead`, `EvictsOthers`,
  `BarredGetsNowhere`. What a request will do is the list of statements it still has, so
  the strengthening is about lists (`Shape`): a "delete" comes right after its "bump", what is
  issued is issued with the version read just before. `Versions`: no version that
  has been issued or read exceeds the account's. `RevokedDead`: a session older than a
  finished bump carries a smaller version. `Alone` says of the history flag that no other
  issuing request is under way, `Refused` and `Evicts` what a flag promises of the rest of
  the list.
* **`AccountsProofs`, `SuperAdmins`**: type correctness and `SoleIsSafe`. The strengthening
  `SoleIsTrue` ties the history flag to the table: while it is set, the request's
  target is the set of active super admins.
* **`AccountsProofs`, `Invitations`**: type correctness, `OneHolder`, `RedeemedOnce`,
  `SupersededGrantsNothing`. They are proved together: that a roll-back cannot
  revive a superseded invitation needs that only a holder rolls back, that a
  holder's invitation is not PENDING, and that only PENDING ones are superseded.
  `RequestsOK` says which `pc` goes with which operation.
* **`MessagingProofs`, `Realtime`**: type correctness, `ChannelsFollowSubscribers`,
  `AtMostOneOverTheCap`. `LastWord`: for every user the last command still queued, or
  else the loop that has yet to visit it, or else what PostgreSQL listens for,
  agrees with the Map. For the cap, `Small`: only the stream that made a Set
  may still add itself to it after the check.
* **`OrgChartProofs`**, in three parts. `Bidirectionality`, for every organisation and every
  pair of roles but admin and consultant, one lemma per pair; it assumes that both accounts
  are active and `Tidy`: their edges are those of their role. The requests of `OrgChart`
  do leave untidy accounts behind (a change of role keeps grants; a failed one,
  anything), which is why the assumption is there and not proved. `TypeCorrect` says that
  whatever the requests make is an organisation again, so that it carries over to all of
  them (`StaysBidirectional`).

  `LostAssignmentsAreCutOff` and `ConsultantsFollow` (`CutOff`, `SameGroup`) are about
  requests that were checked long before their last statement. So the invariant is about
  the lists of statements left. `Statement` says what a statement may be, `Ordered` where it may
  stand, `Touches` that it changes groups, roles and assignments only of users the
  request is about, and `Promised` what holds when it is reached: whoever an
  assignment is taken from has the answers forgotten later in the same list, or is in no role
  that has such answers; a group is set for a recruiter whom nobody is assigned to any
  more; an assignment is made within a group, or the consultant follows next. Each handler
  sets out with such a list (one `...Plan` lemma per handler), each statement leaves one
  (`RestIsSound`), and another request breaks it only by being about the same users
  (`OthersKeepPromises`), who are torn then (`CrossingTears`). Beside it the invariant
  says that a fresh answer about an assignment that is gone is in some list to forget
  (`LostAreForgotten`) and that a consultant who is not in its recruiter's group is about
  to follow (`GroupsFollow`).
* **`MessagingProofs`, `Attachments`**: type correctness and `SentWhole`. The point is that whoever will
  remove a file or a row has excused it before (`RemoversExcuse`); around it, which files are
  stored (`StoredOnly`), whose they are (`Owned`), what a claim that did not fail left
  (`ClaimDone`) and what nobody may take (`Kept`).
* **`RemindersProofs`**: type correctness and `DeliveredOncePerProcess`, by credits: a
  process earns one for each time a row is armed and for each UPDATE of its own that fails, and
  what it has delivered plus what it may still deliver of its batch (`Within`)
  stays within them. `RemindersAreInStep` proves `RemindersFollowInterview` from a second
  invariant. `Following`: as long as nothing went wrong at most one save is under way, it is
  for the interview as it is, and when it is about to insert, no reminder waits. `Ripe`: what a
  batch holds is due, so that marking it takes no reminder that is still ahead.
* **`ClientProofs`**: type correctness, `TabsAgree`, `ProfileIsOwn`, `WaitersAreReleased`,
  and `StaysSignedIn`, which is about steps. `Core` collects what a request under way is fit
  for, that whatever waits is behind a refresh of its page (`Tidy`), that a page loads the
  profile of another session or shows its own (`Profiles`), and `Enough`: pairs issued,
  sign-ins under way and pairs that may still be replaced never exceed the bound on pairs,
  without which the types would not be inductive. `Calm` describes the browser with one tab
  for `StaysSignedIn`: every request under way will be or has been accepted (`Fine`), so that
  a refresh can only succeed.
* **`CallsProofs`**: type correctness, `OneAnswerer`, `RingingIsToldOff`. A request, an event
  and a hook hold the id of a call and nothing else of it. `Core` says that each is at a party of
  that call, and that a call is `Public` before anybody but its dial holds it. `Winners`: who
  talks in a call, or has an answer about to say so, is one tab of the callee, and the row
  has left "ringing". `Words`: once it has, every tab that rings, and every `incoming` still in
  a queue, has a word that ends it behind it in that queue or in the handler that is publishing.
* **`TrainingProofs`**: type correctness, `NoGateSkipped`, `CompletedByChoice`,
  `CompletedStays`, `FailedFairly`. A request acts on what it read statements ago, so each part
  says what it may hold by then. `Chosen`: whoever is about to write COMPLETED
  has read it. `Staying`: if no two requests overlapped, nobody is about to write anything else
  over it. `Grounded`: a gate that is green in the tables a request has read was green while it
  read. `Numbered` and `Fair`: attempts have no higher number than there are attempts, so a
  verdict of FAILED counts only attempts that are there.

Only model-checked: liveness (`HandlersAreReached`, `RingingStops`, `SignOutIsSeen`,
`DueIsDispatched`, `OrphansArePurged`), which needs fairness and is beyond the prover. The
recursive definition in `AmountSum` is the only one the proofs meet.

What proving changed in the models: `CASE` with arms that overlap leaves open which one is
taken, so `OrgChart!Expansions` and `Calls!Respond` now decide in order, as the code does.
The history variable `gap` of `Client` excused a page for good once a session had changed
hands; it now does so only while the profile may really be another's, so that `ProfileIsOwn`
says more. `Client!Receive` opened the stream on the answer to any ordinary request, where the
code does on a stream token only.

## 5. What the checks found

One disagreement has a run of its own and is a finding in `PROJECT.json`: the timer that
ends an unanswered dial after 45 s is not cleared by `call:answered`, so it also ends the
answered call and reports it as missed (`calls_timeout`, `hooks/useCall.ts:741`).

The following statements of the repository are written down as properties in the
modules, with their source. TLC refutes each of them; to see it, put the property into
the run's configuration.

| Property | Statement | What happens |
|---|---|---|
| `Invoices!PaidLedgerReconciles` | a Paid invoice's ledger sums to its `amount_paid` | the reconciling payment is computed from the unlocked snapshot, and a partial payment in between does not change the status its UPDATE asks for |
| `Invoices!VoidRevertsUnapproved` | voiding the only payment reverts a never-approved invoice to Submitted | the payment has stamped `approved_at` |
| `Sessions!SingleDevice` | a sign-in evicts every other | the version is read again after the revocation; two sign-ins that both revoke first read the same version |
| `SoleAdmin!LastSuperAdminStays` | the last active super admin stays | the lock lasts one statement, and two targets are two rows |
| `Invitations!FreshestLinkIsValid` | only the freshest link is valid | insert and supersede are two statements; two invitations revoke each other |
| `Realtime!EveryHandlerIsCalled` | every open stream's handler is called | `subscribe` adds it to the Set made before the await, which may have left the Map |
| `Realtime!NeverGivesUp` | reconnecting is never given up | a failed reconnect is only logged |
| `Client!RevokedElsewhere` | `session:revoked` comes from another device | signing in again in one page publishes it to the stream of that page's earlier session, which throws the new one away |
| `Reminders!DeliveredOnce` | a reminder is delivered once | the row count of the guarded UPDATE is not looked at, so two processes both go on to deliver |
| `Attachments!PutBackIsClaimable` | files put back after a failed send can be claimed | sending may fail after the claim; the next message is then sent without them |
| `Training!VerdictIsStored` | the status derived is persisted | READY_TO_COMPLETE is no value of the column's type, the UPDATE fails, its error is ignored, and the page offers Complete for that status only |
| `Training!NeverAutoCompleted`, `NeverUncompleted` | a recalculation neither completes a row nor takes a completion back | it writes what it read several statements ago |
| `Training!AttemptsAreNumbered` | one writer counts the attempts | it reads, increments and inserts without a lock or unique index |
| `Training!EditsSpareRecords` | edits of a course spare pinned assignments | foreign keys cascade to their progress and attempts |

Seen while modelling, beside any property:

* A purge that has selected an orphan deletes it although a message claims it meanwhile
  (`excused` in `SentWhole`).
* A claim whose UPDATE fails is not noticed (`messageAttachments.controller.ts` 143-151): the
  message is answered with success and without its files, the composer is empty, and the purge
  deletes them a day later (`unclaimed` in `SentWhole`).
* A process that dies after it has written an uploaded file and before it has inserted
  the row leaves a file that the purge, which looks for rows, never finds (`leaked` in
  `OrphansArePurged`).
* Staged files stay in the composer when the conversation changes. They were uploaded for
  the first peer, are silently not claimed for the second, and leave a blank message.
* Stream tokens are kept per process: with several workers a stream may reach one
  that does not know its token.
* Calls: hanging up before the offer is answered tells nobody, and the callee rings on until
  it declines. A callee's tab that hangs up a call while it rings tells the caller only.
* Training: FAILED is left again by a later correct attempt; a failed read of the final
  assessment opens its gate; authoring an assessment again keeps the earlier grade; an
  upload is not followed by a recalculation; enrolling makes an assignment without a
  version although `training.service.ts` 163-166 says there always is one.
* An answer of the permission engine that is being read while an assignment goes
  is stored after the invalidation and lives for 30 s.

## 6. Not modelled, and what is left

Component by component, with reasons, in `PROJECT.json`. In short:

* **Code whose steps do not interact**: jobs, applications, clients, vendors, tasks,
  feature flags. They create, read, update and delete rows by id; whatever
  two of their requests do at once, the later write stays.
* **Reads**: reports, activity, search, exports.
* **Text and calculation**: mail and PDF layout, prompts and answers of language models,
  parsing of resumes and job pages.
* **Services outside**: Brevo, LinkedIn, storage, TURN and WebRTC, browsers' push.
* **Presentation** of both user interfaces, except the call hook, the session and the
  composer, which have state of their own.
* **Operations**: deployment, migrations, bootstrap, configuration.

These make up most of the source: pages, forms, list queries and prompts. The modules cover the
parts in which requests, tabs, processes and failures meet.

Left for further work, in order of worth:

1. the cached sum of call minutes (`callsBudget.service.ts:73`), beside `Calls`;
2. calls that cross, in a larger instance of `Calls` (the proofs cover them);
3. `Client` above `Sessions`: a refinement that takes every pair of tokens to a session;
4. the authoring, versioning and publishing of courses, beside `Training`;
5. the stamps of the overdue mail and the digests.
