---------------------------- MODULE Attachments ----------------------------
(***************************************************************************)
(* The files of a direct message: the composer that uploads, removes and   *)
(* sends them (pages/Messages.tsx), the requests it makes of the server    *)
(* (controllers/messageAttachments.controller.ts and messages.controller.  *)
(* ts), the directory they are kept in (config/storage.local.ts), and the  *)
(* purge of those that were never sent (jobs/attachments-purge.job.ts).    *)
(* One page of one user; one action per statement, file operation or       *)
(* answer.  Messages without files are left out.                           *)
(***************************************************************************)
EXTENDS SentFiles, FiniteSets

CONSTANTS Peer, Worker  \* people to write to; processes that run the purge

VARIABLES peer, staged, known, waiting,  \* the page: conversation, files in the composer, those it has the id of, the send it waits for
          deletes,                       \* requests to delete on the server
          purges,                        \* purges[w] : the job's tick
          old, left,                     \* uploads of more than ORPHAN_AGE_HOURS ago; what is left of the bound
          leaked                         \* history: files that were not removed, or whose upload died before their row

page == <<peer, staged, known, waiting>>
requests == <<uploads, deletes, sends>>
store == <<rows, files>>
history == <<excused, unclaimed, leaked>>
vars == <<page, requests, store, purges, old, left, history>>

File == 1 .. MaxFiles
None == 0

Row == [here : BOOLEAN, message : {None} \cup Sends]
Upload == [stage : {"unused", "write", "insert", "undo", "stored", "failed"}, to : Peer]
Sending == [stage : {"unused", "insert", "claim", "select", "ok", "denied", "failed"},
            to : Peer, files : SUBSET File]
Purge == [stage : {"idle", "files", "rows"}, batch : SUBSET File]

Resting == [stage |-> "idle", batch |-> {}]

Init ==
    /\ left \in Bounds /\ peer \in Peer
    /\ staged = {} /\ known = {} /\ waiting = None
    /\ uploads = [i \in File |-> [stage |-> "unused", to |-> peer]]
    /\ deletes = [i \in File |-> "idle"]
    /\ sends = [k \in Sends |-> [stage |-> "unused", to |-> peer, files |-> {}]]
    /\ rows = [i \in File |-> [here |-> FALSE, message |-> None]]
    /\ files = {} /\ old = {} /\ excused = {} /\ unclaimed = {} /\ leaked = {}
    /\ purges = [w \in Worker |-> Resting]

Spend(what) == left[what] > 0 /\ left' = [left EXCEPT ![what] = @ - 1]
Goes(request, i, stage) == request' = [request EXCEPT ![i].stage = stage]

-----------------------------------------------------------------------------
(* Picking a file, and its upload *)

onFilesPicked(i) ==
    /\ uploads[i].stage = "unused" /\ \A j \in File : j < i => uploads[j].stage # "unused"
    /\ Spend("files")
    /\ uploads' = [uploads EXCEPT ![i] = [stage |-> "write", to |-> peer]]
    /\ staged' = staged \cup {i}
    /\ UNCHANGED <<peer, known, waiting, deletes, sends, store, purges, old, history>>

Write(i) ==
    /\ uploads[i].stage = "write" /\ Goes(uploads, i, "insert")
    /\ files' = files \cup {i}
    /\ UNCHANGED <<page, deletes, sends, rows, purges, old, left, history>>

\* One of the checks refuses the upload, or the file cannot be written.
Refuse(i) ==
    /\ uploads[i].stage = "write" /\ Goes(uploads, i, "failed")
    /\ UNCHANGED <<page, deletes, sends, store, purges, old, left, history>>

InsertRow(i) ==
    /\ uploads[i].stage = "insert" /\ Goes(uploads, i, "stored")
    /\ rows' = [rows EXCEPT ![i].here = TRUE]
    /\ UNCHANGED <<page, deletes, sends, files, purges, old, left, history>>

InsertRowFails(i) ==
    /\ uploads[i].stage = "insert" /\ Spend("mishaps") /\ Goes(uploads, i, "undo")
    /\ UNCHANGED <<page, deletes, sends, store, purges, old, history>>

\* Don't leave the file on disk if the insert failed.
Undo(i) ==
    /\ uploads[i].stage = "undo" /\ Goes(uploads, i, "failed")
    /\ files' = files \ {i}
    /\ UNCHANGED <<page, deletes, sends, rows, purges, old, left, history>>

\* The process dies, or the file cannot be removed, which is swallowed.
UploadDies(i) ==
    /\ uploads[i].stage \in {"insert", "undo"} /\ Spend("mishaps") /\ Goes(uploads, i, "failed")
    /\ leaked' = leaked \cup {i}
    /\ UNCHANGED <<page, deletes, sends, store, purges, old, excused, unclaimed>>

Uploading == staged \ known

Uploaded(i) ==
    /\ i \in Uploading /\ uploads[i].stage = "stored"
    /\ known' = known \cup {i}
    /\ UNCHANGED <<peer, staged, waiting, requests, store, purges, old, left, history>>

\* The answer is an error, or there is none.
UploadFails(i) ==
    /\ i \in Uploading /\ staged' = staged \ {i}
    /\ IF uploads[i].stage = "failed" THEN UNCHANGED left ELSE Spend("mishaps")
    /\ UNCHANGED <<peer, known, waiting, requests, store, purges, old, history>>

-----------------------------------------------------------------------------
(* Taking a file out of the composer, and its deletion *)

unstageAttachment(i) ==
    /\ i \in staged /\ Spend("removals")
    /\ staged' = staged \ {i}
    /\ IF i \in known
       THEN deletes' = [deletes EXCEPT ![i] = "read"] /\ excused' = excused \cup {i}
       ELSE UNCHANGED <<deletes, excused>>
    /\ UNCHANGED <<peer, known, waiting, uploads, sends, store, purges, old, unclaimed, leaked>>

ReadRow(i) ==
    /\ deletes[i] = "read"
    /\ deletes' = [deletes EXCEPT ![i] = IF rows[i].here THEN "file" ELSE "idle"]
    /\ UNCHANGED <<page, uploads, sends, store, purges, old, left, history>>

RemoveFile(i) ==
    /\ deletes[i] = "file" /\ deletes' = [deletes EXCEPT ![i] = "row"]
    /\ files' = files \ {i}
    /\ UNCHANGED <<page, uploads, sends, rows, purges, old, left, history>>

DeleteRow(i) ==
    /\ deletes[i] = "row" /\ deletes' = [deletes EXCEPT ![i] = "idle"]
    /\ rows' = [rows EXCEPT ![i].here = FALSE]
    /\ UNCHANGED <<page, uploads, sends, files, purges, old, left, history>>

DeleteDies(i) ==
    /\ deletes[i] # "idle" /\ Spend("mishaps") /\ deletes' = [deletes EXCEPT ![i] = "idle"]
    /\ UNCHANGED <<page, uploads, sends, store, purges, old, history>>

-----------------------------------------------------------------------------
(* Sending *)

send(k) ==
    /\ sends[k].stage = "unused" /\ \A j \in Sends : j < k => sends[j].stage # "unused"
    /\ waiting = None /\ staged # {} /\ Uploading = {}
    /\ sends' = [sends EXCEPT ![k] = [stage |-> "insert", to |-> peer, files |-> staged]]
    /\ staged' = {} /\ waiting' = k
    /\ UNCHANGED <<peer, known, uploads, deletes, store, purges, old, left, history>>

\* canMessageUser says no.
Deny(k) ==
    /\ sends[k].stage = "insert" /\ Goes(sends, k, "denied")
    /\ UNCHANGED <<page, uploads, deletes, store, purges, old, left, history>>

InsertMessage(k) ==
    /\ sends[k].stage = "insert" /\ Goes(sends, k, "claim")
    /\ UNCHANGED <<page, uploads, deletes, store, purges, old, left, history>>

\* Mutant of Claimed: one that has been claimed before is not excepted.
ClaimedAgain(k) == {i \in sends[k].files : rows[i].here}

\* uploaded_by is the sender, recipient_user_id the recipient, message_id is null.
Claimed(k) == {i \in sends[k].files : rows[i].here /\ rows[i].message = None /\ uploads[i].to = sends[k].to}

claimAttachmentsForMessage(k) ==
    /\ sends[k].stage = "claim" /\ Goes(sends, k, "select")
    /\ rows' = [i \in File |-> IF i \in Claimed(k) THEN [rows[i] EXCEPT !.message = k] ELSE rows[i]]
    /\ UNCHANGED <<page, uploads, deletes, files, purges, old, left, history>>

\* The error of the UPDATE is not looked at.
ClaimFails(k) ==
    /\ sends[k].stage = "claim" /\ Spend("mishaps") /\ Goes(sends, k, "select")
    /\ unclaimed' = unclaimed \cup {k}
    /\ UNCHANGED <<page, uploads, deletes, store, purges, old, excused, leaked>>

\* The message is read, published and answered.
Answer(k) ==
    /\ sends[k].stage = "select" /\ Goes(sends, k, "ok")
    /\ UNCHANGED <<page, uploads, deletes, store, purges, old, left, history>>

\* A statement fails, or the process dies.
SendDies(k) ==
    /\ sends[k].stage \in {"insert", "claim", "select"} /\ Spend("mishaps") /\ Goes(sends, k, "failed")
    /\ UNCHANGED <<page, uploads, deletes, store, purges, old, history>>

Sent(k) ==
    /\ waiting = k /\ sends[k].stage = "ok" /\ waiting' = None
    /\ UNCHANGED <<peer, staged, known, requests, store, purges, old, left, history>>

\* The answer is an error, or there is none after a minute: what was staged is put back,
\* unless the peer may not be written to any more.
SendFails(k) ==
    /\ waiting = k /\ waiting' = None
    /\ IF sends[k].stage \in {"failed", "denied"} THEN UNCHANGED left ELSE Spend("mishaps")
    /\ staged' = IF sends[k].stage = "denied" THEN {} ELSE sends[k].files
    /\ UNCHANGED <<peer, known, requests, store, purges, old, history>>

\* The composer's files stay when the conversation changes.
setActivePeerId(p) ==
    /\ p # peer /\ Spend("moves") /\ peer' = p
    /\ UNCHANGED <<staged, known, waiting, requests, store, purges, old, history>>

Reload ==
    /\ Spend("moves") /\ staged' = {} /\ waiting' = None
    /\ UNCHANGED <<peer, known, requests, store, purges, old, history>>

-----------------------------------------------------------------------------
(* The purge *)

Age(i) ==
    /\ uploads[i].stage \in {"stored", "failed"} /\ i \notin old /\ old' = old \cup {i}
    /\ UNCHANGED <<page, requests, store, purges, left, history>>

\* Mutant of Orphans: it is not asked whether they were sent.
OldRows == {i \in old : rows[i].here}

Orphans == {i \in old : rows[i].here /\ rows[i].message = None}

Select(w) ==
    /\ purges[w].stage = "idle" /\ Orphans # {}
    /\ \E batch \in SUBSET Orphans :
          /\ Cardinality(batch) = Batch \/ (Cardinality(batch) < Batch /\ batch = Orphans)
          /\ purges' = [purges EXCEPT ![w] = [stage |-> "files", batch |-> batch]]
          /\ excused' = excused \cup {i \in batch : rows[i].message = None}
    /\ UNCHANGED <<page, requests, store, old, left, unclaimed, leaked>>

\* Mutant of Removed: only the rows are dropped.
RemovedNone(w) == {}

Removed(w) == purges[w].batch

DeleteFiles(w) ==
    /\ purges[w].stage = "files" /\ Goes(purges, w, "rows")
    /\ files' = files \ Removed(w)
    /\ UNCHANGED <<page, requests, rows, old, left, history>>

\* A file cannot be removed: its row is deleted all the same.
DeleteFilesFails(w) ==
    /\ purges[w].stage = "files" /\ Spend("mishaps") /\ Goes(purges, w, "rows")
    /\ \E i \in purges[w].batch :
          files' = files \ (Removed(w) \ {i}) /\ leaked' = leaked \cup {i}
    /\ UNCHANGED <<page, requests, rows, old, excused, unclaimed>>

\* By id; the loop goes on if the batch was full, which is the same as another tick.
DeleteRows(w) ==
    /\ purges[w].stage = "rows" /\ purges' = [purges EXCEPT ![w] = Resting]
    /\ rows' = [i \in File |-> IF i \in purges[w].batch THEN [rows[i] EXCEPT !.here = FALSE] ELSE rows[i]]
    /\ UNCHANGED <<page, requests, files, old, left, history>>

\* A statement fails or the process dies; the scheduler runs the job again.
PurgeDies(w) ==
    /\ purges[w].stage # "idle" /\ Spend("mishaps") /\ purges' = [purges EXCEPT ![w] = Resting]
    /\ UNCHANGED <<page, requests, store, old, history>>

-----------------------------------------------------------------------------
Upstream(i) == Write(i) \/ Refuse(i) \/ InsertRow(i) \/ Undo(i)
Purging(w) == Select(w) \/ DeleteFiles(w) \/ DeleteRows(w)

Next ==
    \/ \E i \in File : \/ onFilesPicked(i) \/ Upstream(i) \/ InsertRowFails(i) \/ UploadDies(i)
                       \/ Uploaded(i) \/ UploadFails(i)
                       \/ unstageAttachment(i) \/ ReadRow(i) \/ RemoveFile(i) \/ DeleteRow(i) \/ DeleteDies(i)
                       \/ Age(i)
    \/ \E k \in Sends : \/ send(k) \/ Deny(k) \/ InsertMessage(k) \/ claimAttachmentsForMessage(k) \/ ClaimFails(k)
                        \/ Answer(k) \/ SendDies(k) \/ Sent(k) \/ SendFails(k)
    \/ \E p \in Peer : setActivePeerId(p)
    \/ Reload
    \/ \E w \in Worker : Purging(w) \/ DeleteFilesFails(w) \/ PurgeDies(w)

Spec == Init /\ [][Next]_vars

\* The server carries its requests out, and the job runs every six hours.
FairSpec ==
    /\ Spec
    /\ \A i \in File : WF_vars(Upstream(i))
    /\ \A w \in Worker : WF_vars(Purging(w))

-----------------------------------------------------------------------------
TypeOK ==
    /\ peer \in Peer /\ staged \subseteq File /\ known \subseteq File /\ waiting \in {None} \cup Sends
    /\ uploads \in [File -> Upload] /\ deletes \in [File -> {"idle", "read", "file", "row"}]
    /\ sends \in [Sends -> Sending] /\ rows \in [File -> Row] /\ purges \in [Worker -> Purge]
    /\ files \subseteq File /\ old \subseteq File /\ excused \subseteq File /\ leaked \subseteq File
    /\ unclaimed \subseteq Sends
    /\ left \in Bound

\* attachments-purge.job.ts 4-14, messageAttachments.controller.ts 100: what was uploaded a day
\* ago and not sent leaves neither row nor file behind.  Excepted are files that could not be
\* removed, and those whose upload died when they were written and had no row yet: the purge
\* looks for rows and does not find them.
OrphansArePurged ==
    \A i \in File :
        i \in old ~> (rows[i].message # None \/ (~rows[i].here /\ i \notin files) \/ i \in leaked)

\* Messages.tsx 758-760: when sending fails, what is put back into the composer is "still on
\* the server and re-claimable".
PutBackIsClaimable ==
    [][\A k \in Sends : SendFails(k) => \A i \in staged' \ old : rows[i].message = None]_vars
=============================================================================
