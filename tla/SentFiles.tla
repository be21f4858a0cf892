----------------------------- MODULE SentFiles -----------------------------
(***************************************************************************)
(* The files of direct messages, the messages they were sent with, and     *)
(* what is promised of the two: Attachments says what the page, the server *)
(* and the purge do.                                                       *)
(***************************************************************************)
EXTENDS Naturals

CONSTANTS MaxFiles, MaxSends,  \* bounds on the files picked and on the messages sent
          Batch,               \* rows the purge takes at a time (BATCH_SIZE)
          Bounds               \* bounds to explore; Init chooses one

\* moves: how often the user changes the conversation or loads the page again; removals:
\* how often a file is taken out of the composer; mishaps: how often a statement, a file
\* operation, a process or a connection fails.
Bound == [files : 0 .. MaxFiles, moves : Nat, removals : Nat, mishaps : Nat]

ASSUME BoundsAreBounds == Bounds \subseteq Bound
ASSUME NumbersAreNumbers == MaxFiles \in Nat /\ MaxSends \in Nat /\ Batch \in Nat \ {0}

VARIABLES uploads, sends,  \* the requests on the server that bring a file and send a message
          rows, files,     \* message_attachments, and the paths there is a file at
          excused,         \* history: files taken out, or selected by the purge while no message had them
          unclaimed        \* history: messages whose claim failed, which nobody notices

Sends == 1 .. MaxSends

\* messageAttachments.controller.ts 130-133, attachments-purge.job.ts 9-20: the files a message
\* was sent with are there once it was answered, row and file, and belong to it or to an earlier
\* or a repeated attempt to send the same, however often sending was tried.  Excepted are
\* - altogether: files that were taken out of the composer, and files that the purge selected
\*   while no message had them, because it came before the claim or the claim passed them over;
\* - from belonging to a message: files picked for another peer, which no claim takes, and the
\*   files of a message whose claim failed.  The helper does not look at the UPDATE's error
\*   (143-151) and the message is answered without them (messages.controller.ts 612-619); they
\*   stay, row and file, until the purge selects them.
SentWhole ==
    \A k \in Sends : sends[k].stage = "ok" =>
        \A i \in sends[k].files \ excused :
            /\ rows[i].here /\ i \in files
            /\ k \notin unclaimed /\ uploads[i].to = sends[k].to =>
                  \E j \in Sends : rows[i].message = j /\ sends[j].to = sends[k].to /\ i \in sends[j].files
=============================================================================
