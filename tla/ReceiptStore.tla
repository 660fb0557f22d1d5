---------------------------- MODULE ReceiptStore ----------------------------
(***************************************************************************)
(* Receipt files on disk against receipt rows in the database.             *)
(*                                                                         *)
(* The two are never written in one transaction.  A create request stores  *)
(* its file first and its row last, a delete removes the row's expense     *)
(* first and the file last, and the removal itself is a promise nobody     *)
(* waits for.  The process can stop in between; the upload volume and the  *)
(* database survive it.                                                    *)
(*                                                                         *)
(* Each upload names its file, its receipt row and its expense: multer     *)
(* draws a fresh UUID per upload and an expense has at most one receipt.   *)
(*                                                                         *)
(* The definitions named Leaky... or Eager... are broken on purpose and    *)
(* take no part in Spec: each breaks one of the properties.                *)
(***************************************************************************)
EXTENDS FiniteSets, Naturals

CONSTANTS Upload,      \* create requests that carry a file
          Deletion,    \* delete requests
          Download,    \* download requests
          None,        \* no expense
          MaxCrashes   \* bound: process stops in one behaviour

ASSUME StoreAssumption == None \notin Upload /\ MaxCrashes \in Nat

VARIABLES disk,       \* files in the upload directory
          expense,    \* [Upload -> state of the expense row]
          rows,       \* uploads with a row in receipts
          creating,   \* [Upload -> where its create request is]
          deleting,   \* [Deletion -> delete request]
          serving,    \* [Download -> download request]
          unlinks,    \* safeUnlinkReceipt calls started and not awaited
          unsure,     \* ghost: uploads whose COMMIT succeeded but was reported as failed
          orphans,    \* ghost: files nothing will ever remove
          crashes

vars == <<disk, expense, rows, creating, deleting, serving, unlinks, unsure, orphans, crashes>>

CreatePhase == {"idle", "stored", "rejecting", "submitting", "notifying", "done"}

IdleDeletion == [phase |-> "idle", target |-> None, files |-> {}]
IdleDownload == [phase |-> "idle", target |-> None, file |-> None]

Live(u) == u \in Upload /\ expense[u] = "live"

CreateAt(u, phase) == creating[u] = phase
CreateGoes(u, phase) == creating' = [creating EXCEPT ![u] = phase]

Init ==
    /\ disk = {} /\ rows = {} /\ unlinks = {} /\ unsure = {} /\ orphans = {}
    /\ expense = [u \in Upload |-> "none"]
    /\ creating = [u \in Upload |-> "idle"]
    /\ deleting = [d \in Deletion |-> IdleDeletion]
    /\ serving = [r \in Download |-> IdleDownload]
    /\ crashes = 0

-----------------------------------------------------------------------------
(* POST /expenses with a file: multer, validateReceiptUpload, validate,     *)
(* createExpense.                                                           *)

\* multer.diskStorage writes the file; a type the filter refuses never gets here.
StoreFile(u) ==
    /\ CreateAt(u, "idle")
    /\ disk' = disk \cup {u}
    /\ CreateGoes(u, "stored")
    /\ UNCHANGED <<expense, rows, deleting, serving, unlinks, unsure, orphans, crashes>>

LeakyCheckFile(u) ==
    /\ CreateAt(u, "stored")
    /\ CreateGoes(u, "rejecting") \/ CreateGoes(u, "done") \/ CreateGoes(u, "submitting")
    /\ UNCHANGED <<disk, expense, rows, deleting, serving, unlinks, unsure, orphans, crashes>>

\* The signature is read from disk; a mismatch goes on to an awaited unlink.  A
\* match continues synchronously through validate, which starts an unlink and
\* answers 400 when the body does not fit the schema.
CheckFile(u) ==
    /\ CreateAt(u, "stored")
    /\ \/ CreateGoes(u, "rejecting") /\ UNCHANGED unlinks
       \/ CreateGoes(u, "done") /\ unlinks' = unlinks \cup {u}
       \/ CreateGoes(u, "submitting") /\ UNCHANGED unlinks
    /\ UNCHANGED <<disk, expense, rows, deleting, serving, unsure, orphans, crashes>>

\* safeUnlinkReceipt swallows the error of a failing unlink: the file stays.
Unlink(u) ==
    \/ disk' = disk \ {u} /\ UNCHANGED orphans
    \/ UNCHANGED disk /\ orphans' = orphans \cup ({u} \cap disk)

RejectFile(u) ==
    /\ CreateAt(u, "rejecting")
    /\ Unlink(u)
    /\ CreateGoes(u, "done")
    /\ UNCHANGED <<expense, rows, deleting, serving, unlinks, unsure, crashes>>

\* createSubmission: expense, receipt and audit rows in one transaction.  When the
\* transaction fails the handler starts to unlink the file.  When it commits and
\* the connection dies before saying so, the handler cannot tell and does the same.
SubmitReceipt(u) ==
    /\ CreateAt(u, "submitting")
    /\ \/ /\ expense' = [expense EXCEPT ![u] = "live"]
          /\ rows' = rows \cup {u}
          /\ \/ CreateGoes(u, "notifying") /\ UNCHANGED <<unlinks, unsure>>
             \/ /\ CreateGoes(u, "done")
                /\ unlinks' = unlinks \cup {u}
                /\ unsure' = unsure \cup {u}
       \/ /\ CreateGoes(u, "done")
          /\ unlinks' = unlinks \cup {u}
          /\ UNCHANGED <<expense, rows, unsure>>
    /\ UNCHANGED <<disk, deleting, serving, orphans, crashes>>

EagerFinishCreate(u) ==
    /\ CreateAt(u, "notifying")
    /\ CreateGoes(u, "done")
    /\ unlinks' = unlinks \cup {u}
    /\ UNCHANGED <<disk, expense, rows, deleting, serving, unsure, orphans, crashes>>

\* After the commit receiptPersisted is set: whatever fails from here on leaves the
\* file alone.
FinishCreate(u) ==
    /\ CreateAt(u, "notifying")
    /\ CreateGoes(u, "done")
    /\ UNCHANGED <<disk, expense, rows, deleting, serving, unlinks, unsure, orphans, crashes>>

-----------------------------------------------------------------------------
(* DELETE /expenses/:id. *)

DeletionGoes(d, phase, files) ==
    deleting' = [deleting EXCEPT ![d].phase = phase, ![d].files = files]

\* findById and the owner and status checks.
LoadDeletion(d, u) ==
    /\ deleting[d].phase = "idle"
    /\ Live(u)
    /\ deleting' = [deleting EXCEPT ![d] = [phase |-> "receipts", target |-> u, files |-> {}]]
    /\ UNCHANGED <<disk, expense, rows, creating, serving, unlinks, unsure, orphans, crashes>>

\* receiptModel.findByExpenseId, before the transaction.
ReadReceipts(d) ==
    /\ deleting[d].phase = "receipts"
    /\ DeletionGoes(d, "deleting", rows \cap {deleting[d].target})
    /\ UNCHANGED <<disk, expense, rows, creating, serving, unlinks, unsure, orphans, crashes>>

LeakyCommitDeletion(d) ==
    LET u == deleting[d].target
    IN  /\ deleting[d].phase = "deleting"
        /\ Live(u)
        /\ expense' = [expense EXCEPT ![u] = "deleted"]
        /\ DeletionGoes(d, "done", {})
        /\ UNCHANGED <<disk, rows, creating, serving, unlinks, unsure, orphans, crashes>>

\* expenseModel.delete: a soft delete, so the receipt row stays.  Only after it
\* succeeds are the files unlinked; on 404, 409 or an error nothing is.  A commit
\* reported as failed leaves the files of a deleted expense behind.
CommitDeletion(d) ==
    LET u == deleting[d].target
    IN  /\ deleting[d].phase = "deleting"
        /\ \/ /\ Live(u)
              /\ expense' = [expense EXCEPT ![u] = "deleted"]
              /\ \/ /\ unlinks' = unlinks \cup deleting[d].files
                    /\ UNCHANGED orphans
                 \/ /\ orphans' = orphans \cup ((deleting[d].files \cap disk) \ unlinks)
                    /\ UNCHANGED unlinks
           \/ UNCHANGED <<expense, unlinks, orphans>>
        /\ DeletionGoes(d, "done", {})
        /\ UNCHANGED <<disk, rows, creating, serving, unsure, crashes>>

-----------------------------------------------------------------------------
(* GET /expenses/:id/receipts/:receiptId. *)

DownloadGoes(r, phase) == serving' = [serving EXCEPT ![r].phase = phase]

\* findById; the manager check, if any, is the next await.
OpenDownload(r, u, f) ==
    /\ serving[r].phase = "idle"
    /\ Live(u)
    /\ serving' = [serving EXCEPT ![r] = [phase |-> "row", target |-> u, file |-> f]]
    /\ UNCHANGED <<disk, expense, rows, creating, deleting, unlinks, unsure, orphans, crashes>>

\* receiptModel.findById, and 404 unless the row is of the expense in the URL.
ReadReceipt(r) ==
    /\ serving[r].phase = "row"
    /\ DownloadGoes(r, IF serving[r].file \in rows /\ serving[r].file = serving[r].target
                       THEN "access" ELSE "refused")
    /\ UNCHANGED <<disk, expense, rows, creating, deleting, unlinks, unsure, orphans, crashes>>

\* fs.access
AccessFile(r) ==
    /\ serving[r].phase = "access"
    /\ DownloadGoes(r, IF serving[r].file \in disk THEN "sending" ELSE "refused")
    /\ UNCHANGED <<disk, expense, rows, creating, deleting, unlinks, unsure, orphans, crashes>>

\* res.sendFile: the file may have gone since fs.access.
SendFile(r) ==
    /\ serving[r].phase = "sending"
    /\ DownloadGoes(r, IF serving[r].file \in disk THEN "served" ELSE "refused")
    /\ UNCHANGED <<disk, expense, rows, creating, deleting, unlinks, unsure, orphans, crashes>>

-----------------------------------------------------------------------------
(* What happens beside the requests. *)

\* A started unlink is carried out.
RunUnlink(u) ==
    /\ u \in unlinks
    /\ unlinks' = unlinks \ {u}
    /\ Unlink(u)
    /\ UNCHANGED <<expense, rows, creating, deleting, serving, unsure, crashes>>

\* reapExpiredDemoWorkspaces deletes the expense, its receipt row cascades, and the
\* file is not looked at.
Reap(u) ==
    /\ expense[u] \in {"live", "deleted"}
    /\ expense' = [expense EXCEPT ![u] = "reaped"]
    /\ rows' = rows \ {u}
    /\ orphans' = orphans \cup (({u} \cap disk) \ unlinks)
    /\ UNCHANGED <<disk, creating, deleting, serving, unlinks, unsure, crashes>>

\* The process stops: requests and started unlinks are gone.
Crash ==
    /\ crashes < MaxCrashes
    /\ crashes' = crashes + 1
    /\ creating' = [u \in Upload |-> IF creating[u] = "idle" THEN "idle" ELSE "done"]
    /\ deleting' = [d \in Deletion |-> IF deleting[d].phase = "idle" THEN IdleDeletion
                                       ELSE [deleting[d] EXCEPT !.phase = "done", !.files = {}]]
    /\ serving' = [r \in Download |-> IF serving[r].phase \in {"idle", "served"} THEN serving[r]
                                      ELSE [serving[r] EXCEPT !.phase = "refused"]]
    /\ unlinks' = {}
    /\ orphans' = orphans \cup {u \in disk : ~Live(u) \/ u \in unlinks}
    /\ UNCHANGED <<disk, expense, rows, unsure>>

Next ==
    \/ \E u \in Upload : \/ StoreFile(u) \/ CheckFile(u) \/ RejectFile(u) \/ SubmitReceipt(u)
                         \/ FinishCreate(u) \/ RunUnlink(u) \/ Reap(u)
    \/ \E d \in Deletion : \/ \E u \in Upload : LoadDeletion(d, u)
                           \/ ReadReceipts(d) \/ CommitDeletion(d)
    \/ \E r \in Download : \/ \E u, f \in Upload : OpenDownload(r, u, f)
                           \/ ReadReceipt(r) \/ AccessFile(r) \/ SendFile(r)
    \/ Crash

\* The event loop runs every started unlink and every request it is awaiting.
Fairness ==
    \A u \in Upload : /\ WF_vars(CheckFile(u)) /\ WF_vars(RejectFile(u))
                      /\ WF_vars(SubmitReceipt(u)) /\ WF_vars(FinishCreate(u))
                      /\ WF_vars(RunUnlink(u))

Spec == Init /\ [][Next]_vars /\ Fairness

-----------------------------------------------------------------------------
(* Properties. *)

TypeOK ==
    /\ disk \subseteq Upload /\ rows \subseteq Upload /\ unlinks \subseteq Upload
    /\ unsure \subseteq Upload /\ orphans \subseteq Upload
    /\ expense \in [Upload -> {"none", "live", "deleted", "reaped"}]
    /\ creating \in [Upload -> CreatePhase]
    /\ deleting \in [Deletion -> [phase : {"idle", "receipts", "deleting", "done"},
                                  target : Upload \cup {None}, files : SUBSET Upload]]
    /\ serving \in [Download -> [phase : {"idle", "row", "access", "sending", "served", "refused"},
                                 target : Upload \cup {None}, file : Upload \cup {None}]]
    /\ crashes \in 0 .. MaxCrashes

\* createExpense and deleteExpense: the receipt of a live expense is on disk and no
\* unlink is on its way to it, however create, delete and failures interleave; the
\* one exception is a commit the handler was told had failed.
LiveReceiptsAreKept ==
    \A u \in rows \ unsure : expense[u] = "live" => u \in disk /\ u \notin unlinks

\* No file leaks silently: each is the receipt of a live expense, or a request is
\* still in charge of it, or its unlink is under way, or it was abandoned by a crash,
\* a failed unlink, an unreported commit or the reaper.
FilesAreAccountedFor ==
    \A u \in disk : \/ Live(u) /\ u \in rows
                    \/ creating[u] \in {"stored", "rejecting", "submitting"}
                    \/ u \in unlinks
                    \/ u \in orphans

\* Best effort is still an effort: the file of a withdrawn expense, and that of an
\* upload that was refused or failed, goes away in the end, unless a crash, a failed
\* unlink or an unreported commit abandons it.
UnneededFilesGo ==
    \A u \in Upload :
        (expense[u] = "deleted" \/ (CreateAt(u, "done") /\ expense[u] = "none"))
            ~> u \notin disk \/ u \in orphans
=============================================================================
