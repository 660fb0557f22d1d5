------------------------- MODULE ReceiptStore_proofs -------------------------
(***************************************************************************)
(* Theorems about ReceiptStore for any number of uploads, deletions,       *)
(* downloads and process stops.                                            *)
(*                                                                         *)
(* Neither property is inductive: whether a file may be unlinked was       *)
(* decided awaits ago, by a create request that knows its transaction      *)
(* failed or by a delete request that read the receipts before its         *)
(* transaction. The invariant says what such a request still may rely on.  *)
(* Files that nothing will remove are excepted from being accounted for;   *)
(* the last two theorems show that the exception is not wider than that.   *)
(*                                                                         *)
(* The second half is about NoticeBell, for any number of comments, marks  *)
(* and clicks. The two specifications share no variable and are not        *)
(* composed: each theorem is about one of them.                            *)
(***************************************************************************)
EXTENDS ReceiptStore, NoticeBell, FiniteSetTheorems, TLAPS

DeletionState == [phase : {"idle", "receipts", "deleting", "done"},
                  target : Upload \cup {None}, files : SUBSET Upload]
DownloadState == [phase : {"idle", "row", "access", "sending", "served", "refused"},
                  target : Upload \cup {None}, file : Upload \cup {None}]

-----------------------------------------------------------------------------
(* Types. *)

\* The create requests and what runs beside them.
LEMMA UploadsKeepTypes ==
    ASSUME TypeOK, NEW u \in Upload,
           \/ StoreFile(u) \/ CheckFile(u) \/ RejectFile(u) \/ SubmitReceipt(u)
           \/ FinishCreate(u) \/ RunUnlink(u) \/ Reap(u)
    PROVE  TypeOK'
<1>1. \A phase \in CreatePhase : CreateGoes(u, phase) => creating' \in [Upload -> CreatePhase]
  BY DEF TypeOK, CreateGoes
<1>2. Unlink(u) => disk' \subseteq Upload /\ orphans' \subseteq Upload
  BY DEF TypeOK, Unlink
<1>3. {"stored", "rejecting", "submitting", "notifying", "done"} \subseteq CreatePhase
  BY DEF CreatePhase
<1>4. CASE StoreFile(u)
  BY <1>1, <1>3, <1>4 DEF StoreFile, TypeOK
<1>5. CASE CheckFile(u)
  BY <1>1, <1>3, <1>5 DEF CheckFile, TypeOK
<1>6. CASE RejectFile(u)
  BY <1>1, <1>2, <1>3, <1>6 DEF RejectFile, TypeOK
<1>7. CASE SubmitReceipt(u)
  BY <1>1, <1>3, <1>7 DEF SubmitReceipt, TypeOK
<1>8. CASE FinishCreate(u)
  BY <1>1, <1>3, <1>8 DEF FinishCreate, TypeOK
<1>9. CASE RunUnlink(u)
  BY <1>2, <1>9 DEF RunUnlink, TypeOK
<1>10. CASE Reap(u)
  BY <1>10 DEF Reap, TypeOK
<1>11. QED
  BY <1>4, <1>5, <1>6, <1>7, <1>8, <1>9, <1>10

\* The delete requests.
LEMMA DeletionsKeepTypes ==
    ASSUME TypeOK, NEW d \in Deletion,
           (\E u \in Upload : LoadDeletion(d, u)) \/ ReadReceipts(d) \/ CommitDeletion(d)
    PROVE  TypeOK'
<1>1. deleting \in [Deletion -> DeletionState]
  BY DEF TypeOK, DeletionState
<1>2. ASSUME NEW phase \in {"deleting", "done"}, NEW files \in SUBSET Upload,
             DeletionGoes(d, phase, files)
      PROVE  deleting' \in [Deletion -> DeletionState]
  BY <1>1, <1>2 DEF DeletionGoes, DeletionState
<1>3. ASSUME NEW u \in Upload, LoadDeletion(d, u) PROVE TypeOK'
  <2>1. deleting' \in [Deletion -> DeletionState]
    BY <1>1, <1>3 DEF LoadDeletion, DeletionState
  <2>2. QED
    BY <1>3, <2>1 DEF LoadDeletion, TypeOK, DeletionState
<1>4. CASE ReadReceipts(d)
  <2>1. rows \cap {deleting[d].target} \in SUBSET Upload
    BY DEF TypeOK
  <2>2. deleting' \in [Deletion -> DeletionState]
    BY <1>2, <1>4, <2>1 DEF ReadReceipts
  <2>3. QED
    BY <1>4, <2>2 DEF ReadReceipts, TypeOK, DeletionState
<1>5. CASE CommitDeletion(d)
  <2>1. deleting' \in [Deletion -> DeletionState]
    BY <1>2, <1>5 DEF CommitDeletion
  <2>2. deleting[d].files \subseteq Upload
    BY <1>1 DEF DeletionState
  <2>3. QED
    BY <1>5, <2>1, <2>2 DEF CommitDeletion, TypeOK, DeletionState
<1>6. QED
  BY <1>3, <1>4, <1>5

\* The download requests.
LEMMA DownloadsKeepTypes ==
    ASSUME TypeOK, NEW r \in Download,
           \/ \E u, f \in Upload : OpenDownload(r, u, f)
           \/ ReadReceipt(r) \/ AccessFile(r) \/ SendFile(r)
    PROVE  TypeOK'
<1>1. serving \in [Download -> DownloadState]
  BY DEF TypeOK, DownloadState
<1>2. ASSUME NEW phase \in {"access", "sending", "served", "refused"}, DownloadGoes(r, phase)
      PROVE  serving' \in [Download -> DownloadState]
  BY <1>1, <1>2 DEF DownloadGoes, DownloadState
<1>3. ASSUME NEW u \in Upload, NEW f \in Upload, OpenDownload(r, u, f) PROVE TypeOK'
  <2>1. serving' \in [Download -> DownloadState]
    BY <1>1, <1>3 DEF OpenDownload, DownloadState
  <2>2. QED
    BY <1>3, <2>1 DEF OpenDownload, TypeOK, DownloadState
<1>4. CASE ReadReceipt(r) \/ AccessFile(r) \/ SendFile(r)
  <2>1. serving' \in [Download -> DownloadState]
    BY <1>2, <1>4 DEF ReadReceipt, AccessFile, SendFile
  <2>2. QED
    BY <1>4, <2>1 DEF ReadReceipt, AccessFile, SendFile, TypeOK, DownloadState
<1>5. QED
  BY <1>3, <1>4

\* A stop of the process.
LEMMA CrashKeepsTypes ==
    ASSUME TypeOK, Crash
    PROVE  TypeOK'
<1>1. creating' \in [Upload -> CreatePhase]
  BY DEF Crash, CreatePhase
<1>2. deleting' \in [Deletion -> DeletionState]
  <2>1. deleting \in [Deletion -> DeletionState] /\ IdleDeletion \in DeletionState
    BY DEF TypeOK, DeletionState, IdleDeletion
  <2>2. \A d \in Deletion : [deleting[d] EXCEPT !.phase = "done", !.files = {}] \in DeletionState
    BY <2>1 DEF DeletionState
  <2>3. QED
    BY <2>1, <2>2 DEF Crash
<1>3. serving' \in [Download -> DownloadState]
  <2>1. serving \in [Download -> DownloadState]
    BY DEF TypeOK, DownloadState
  <2>2. \A r \in Download : [serving[r] EXCEPT !.phase = "refused"] \in DownloadState
    BY <2>1 DEF DownloadState
  <2>3. QED
    BY <2>1, <2>2 DEF Crash
<1>4. crashes' \in 0 .. MaxCrashes
  <2>1. crashes < MaxCrashes /\ crashes' = crashes + 1
    BY DEF Crash
  <2>2. crashes \in 0 .. MaxCrashes
    BY DEF TypeOK
  <2>3. QED
    BY <2>1, <2>2, StoreAssumption
<1>5. QED
  BY <1>1, <1>2, <1>3, <1>4 DEF Crash, TypeOK, DeletionState, DownloadState

\* Disk, tables, requests and ghosts keep their types.
THEOREM TypeCorrect == Spec => []TypeOK
<1>1. Init => TypeOK
  BY StoreAssumption DEF Init, TypeOK, CreatePhase, IdleDeletion, IdleDownload
<1>2. TypeOK /\ [Next]_vars => TypeOK'
  <2> SUFFICES ASSUME TypeOK, [Next]_vars PROVE TypeOK'
    OBVIOUS
  <2>1. CASE UNCHANGED vars
    BY <2>1 DEF vars, TypeOK
  <2>2. CASE Next
    BY <2>2, UploadsKeepTypes, DeletionsKeepTypes, DownloadsKeepTypes, CrashKeepsTypes DEF Next
  <2>3. QED
    BY <2>1, <2>2
<1>3. QED
  BY <1>1, <1>2, PTL DEF Spec

-----------------------------------------------------------------------------
(* The invariant. *)

InCharge == {"stored", "rejecting", "submitting"}

\* Until its transaction a create request alone knows of its file: there is no row,
\* and nobody unlinks the file.
CreationInv ==
    \A u \in Upload : creating[u] \in InCharge \cup {"idle"} =>
        /\ expense[u] = "none" /\ u \notin rows /\ u \notin unlinks
        /\ creating[u] \in InCharge => u \in disk

\* The receipt row goes with the expense row and stays while the expense is live.
RowsInv == \A u \in Upload : expense[u] = "live" => u \in rows

\* What a delete request has read is still all there is, if the expense is still live.
DeletionInv ==
    \A d \in Deletion :
        LET u == deleting[d].target
        IN  /\ deleting[d].files \subseteq {u}
            /\ deleting[d].phase \in {"receipts", "deleting"} => u \in Upload /\ expense[u] # "none"
            /\ deleting[d].phase = "deleting" /\ expense[u] = "live" => deleting[d].files = {u}

IInv ==
    /\ CreationInv
    /\ RowsInv
    /\ DeletionInv
    /\ LiveReceiptsAreKept
    /\ FilesAreAccountedFor

\* Requests that only read, and steps that change nothing.
LEMMA ReadersKeepInv ==
    ASSUME IInv, UNCHANGED <<disk, expense, rows, creating, deleting, unlinks, unsure, orphans>>
    PROVE  IInv'
BY DEF IInv, CreationInv, RowsInv, DeletionInv, LiveReceiptsAreKept, FilesAreAccountedFor, Live

\* A create request up to its transaction.
LEMMA ChecksKeepInv ==
    ASSUME TypeOK, IInv, NEW u \in Upload, StoreFile(u) \/ CheckFile(u) \/ RejectFile(u)
    PROVE  IInv'
<1>1. creating[u] \in InCharge \cup {"idle"}
  BY DEF StoreFile, CheckFile, RejectFile, CreateAt, InCharge
<1>2. expense[u] = "none" /\ u \notin rows /\ u \notin unlinks
  BY <1>1 DEF IInv, CreationInv
<1>3. UNCHANGED <<expense, rows, deleting, unsure>>
  BY DEF StoreFile, CheckFile, RejectFile
<1>4. CreationInv'
  BY <1>2 DEF IInv, CreationInv, InCharge, TypeOK, StoreFile, CheckFile, RejectFile, Unlink,
              CreateAt, CreateGoes
<1>5. RowsInv' /\ DeletionInv'
  BY <1>3 DEF IInv, RowsInv, DeletionInv
<1>6. LiveReceiptsAreKept'
  BY <1>2 DEF IInv, LiveReceiptsAreKept, StoreFile, CheckFile, RejectFile, Unlink
<1>7. FilesAreAccountedFor'
  BY <1>2, <1>3 DEF IInv, FilesAreAccountedFor, TypeOK, StoreFile, CheckFile, RejectFile, Unlink,
              CreateAt, CreateGoes, Live
<1>8. QED
  BY <1>4, <1>5, <1>6, <1>7 DEF IInv

\* The transaction of a create request, with its three outcomes, and the rest of it.
LEMMA SubmissionKeepsInv ==
    ASSUME TypeOK, IInv, NEW u \in Upload, SubmitReceipt(u) \/ FinishCreate(u)
    PROVE  IInv'
<1>1. CASE SubmitReceipt(u)
  <2>1. creating[u] = "submitting"
    BY <1>1 DEF SubmitReceipt, CreateAt
  <2>2. expense[u] = "none" /\ u \notin rows /\ u \notin unlinks /\ u \in disk
    BY <2>1 DEF IInv, CreationInv, InCharge
  <2>3. CreationInv'
    BY <1>1, <2>2 DEF IInv, CreationInv, InCharge, TypeOK, SubmitReceipt, CreateGoes
  <2>4. RowsInv'
    BY <1>1, <2>2 DEF IInv, RowsInv, TypeOK, SubmitReceipt
  <2>5. DeletionInv'
    BY <1>1, <2>2 DEF IInv, DeletionInv, TypeOK, SubmitReceipt
  <2>6. LiveReceiptsAreKept'
    BY <1>1, <2>2 DEF IInv, LiveReceiptsAreKept, TypeOK, SubmitReceipt
  <2>7. FilesAreAccountedFor'
    BY <1>1, <2>2 DEF IInv, FilesAreAccountedFor, TypeOK, SubmitReceipt, CreateGoes, Live
  <2>8. QED
    BY <2>3, <2>4, <2>5, <2>6, <2>7 DEF IInv
<1>2. CASE FinishCreate(u)
  <2>1. CreationInv'
    BY <1>2 DEF IInv, CreationInv, InCharge, TypeOK, FinishCreate, CreateGoes
  <2>2. RowsInv' /\ DeletionInv' /\ LiveReceiptsAreKept'
    BY <1>2 DEF IInv, RowsInv, DeletionInv, LiveReceiptsAreKept, FinishCreate
  <2>3. FilesAreAccountedFor'
    BY <1>2 DEF IInv, FilesAreAccountedFor, TypeOK, FinishCreate, CreateAt, CreateGoes, Live
  <2>4. QED
    BY <2>1, <2>2, <2>3 DEF IInv
<1>3. QED
  BY <1>1, <1>2

\* A delete request: read, read, one transaction, then unlink.
LEMMA DeletionKeepsInv ==
    ASSUME TypeOK, IInv, NEW d \in Deletion,
           (\E u \in Upload : LoadDeletion(d, u)) \/ ReadReceipts(d) \/ CommitDeletion(d)
    PROVE  IInv'
<1>1. CASE (\E u \in Upload : LoadDeletion(d, u)) \/ ReadReceipts(d)
  <2>1. UNCHANGED <<disk, expense, rows, creating, unlinks, unsure, orphans>>
    BY <1>1 DEF LoadDeletion, ReadReceipts
  <2>2. DeletionInv'
    BY <1>1, <2>1 DEF IInv, DeletionInv, RowsInv, TypeOK, LoadDeletion, ReadReceipts,
                      DeletionGoes, Live
  <2>3. QED
    BY <2>1, <2>2 DEF IInv, CreationInv, RowsInv, LiveReceiptsAreKept, FilesAreAccountedFor, Live
<1>2. CASE CommitDeletion(d)
  <2> DEFINE u == deleting[d].target
  <2>1. UNCHANGED <<disk, rows, creating, unsure>>
    BY <1>2 DEF CommitDeletion
  <2>2. deleting[d].phase = "deleting" /\ u \in Upload /\ deleting[d].files \subseteq {u}
    BY <1>2 DEF CommitDeletion, IInv, DeletionInv
  <2>3. \/ UNCHANGED <<expense, unlinks, orphans>>
        \/ /\ expense[u] = "live" /\ deleting[d].files = {u} /\ u \in rows
           /\ creating[u] \notin InCharge \cup {"idle"}
           /\ expense' = [expense EXCEPT ![u] = "deleted"]
           /\ \/ unlinks' = unlinks \cup {u} /\ orphans' = orphans
              \/ unlinks' = unlinks /\ orphans' = orphans \cup (({u} \cap disk) \ unlinks)
    BY <1>2, <2>2 DEF CommitDeletion, Live, IInv, DeletionInv, RowsInv, CreationInv
  <2>4. CreationInv'
    BY <2>1, <2>2, <2>3 DEF IInv, CreationInv, TypeOK
  <2>5. RowsInv'
    BY <2>1, <2>2, <2>3 DEF IInv, RowsInv, TypeOK
  <2>6. DeletionInv'
    BY <1>2, <2>2, <2>3 DEF IInv, DeletionInv, TypeOK, CommitDeletion, DeletionGoes
  <2>7. LiveReceiptsAreKept'
    BY <2>1, <2>2, <2>3 DEF IInv, LiveReceiptsAreKept, TypeOK
  <2>8. FilesAreAccountedFor'
    BY <2>1, <2>2, <2>3 DEF IInv, FilesAreAccountedFor, TypeOK, Live
  <2>9. QED
    BY <2>4, <2>5, <2>6, <2>7, <2>8 DEF IInv
<1>3. QED
  BY <1>1, <1>2

\* A started unlink, which works or not, and the reaper, which does not look at files.
LEMMA JobsKeepInv ==
    ASSUME TypeOK, IInv, NEW u \in Upload, RunUnlink(u) \/ Reap(u)
    PROVE  IInv'
<1>1. CASE RunUnlink(u)
  <2>1. UNCHANGED <<expense, rows, creating, deleting, unsure>> /\ u \in unlinks
    BY <1>1 DEF RunUnlink
  <2>2. CreationInv'
    BY <1>1, <2>1 DEF IInv, CreationInv, RunUnlink, Unlink
  <2>3. RowsInv' /\ DeletionInv'
    BY <2>1 DEF IInv, RowsInv, DeletionInv
  <2>4. LiveReceiptsAreKept'
    BY <1>1, <2>1 DEF IInv, LiveReceiptsAreKept, RunUnlink, Unlink
  <2>5. FilesAreAccountedFor'
    BY <1>1, <2>1 DEF IInv, FilesAreAccountedFor, RunUnlink, Unlink, Live
  <2>6. QED
    BY <2>2, <2>3, <2>4, <2>5 DEF IInv
<1>2. CASE Reap(u)
  <2>1. CreationInv'
    BY <1>2 DEF IInv, CreationInv, TypeOK, Reap
  <2>2. RowsInv'
    BY <1>2 DEF IInv, RowsInv, TypeOK, Reap
  <2>3. DeletionInv'
    BY <1>2 DEF IInv, DeletionInv, TypeOK, Reap
  <2>4. LiveReceiptsAreKept'
    BY <1>2 DEF IInv, LiveReceiptsAreKept, TypeOK, Reap
  <2>5. FilesAreAccountedFor'
    BY <1>2 DEF IInv, FilesAreAccountedFor, TypeOK, Reap, Live
  <2>6. QED
    BY <2>1, <2>2, <2>3, <2>4, <2>5 DEF IInv
<1>3. QED
  BY <1>1, <1>2

\* A stop ends all requests; what they were in charge of is on the list of orphans.
LEMMA CrashKeepsInv ==
    ASSUME TypeOK, IInv, Crash
    PROVE  IInv'
<1>1. UNCHANGED <<disk, expense, rows, unsure>> /\ unlinks' = {}
  BY DEF Crash
<1>2. CreationInv'
  BY <1>1 DEF IInv, CreationInv, InCharge, Crash
<1>3. RowsInv' /\ LiveReceiptsAreKept'
  BY <1>1 DEF IInv, RowsInv, LiveReceiptsAreKept
<1>4. DeletionInv'
  <2>1. \A d \in Deletion : deleting'[d].files = {} /\ deleting'[d].phase \in {"idle", "done"}
    BY DEF Crash, TypeOK, IdleDeletion
  <2>2. QED
    BY <2>1 DEF DeletionInv
<1>5. FilesAreAccountedFor'
  BY <1>1 DEF IInv, RowsInv, FilesAreAccountedFor, TypeOK, Crash, Live
<1>6. QED
  BY <1>2, <1>3, <1>4, <1>5 DEF IInv

\* The inductive invariant holds of every behaviour.
THEOREM Invariance == Spec => []IInv
<1>1. Init => IInv
  BY DEF Init, IInv, CreationInv, InCharge, RowsInv, DeletionInv, IdleDeletion,
         LiveReceiptsAreKept, FilesAreAccountedFor
<1>2. TypeOK /\ IInv /\ [Next]_vars => IInv'
  <2> SUFFICES ASSUME TypeOK, IInv, [Next]_vars PROVE IInv'
    OBVIOUS
  <2>1. ASSUME NEW r \in Download,
               \/ \E u, f \in Upload : OpenDownload(r, u, f)
               \/ ReadReceipt(r) \/ AccessFile(r) \/ SendFile(r)
        PROVE  IInv'
    BY <2>1, ReadersKeepInv DEF OpenDownload, ReadReceipt, AccessFile, SendFile
  <2>2. CASE UNCHANGED vars
    BY <2>2, ReadersKeepInv DEF vars
  <2>3. QED
    BY <2>1, <2>2, ChecksKeepInv, SubmissionKeepsInv, DeletionKeepsInv, JobsKeepInv, CrashKeepsInv
       DEF Next
<1>3. QED
  BY <1>1, <1>2, TypeCorrect, PTL DEF Spec

\* createExpense and deleteExpense never unlink the receipt of a live expense, however
\* they interleave, fail or are cut off; except after a commit reported as failed.
THEOREM KeptReceipts == Spec => []LiveReceiptsAreKept
<1>1. IInv => LiveReceiptsAreKept
  BY DEF IInv
<1>2. QED
  BY <1>1, Invariance, PTL

\* Every file on disk belongs to a live expense, to a request in charge of it or to an
\* unlink under way, or is one of those nothing will ever remove.
THEOREM AccountedFiles == Spec => []FilesAreAccountedFor
<1>1. IInv => FilesAreAccountedFor
  BY DEF IInv
<1>2. QED
  BY <1>1, Invariance, PTL

-----------------------------------------------------------------------------
(* Orphans.  The list of them is what excuses a file that stays: it would  *)
(* excuse anything if files could be listed that are still needed, or that *)
(* somebody is going to remove.                                            *)

\* A file nobody was told of does not exist yet.
NotYetStored == \A u \in Upload : creating[u] = "idle" => u \notin disk

\* Nobody is in charge of an orphan, and no live expense needs it; except after a
\* commit reported as failed, which nobody can know about.
OrphanInv ==
    \A u \in orphans \ unsure :
        /\ creating[u] \in {"notifying", "done"}
        /\ expense[u] # "live"
        /\ u \notin unlinks

LostInv == NotYetStored /\ OrphanInv

\* An orphan on disk stays there.
OrphansStay == [][\A u \in orphans \ unsure : u \in disk => u \in disk']_vars

\* A file on its way out is not that of a live expense.
LEMMA UnlinkedIsNotNeeded ==
    ASSUME IInv, NEW u \in unlinks \ unsure, u \in Upload
    PROVE  expense[u] # "live" /\ creating[u] \notin InCharge \cup {"idle"}
BY DEF IInv, LiveReceiptsAreKept, RowsInv, CreationInv

\* Files come with the first step of their request.
LEMMA StoredStep ==
    ASSUME TypeOK, IInv, NotYetStored, [Next]_vars
    PROVE  NotYetStored'
<1>1. ASSUME NEW u \in Upload, creating'[u] = "idle" PROVE creating[u] = "idle"
  BY <1>1 DEF TypeOK, Next, vars, StoreFile, CheckFile, RejectFile, SubmitReceipt, FinishCreate,
              RunUnlink, Reap, LoadDeletion, ReadReceipts, CommitDeletion, OpenDownload,
              ReadReceipt, AccessFile, SendFile, Crash, CreateGoes
<1>2. ASSUME NEW u \in Upload, StoreFile(u) PROVE disk' = disk \cup {u} /\ creating'[u] = "stored"
  BY <1>2 DEF StoreFile, CreateGoes, TypeOK
<1>3. (\A u \in Upload : ~StoreFile(u)) => disk' \subseteq disk
  BY DEF Next, vars, CheckFile, RejectFile, SubmitReceipt, FinishCreate, RunUnlink, Reap, Unlink,
         LoadDeletion, ReadReceipts, CommitDeletion, OpenDownload, ReadReceipt, AccessFile,
         SendFile, Crash
<1>4. QED
  BY <1>1, <1>2, <1>3 DEF NotYetStored

\* A create request, from its file to its answer.
LEMMA CreationKeepsOrphans ==
    ASSUME TypeOK, IInv, LostInv, NEW u \in Upload,
           StoreFile(u) \/ CheckFile(u) \/ RejectFile(u) \/ SubmitReceipt(u) \/ FinishCreate(u)
    PROVE  OrphanInv'
<1>1. u \in orphans \ unsure => creating[u] = "notifying"
  BY DEF LostInv, OrphanInv, StoreFile, CheckFile, RejectFile, SubmitReceipt, FinishCreate, CreateAt
<1>2. ASSUME NEW v \in (orphans \ unsure)', v # u
      PROVE  /\ v \in orphans \ unsure /\ creating'[v] = creating[v]
             /\ expense'[v] = expense[v] /\ (v \in unlinks' => v \in unlinks)
  BY <1>2 DEF StoreFile, CheckFile, RejectFile, SubmitReceipt, FinishCreate, CreateGoes, Unlink, TypeOK
<1>3. ASSUME u \in (orphans \ unsure)'
      PROVE  creating'[u] \in {"notifying", "done"} /\ expense'[u] # "live" /\ u \notin unlinks'
  <2>1. CASE u \in orphans \ unsure
    <3>1. FinishCreate(u) /\ creating'[u] = "done" /\ UNCHANGED <<expense, unlinks>>
      BY <1>1, <2>1 DEF StoreFile, CheckFile, RejectFile, SubmitReceipt, FinishCreate, CreateAt,
                        CreateGoes, TypeOK
    <3>2. QED
      BY <2>1, <3>1 DEF LostInv, OrphanInv
  <2>2. CASE u \notin orphans \ unsure
    <3>1. RejectFile(u)
      BY <1>3, <2>2 DEF StoreFile, CheckFile, RejectFile, SubmitReceipt, FinishCreate
    <3>2. creating'[u] = "done" /\ expense' = expense /\ unlinks' = unlinks
          /\ expense[u] = "none" /\ u \notin unlinks
      BY <3>1 DEF RejectFile, CreateAt, CreateGoes, IInv, CreationInv, InCharge, TypeOK
    <3>3. QED
      BY <3>2
  <2>3. QED
    BY <2>1, <2>2
<1>4. QED
  BY <1>2, <1>3 DEF LostInv, OrphanInv

\* A delete request: whatever it has read is of an expense that is live until it commits.
LEMMA DeletionKeepsOrphans ==
    ASSUME TypeOK, IInv, LostInv, NEW d \in Deletion,
           (\E u \in Upload : LoadDeletion(d, u)) \/ ReadReceipts(d) \/ CommitDeletion(d)
    PROVE  OrphanInv'
<1>1. CASE UNCHANGED <<expense, creating, unlinks, unsure, orphans>>
  BY <1>1 DEF LostInv, OrphanInv
<1>2. CASE CommitDeletion(d) /\ ~UNCHANGED <<expense, unlinks, orphans>>
  <2> DEFINE u == deleting[d].target
  <2>1. /\ u \in Upload /\ deleting[d].files = {u} /\ expense[u] = "live"
        /\ creating[u] \in {"notifying", "done"}
    <3>1. deleting[d].phase = "deleting" /\ Live(u)
      BY <1>2 DEF CommitDeletion
    <3>2. u \in Upload /\ expense[u] = "live" /\ deleting[d].files = {u}
      BY <3>1 DEF IInv, DeletionInv, Live
    <3>3. creating[u] \in CreatePhase /\ creating[u] \notin InCharge \cup {"idle"}
      BY <3>2 DEF IInv, CreationInv, TypeOK
    <3>4. QED
      BY <3>2, <3>3 DEF CreatePhase, InCharge
  <2>2. u \notin orphans \ unsure
    BY <2>1 DEF LostInv, OrphanInv
  <2>3. /\ creating' = creating /\ unsure' = unsure
        /\ expense' = [expense EXCEPT ![u] = "deleted"]
        /\ \/ unlinks' = unlinks \cup {u} /\ orphans' = orphans
           \/ unlinks' = unlinks /\ orphans' = orphans \cup (({u} \cap disk) \ unlinks)
    BY <1>2, <2>1 DEF CommitDeletion
  <2> HIDE DEF u
  <2>4. expense'[u] = "deleted" /\ \A v \in Upload \ {u} : expense'[v] = expense[v]
    BY <2>1, <2>3 DEF TypeOK
  <2>5. orphans \subseteq Upload
    BY DEF TypeOK
  <2>6. ASSUME NEW v \in (orphans \ unsure)'
        PROVE  creating'[v] \in {"notifying", "done"} /\ expense'[v] # "live" /\ v \notin unlinks'
    <3>1. CASE v = u
      BY <2>1, <2>2, <2>3, <2>4, <2>6, <3>1
    <3>2. CASE v # u
      BY <2>3, <2>4, <2>5, <2>6, <3>2 DEF LostInv, OrphanInv
    <3>3. QED
      BY <3>1, <3>2
  <2>7. QED
    BY <2>6 DEF OrphanInv
<1>3. QED
  BY <1>1, <1>2 DEF LoadDeletion, ReadReceipts, CommitDeletion

\* A started unlink, the reaper, and a stop of the process.
LEMMA JobsKeepOrphans ==
    ASSUME TypeOK, IInv, LostInv, (\E u \in Upload : RunUnlink(u) \/ Reap(u)) \/ Crash
    PROVE  OrphanInv'
<1>1. \A v \in Upload : creating[v] \notin InCharge \cup {"idle"} => creating[v] \in {"notifying", "done"}
  BY DEF TypeOK, CreatePhase, InCharge
<1>2. orphans \subseteq Upload /\ disk \subseteq Upload /\ unlinks \subseteq Upload
  BY DEF TypeOK
<1>3. ASSUME NEW u \in Upload, RunUnlink(u) PROVE OrphanInv'
  <2>1. UNCHANGED <<expense, creating, unsure>> /\ unlinks' = unlinks \ {u} /\ u \in unlinks
        /\ orphans' \subseteq orphans \cup {u}
    BY <1>3 DEF RunUnlink, Unlink
  <2>2. u \notin unsure => expense[u] # "live" /\ creating[u] \in {"notifying", "done"}
    BY <1>1, <2>1, UnlinkedIsNotNeeded
  <2>3. QED
    BY <2>1, <2>2 DEF LostInv, OrphanInv
<1>4. ASSUME NEW u \in Upload, Reap(u) PROVE OrphanInv'
  <2>1. UNCHANGED <<creating, unsure, unlinks>> /\ expense' = [expense EXCEPT ![u] = "reaped"]
        /\ orphans' = orphans \cup (({u} \cap disk) \ unlinks) /\ expense[u] # "none"
    BY <1>4 DEF Reap
  <2>2. creating[u] \in {"notifying", "done"}
    BY <1>1, <2>1 DEF IInv, CreationInv
  <2>3. expense'[u] = "reaped" /\ \A v \in Upload \ {u} : expense'[v] = expense[v]
    BY <2>1 DEF TypeOK
  <2>4. QED
    BY <1>2, <2>1, <2>2, <2>3 DEF LostInv, OrphanInv
<1>5. CASE Crash
  <2>1. /\ UNCHANGED <<expense, unsure>> /\ unlinks' = {}
        /\ orphans' = orphans \cup {u \in disk : ~Live(u) \/ u \in unlinks}
        /\ creating' = [u \in Upload |-> IF creating[u] = "idle" THEN "idle" ELSE "done"]
    BY <1>5 DEF Crash
  <2>2. ASSUME NEW v \in (orphans \ unsure)'
        PROVE  creating'[v] \in {"notifying", "done"} /\ expense'[v] # "live" /\ v \notin unlinks'
    <3>1. v \in Upload /\ v \notin unsure
      BY <1>2, <2>1, <2>2
    <3>2. CASE v \in orphans
      BY <2>1, <3>1, <3>2 DEF LostInv, OrphanInv
    <3>3. CASE v \in disk /\ (~Live(v) \/ v \in unlinks)
      <4>1. expense[v] # "live"
        BY <3>1, <3>3, UnlinkedIsNotNeeded DEF Live
      <4>2. creating[v] # "idle"
        BY <3>1, <3>3 DEF LostInv, NotYetStored
      <4>3. QED
        BY <2>1, <3>1, <4>1, <4>2
    <3>4. QED
      BY <2>1, <2>2, <3>2, <3>3
  <2>3. QED
    BY <2>2 DEF OrphanInv
<1>6. QED
  BY <1>3, <1>4, <1>5

\* What is given up is not needed.
THEOREM OrphansAreNobodys == Spec => []LostInv
<1>1. Init => LostInv
  BY DEF Init, LostInv, NotYetStored, OrphanInv
<1>2. TypeOK /\ IInv /\ LostInv /\ [Next]_vars => LostInv'
  <2> SUFFICES ASSUME TypeOK, IInv, LostInv, [Next]_vars PROVE OrphanInv'
    BY StoredStep DEF LostInv
  <2>1. CASE UNCHANGED <<expense, creating, unlinks, unsure, orphans>>
    BY <2>1 DEF LostInv, OrphanInv
  <2>2. ASSUME NEW r \in Download,
               \/ \E u, f \in Upload : OpenDownload(r, u, f)
               \/ ReadReceipt(r) \/ AccessFile(r) \/ SendFile(r)
        PROVE  OrphanInv'
    BY <2>1, <2>2 DEF OpenDownload, ReadReceipt, AccessFile, SendFile
  <2>3. CASE UNCHANGED vars
    BY <2>1, <2>3 DEF vars
  <2>4. QED
    BY <2>2, <2>3, CreationKeepsOrphans, DeletionKeepsOrphans, JobsKeepOrphans DEF Next
<1>3. QED
  BY <1>1, <1>2, TypeCorrect, Invariance, PTL DEF Spec

\* safeUnlinkReceipt, the crash and the reaper: what counts as abandoned is abandoned
\* for good, so no excuse of FilesAreAccountedFor is one for a file that goes later.
THEOREM AbandonedForGood == Spec => OrphansStay
<1>1. TypeOK /\ LostInv /\ [Next]_vars => [\A u \in orphans \ unsure : u \in disk => u \in disk']_vars
  <2> SUFFICES ASSUME TypeOK, LostInv, Next, NEW v \in orphans \ unsure, v \in disk
               PROVE  v \in disk'
    OBVIOUS
  <2>1. v \in Upload /\ v \notin unlinks /\ creating[v] \in {"notifying", "done"}
    BY DEF TypeOK, LostInv, OrphanInv
  <2>2. ASSUME NEW u \in Upload, RejectFile(u) \/ RunUnlink(u) PROVE v \in disk'
    BY <2>1, <2>2 DEF RejectFile, RunUnlink, Unlink, CreateAt
  <2>3. (\A u \in Upload : ~RejectFile(u) /\ ~RunUnlink(u)) => disk \subseteq disk'
    BY DEF Next, StoreFile, CheckFile, SubmitReceipt, FinishCreate, Reap, LoadDeletion,
           ReadReceipts, CommitDeletion, OpenDownload, ReadReceipt, AccessFile, SendFile, Crash
  <2>4. QED
    BY <2>2, <2>3
<1>2. QED
  BY <1>1, TypeCorrect, OrphansAreNobodys, PTL DEF Spec, OrphansStay

-----------------------------------------------------------------------------
(* The notices of comments, the bell and the switch that mutes them.       *)

-----------------------------------------------------------------------------
(* The invariant. *)

\* Entries of the cache for values in V, without an answer unless asked.
EntrySnapshots(V) == [data : SUBSET V, stale : BOOLEAN, failed : BOOLEAN]
CacheEntries(V) ==
    [data : SUBSET V, fetch : {"idle", "asked", "answered"}, answer : SUBSET V,
      before : EntrySnapshots(V), stale : BOOLEAN, failed : BOOLEAN, late : BOOLEAN,
      missed : BOOLEAN]
IsEntry(c, V) == c \in CacheEntries(V) /\ (c.fetch = "idle" => c.answer = {})

\* Data and answer are among G, or it is known that they may not be.
GoodIn(c, G) ==
    /\ c.stale \/ c.missed \/ c.data \subseteq G
    /\ c.late \/ c.answer \subseteq G

NoticeRow == [is_read : BOOLEAN, unwanted : BOOLEAN]
NoticeList == UNION {[S -> BOOLEAN] : S \in SUBSET Nat}

PostState == {NoPost, [phase |-> "over"]}
             \cup [phase : {"telling", "wanted"}, mine : BOOLEAN, to : SUBSET {Me}, muted : BOOLEAN]
MarkState == {NoMark}
             \cup [phase : {"sent", "done", "failed"}, all : BOOLEAN, id : Nat, read : SUBSET Nat,
                   badge : SUBSET Nat, list : SUBSET NoticeList]
FormState == {NoForm}
             \cup [shown : {TRUE}, on : BOOLEAN, initial : BOOLEAN, from : SUBSET BOOLEAN]
SaveState == {NoSave} \cup [phase : {"sent", "written", "done"}, on : BOOLEAN, heard : BOOLEAN]

ServerTypes ==
    /\ setting \in [User -> BOOLEAN] /\ offTold \in BOOLEAN
    /\ post \in [Post -> PostState]
    /\ notices \in Seq(NoticeRow)
BellTypes ==
    /\ open \in BOOLEAN
    /\ mark \in [Mark -> MarkState]
    /\ IsEntry(badge, Nat) /\ IsEntry(list, NoticeList)
SettingsTypes ==
    /\ IsEntry(profile, BOOLEAN)
    /\ form \in FormState /\ save \in SaveState
    /\ save # NoSave => (save.heard => form.shown)

\* Who is muted has his notices off; whoever is about to be told is not.
MuteInv ==
    /\ offTold => ~setting[Me]
    /\ \A p \in Post : /\ post[p].phase = "telling" => (post[p].muted => ~setting[Me])
                       /\ post[p].phase = "wanted" => ~post[p].muted
    /\ MutedStaysQuiet

\* What a mark was answered for is read, and a mark is of a notice there is.
AreRead(S) == S \subseteq DOMAIN notices /\ \A n \in S : notices[n].is_read
MarkInv ==
    /\ AreRead(readTold)
    /\ \A m \in Mark : /\ mark[m].phase = "done" => AreRead(mark[m].read)
                       /\ mark[m].phase = "sent" /\ ~mark[m].all => mark[m].id \in DOMAIN notices

\* Counts and lists that agree with what this tab was told.
Calm == \A m \in Mark : mark[m] = NoMark
GoodCounts == {v \in Nat : v <= Cardinality(DOMAIN notices \ readTold)}
GoodLists == {l \in NoticeList : \A n \in readTold \cap DOMAIN l : l[n]}
ShownInv == Calm => GoodIn(badge, GoodCounts) /\ GoodIn(list, GoodLists)

BellInv == ServerTypes /\ BellTypes /\ SettingsTypes /\ MuteInv /\ MarkInv /\ ShownInv

-----------------------------------------------------------------------------
(* Entries of the cache. *)

LEMMA SnapshotOfEntry ==
    ASSUME NEW V, NEW c \in CacheEntries(V)
    PROVE  /\ [data |-> c.data, stale |-> c.stale, failed |-> c.failed] \in EntrySnapshots(V)
           /\ NotAsked \in EntrySnapshots(V) /\ c.before \in EntrySnapshots(V)
BY DEF CacheEntries, EntrySnapshots, NotAsked

LEMMA AskedEntry ==
    ASSUME NEW V, NEW c \in CacheEntries(V)
    PROVE  /\ Ask(c) \in CacheEntries(V)
           /\ Ask(c).data = c.data /\ Ask(c).stale = c.stale /\ Ask(c).missed = c.missed
           /\ Ask(c).answer = {} /\ Ask(c).fetch = "asked"
<1>1. [data |-> c.data, stale |-> c.stale, failed |-> c.failed] \in EntrySnapshots(V)
  BY SnapshotOfEntry
<1>2. QED
  BY <1>1 DEF Ask, CacheEntries, Loaded

LEMMA EntrySteps ==
    ASSUME NEW V, NEW c, IsEntry(c, V), NEW old \in BOOLEAN
    PROVE  /\ IsEntry(Ask(c), V) /\ IsEntry(Mount(c, old), V)
           /\ IsEntry(Fail(c), V)
           /\ IsEntry(Arrive(c), V)
           /\ \A G : GoodIn(c, G) => /\ GoodIn(Ask(c), G) /\ GoodIn(Mount(c, old), G)
                                     /\ GoodIn(Fail(c), G) /\ GoodIn(Arrive(c), G)
<1>1. c \in CacheEntries(V)
  BY DEF IsEntry
<1>2. IsEntry(Ask(c), V) /\ \A G : GoodIn(c, G) => GoodIn(Ask(c), G)
  BY <1>1, AskedEntry DEF IsEntry, GoodIn
<1>3. IsEntry(Mount(c, old), V) /\ \A G : GoodIn(c, G) => GoodIn(Mount(c, old), G)
  BY <1>2 DEF Mount
<1>4. IsEntry(Fail(c), V) /\ \A G : GoodIn(c, G) => GoodIn(Fail(c), G)
  <2>1. Fail(c) \in CacheEntries(V)
    BY <1>1, SnapshotOfEntry DEF Fail, CacheEntries
  <2>2. Fail(c).data = c.data /\ Fail(c).answer = {} /\ Fail(c).stale
    BY <1>1 DEF Fail, CacheEntries
  <2>3. QED
    BY <2>1, <2>2 DEF IsEntry, GoodIn
<1>5. IsEntry(Arrive(c), V) /\ \A G : GoodIn(c, G) => GoodIn(Arrive(c), G)
  <2>1. Arrive(c) \in CacheEntries(V)
    BY <1>1, SnapshotOfEntry DEF Arrive, CacheEntries
  <2>2. /\ Arrive(c).data = c.answer /\ Arrive(c).answer = {}
        /\ Arrive(c).missed = c.late
    BY <1>1 DEF Arrive, CacheEntries
  <2>3. QED
    BY <2>1, <2>2 DEF IsEntry, GoodIn
<1>6. QED
  BY <1>2, <1>3, <1>4, <1>5

LEMMA EmptyEntry ==
    ASSUME NEW V, NEW G
    PROVE  IsEntry(Empty, V) /\ GoodIn(Empty, G)
<1>1. Empty \in CacheEntries(V)
  BY DEF Empty, CacheEntries, EntrySnapshots, NotAsked
<1>2. Empty.data = {} /\ Empty.answer = {}
  BY DEF Empty
<1>3. QED
  BY <1>1, <1>2 DEF IsEntry, GoodIn

LEMMA ReadEntry ==
    ASSUME NEW V, NEW c, IsEntry(c, V), NEW v \in V
    PROVE  /\ IsEntry(Read(c, v, TRUE), V)
           /\ \A G : GoodIn(c, G) /\ v \in G => GoodIn(Read(c, v, TRUE), G)
<1>1. Read(c, v, TRUE) \in CacheEntries(V)
  BY DEF IsEntry, Read, CacheEntries
<1>2. /\ Read(c, v, TRUE).answer = {v} /\ Read(c, v, TRUE).fetch # "idle"
      /\ Read(c, v, TRUE).data = c.data /\ Read(c, v, TRUE).stale = c.stale
      /\ Read(c, v, TRUE).missed = c.missed
  BY DEF IsEntry, Read, CacheEntries
<1>3. QED
  BY <1>1, <1>2 DEF IsEntry, GoodIn

\* An invalidated entry is asked for at once or when it is next in use.
LEMMA InvalidatedEntry ==
    ASSUME NEW V, NEW c, IsEntry(c, V), NEW yes \in BOOLEAN, NEW G
    PROVE  IsEntry(Invalidate(c, yes), V) /\ GoodIn(Invalidate(c, yes), G)
<1> DEFINE marked == [c EXCEPT !.stale = TRUE]
<1>1. /\ marked \in CacheEntries(V) /\ marked.stale
      /\ marked.answer = c.answer /\ marked.fetch = c.fetch
  BY DEF IsEntry, CacheEntries
<1>2. /\ Ask(marked) \in CacheEntries(V) /\ Ask(marked).stale
      /\ Ask(marked).answer = {} /\ Ask(marked).fetch = "asked"
  BY <1>1, AskedEntry
<1>3. CASE Invalidate(c, yes) = Ask(marked)
  BY <1>2, <1>3 DEF IsEntry, GoodIn
<1>4. CASE Invalidate(c, yes) = [marked EXCEPT !.late = @ \/ Fetching(c)]
  <2>1. Fetching(c) \in BOOLEAN
    BY DEF Fetching
  <2>2. /\ Invalidate(c, yes) \in CacheEntries(V) /\ Invalidate(c, yes).stale
        /\ Invalidate(c, yes).answer = c.answer /\ Invalidate(c, yes).fetch = c.fetch
        /\ Fetching(c) => Invalidate(c, yes).late
    BY <1>1, <1>4, <2>1 DEF CacheEntries
  <2>3. QED
    BY <2>2 DEF IsEntry, GoodIn, Fetching
<1>5. QED
  BY <1>3, <1>4 DEF Invalidate

\* A cancelled request may bring back anything.
LEMMA CancelledEntry ==
    ASSUME NEW V, NEW c, IsEntry(c, V)
    PROVE  IsEntry(Cancel(c), V)
<1>1. CASE Fetching(c)
  <2>1. /\ c.before.data \in SUBSET V /\ c.before.stale \in BOOLEAN
        /\ c.before.failed \in BOOLEAN
    BY DEF IsEntry, CacheEntries, EntrySnapshots
  <2>2. Cancel(c) \in CacheEntries(V)
    BY <1>1, <2>1, SnapshotOfEntry DEF IsEntry, Cancel, CacheEntries
  <2>3. Cancel(c).answer = {}
    BY <1>1 DEF Cancel, IsEntry, CacheEntries
  <2>4. QED
    BY <2>2, <2>3 DEF IsEntry
<1>2. CASE ~Fetching(c)
  BY <1>2 DEF Cancel
<1>3. QED
  BY <1>1, <1>2

LEMMA WrittenEntry ==
    ASSUME NEW V, NEW c, IsEntry(c, V), NEW d \in V
    PROVE  IsEntry(Write(c, d), V)
BY DEF IsEntry, Write, CacheEntries

\* The data an entry has.
LEMMA ValueOfEntry ==
    ASSUME NEW V, NEW c, IsEntry(c, V), Loaded(c)
    PROVE  Value(c) \in c.data /\ Value(c) \in V
BY DEF IsEntry, CacheEntries, Loaded, Value

-----------------------------------------------------------------------------
(* What the server reads. *)

\* Fewer notices are unread than this tab was not told are read.
LEMMA GoodReads ==
    ASSUME ServerTypes, MarkInv
    PROVE  Cardinality(Unread) \in GoodCounts /\ Items \in GoodLists
<1>1. IsFiniteSet(DOMAIN notices) /\ DOMAIN notices \subseteq Nat
  <2>1. DOMAIN notices = 1 .. Len(notices) /\ Len(notices) \in Nat
    BY DEF ServerTypes
  <2>2. QED
    BY <2>1, FS_Interval
<1>2. Unread \subseteq DOMAIN notices \ readTold
  BY DEF Unread, MarkInv, AreRead
<1>3. /\ Cardinality(Unread) \in Nat
      /\ Cardinality(Unread) <= Cardinality(DOMAIN notices \ readTold)
  BY <1>1, <1>2, FS_Subset, FS_Difference, FS_CardinalityType
<1>4. Items \in NoticeList
  <2>1. DOMAIN Items \in SUBSET Nat
    BY <1>1 DEF Items
  <2>2. \A n \in DOMAIN notices : notices[n].is_read \in BOOLEAN
    <3>1. \A n \in DOMAIN notices : notices[n] \in NoticeRow
      BY DEF ServerTypes
    <3>2. QED
      BY <3>1 DEF NoticeRow
  <2>3. Items \in [DOMAIN Items -> BOOLEAN]
    BY <2>2 DEF Items
  <2>4. QED
    BY <2>1, <2>3 DEF NoticeList
<1>5. \A n \in readTold \cap DOMAIN Items : Items[n]
  BY DEF Items, MarkInv, AreRead
<1>6. QED
  BY <1>3, <1>4, <1>5 DEF GoodCounts, GoodLists

-----------------------------------------------------------------------------
(* What steps leave alone. *)

\* Steps that only change the two entries of the bell.
LEMMA EntriesChange ==
    ASSUME BellInv, UNCHANGED <<server, mark, readTold, settings>>, open' \in BOOLEAN,
           IsEntry(badge', Nat), IsEntry(list', NoticeList),
           Calm => GoodIn(badge', GoodCounts) /\ GoodIn(list', GoodLists)
    PROVE  BellInv'
<1>1. ServerTypes' /\ MuteInv' /\ MarkInv'
  BY DEF BellInv, ServerTypes, MuteInv, MutedStaysQuiet, MarkInv, AreRead, server
<1>2. SettingsTypes'
  BY DEF BellInv, SettingsTypes, settings
<1>3. BellTypes'
  BY DEF BellInv, BellTypes
<1>4. Calm' = Calm /\ GoodCounts' = GoodCounts /\ GoodLists' = GoodLists
  BY DEF Calm, GoodCounts, GoodLists, server
<1>5. ShownInv'
  BY <1>4 DEF ShownInv
<1>6. QED
  BY <1>1, <1>2, <1>3, <1>5 DEF BellInv

\* Steps that leave notices and bell alone.
LEMMA BellStands ==
    ASSUME BellInv, UNCHANGED <<notices, bell>>, ServerTypes', SettingsTypes', MuteInv'
    PROVE  BellInv'
<1>1. BellTypes' /\ MarkInv' /\ ShownInv'
  BY DEF BellInv, BellTypes, MarkInv, AreRead, ShownInv, Calm, GoodCounts, GoodLists, bell
<1>2. QED
  BY <1>1 DEF BellInv

\* Steps of the settings page.
LEMMA SettingsChange ==
    ASSUME BellInv, UNCHANGED <<server, bell>>, SettingsTypes'
    PROVE  BellInv'
<1>1. ServerTypes' /\ MuteInv' /\ notices' = notices
  BY DEF BellInv, ServerTypes, MuteInv, MutedStaysQuiet, server
<1>2. QED
  BY <1>1, BellStands

-----------------------------------------------------------------------------
(* Requests of the bell. *)

LEMMA Requests ==
    ASSUME BellInv,
           \/ Poll \/ CountUnread \/ SelectList \/ BadgeArrives \/ ListArrives
           \/ Lost \/ Toggle
    PROVE  BellInv'
<1>1. /\ IsEntry(badge, Nat) /\ IsEntry(list, NoticeList) /\ open \in BOOLEAN
      /\ Calm => GoodIn(badge, GoodCounts) /\ GoodIn(list, GoodLists)
  BY DEF BellInv, BellTypes, ShownInv
<1>2. UNCHANGED <<server, mark, readTold, settings>>
  BY DEF Poll, CountUnread, SelectList, BadgeArrives, ListArrives,
         Lost, Toggle
<1>3. ASSUME NEW b, IsEntry(b, Nat), Calm => GoodIn(b, GoodCounts), badge' = b,
             UNCHANGED <<list, open>>
      PROVE  BellInv'
  BY <1>1, <1>2, <1>3, EntriesChange
<1>4. ASSUME NEW l, IsEntry(l, NoticeList), Calm => GoodIn(l, GoodLists), list' = l,
             badge' = badge, open' \in BOOLEAN
      PROVE  BellInv'
  BY <1>1, <1>2, <1>4, EntriesChange
<1>5. Cardinality(Unread) \in GoodCounts /\ Items \in GoodLists
  BY GoodReads DEF BellInv
<1>6. Cardinality(Unread) \in Nat /\ Items \in NoticeList
  BY <1>5 DEF GoodCounts, GoodLists
<1>7. CASE Poll
  BY <1>1, <1>3, <1>7, EntrySteps DEF Poll
<1>8. CASE CountUnread
  BY <1>1, <1>3, <1>5, <1>6, <1>8, ReadEntry DEF CountUnread
<1>9. CASE SelectList
  BY <1>1, <1>4, <1>5, <1>6, <1>9, ReadEntry DEF SelectList
<1>10. CASE BadgeArrives
  BY <1>1, <1>3, <1>10, EntrySteps DEF BadgeArrives
<1>11. CASE ListArrives
  BY <1>1, <1>4, <1>11, EntrySteps DEF ListArrives
<1>12. CASE Lost
  <2>1. CASE badge' = Fail(badge) /\ UNCHANGED list
    BY <1>1, <1>3, <1>12, <2>1, EntrySteps DEF Lost
  <2>2. CASE list' = Fail(list) /\ UNCHANGED badge
    BY <1>1, <1>4, <1>12, <2>2, EntrySteps DEF Lost
  <2>3. QED
    BY <1>12, <2>1, <2>2 DEF Lost
<1>13. CASE Toggle
  <2>1. open' \in BOOLEAN /\ badge' = badge
    BY <1>1, <1>13 DEF Toggle
  <2>2. CASE open
    BY <1>1, <1>4, <1>13, <2>1, <2>2 DEF Toggle
  <2>3. CASE ~open
    <3>1. PICK old \in BOOLEAN : list' = Mount(list, old)
      BY <1>13, <2>3 DEF Toggle
    <3>2. QED
      BY <1>1, <1>4, <2>1, <3>1, EntrySteps
  <2>4. QED
    BY <2>2, <2>3
<1>14. QED
  BY <1>7, <1>8, <1>9, <1>10, <1>11, <1>12, <1>13

-----------------------------------------------------------------------------
(* Comments and their notices. *)

LEMMA PostsTyped ==
    ASSUME BellInv, NEW p \in Post, post[p].phase \in {"telling", "wanted"}
    PROVE  post[p] \in [phase : {"telling", "wanted"}, mine : BOOLEAN, to : SUBSET {Me},
                        muted : BOOLEAN]
BY DEF BellInv, ServerTypes, PostState, NoPost

\* A post moves on; nothing else on the server does.
LEMMA PostMoves ==
    ASSUME BellInv, NEW p \in Post, NEW h \in PostState, post' = [post EXCEPT ![p] = h],
           h.phase = "telling" => (h.muted => ~setting[Me]),
           h.phase = "wanted" => ~h.muted,
           UNCHANGED <<setting, offTold, notices>>
    PROVE  ServerTypes' /\ MuteInv'
<1>1. post'[p] = h /\ \A q \in Post \ {p} : post'[q] = post[q]
  BY DEF BellInv, ServerTypes
<1>2. ServerTypes'
  BY DEF BellInv, ServerTypes
<1>3. MuteInv'
  BY <1>1 DEF BellInv, MuteInv, MutedStaysQuiet
<1>4. QED
  BY <1>2, <1>3

\* A sequence with one more element.
LEMMA OneMore ==
    ASSUME NEW S, NEW s \in Seq(S), NEW x \in S
    PROVE  /\ Append(s, x) \in Seq(S)
           /\ DOMAIN Append(s, x) = 1 .. Len(Append(s, x)) /\ Len(Append(s, x)) \in Nat
           /\ DOMAIN Append(s, x) = DOMAIN s \cup {Len(s) + 1}
           /\ \A n \in DOMAIN s : Append(s, x)[n] = s[n]
           /\ Append(s, x)[Len(s) + 1] = x
OBVIOUS

LEMMA Comments ==
    ASSUME BellInv, NEW p \in Post,
           (\E u \in User : Comment(p, u)) \/ LookUp(p) \/ Tell(p) \/ Posted(p)
    PROVE  BellInv'
<1>1. SettingsTypes' /\ setting' = setting /\ offTold' = offTold
  BY DEF BellInv, SettingsTypes, Comment, LookUp, Tell, Posted, settings
<1>2. ASSUME NEW u \in User, Comment(p, u) PROVE BellInv'
  <2>1. PICK to \in {{}, Recipients(u) \cap {Me}} :
          post' = [post EXCEPT ![p] = [phase |-> "telling", mine |-> u = Me, to |-> to,
                                 muted |-> offTold]]
    BY <1>2 DEF Comment
  <2>2. [phase |-> "telling", mine |-> u = Me, to |-> to, muted |-> offTold] \in PostState
    BY DEF PostState, BellInv, ServerTypes
  <2>3. ServerTypes' /\ MuteInv'
    BY <1>2, <2>1, <2>2, PostMoves DEF Comment, BellInv, MuteInv
  <2>4. QED
    BY <1>1, <1>2, <2>3, BellStands DEF Comment
<1>3. CASE LookUp(p)
  <2>1. post[p].phase = "telling" /\ UNCHANGED <<notices, bell>>
    BY <1>3 DEF LookUp
  <2>2. post[p].muted => ~setting[Me]
    BY <2>1 DEF BellInv, MuteInv
  <2>3. PICK h : /\ post' = [post EXCEPT ![p] = h]
                 /\ h \in PostState
                 /\ h.phase = "telling" => (h.muted => ~setting[Me])
                 /\ h.phase = "wanted" => ~h.muted
    <3>1. CASE Wants(p, Me) /\ post' = [post EXCEPT ![p].phase = "wanted"]
      <4>1. [post[p] EXCEPT !.phase = "wanted"] \in PostState
        BY <2>1, PostsTyped DEF PostState
      <4>2. /\ [post[p] EXCEPT !.phase = "wanted"].phase = "wanted"
            /\ [post[p] EXCEPT !.phase = "wanted"].muted = post[p].muted
        BY <2>1, PostsTyped
      <4>3. QED
        BY <2>2, <3>1, <4>1, <4>2 DEF Wants
    <3>2. CASE post' = [post EXCEPT ![p].to = @ \ {Me}]
      <4>1. [post[p] EXCEPT !.to = @ \ {Me}] \in PostState
        BY <2>1, PostsTyped DEF PostState
      <4>2. /\ [post[p] EXCEPT !.to = @ \ {Me}].phase = "telling"
            /\ [post[p] EXCEPT !.to = @ \ {Me}].muted = post[p].muted
        BY <2>1, PostsTyped
      <4>3. QED
        BY <2>2, <3>2, <4>1, <4>2
    <3>3. CASE post' = [post EXCEPT ![p].phase = "wanted", ![p].muted = FALSE]
      <4> DEFINE h == [post[p] EXCEPT !.phase = "wanted", !.muted = FALSE]
      <4>1. h \in PostState /\ h.phase = "wanted" /\ h.muted = FALSE
        BY <2>1, PostsTyped DEF PostState
      <4>2. post' = [post EXCEPT ![p] = h]
        BY <3>3 DEF BellInv, ServerTypes
      <4>3. QED
        BY <4>1, <4>2
    <3>4. QED
      BY <1>3, <3>1, <3>2, <3>3 DEF LookUp
  <2>4. ServerTypes' /\ MuteInv'
    BY <1>1, <2>1, <2>3, PostMoves
  <2>5. QED
    BY <1>1, <2>1, <2>4, BellStands
<1>4. CASE Tell(p)
  <2> DEFINE h == [post[p] EXCEPT !.phase = "telling", !.to = @ \ {Me}]
  <2>1. post[p].phase = "wanted" /\ ~post[p].muted /\ UNCHANGED bell
    BY <1>4 DEF Tell, BellInv, MuteInv
  <2>2. h \in PostState /\ h.phase = "telling" /\ ~h.muted
    BY <2>1, PostsTyped DEF PostState
  <2>3. post' = [post EXCEPT ![p] = h]
    BY <1>4 DEF Tell, BellInv, ServerTypes
  <2> HIDE DEF h
  <2>4. CASE UNCHANGED notices
    <3>1. ServerTypes' /\ MuteInv'
      BY <1>1, <2>2, <2>3, <2>4, PostMoves
    <3>2. QED
      BY <1>1, <2>1, <2>4, <3>1, BellStands
  <2>5. CASE notices' = Append(notices, [is_read |-> FALSE, unwanted |-> post[p].muted])
    <3>1. post[p].muted = FALSE
      BY <2>1, PostsTyped
    <3>2. [is_read |-> FALSE, unwanted |-> FALSE] \in NoticeRow
      BY DEF NoticeRow
    <3>3. /\ notices' \in Seq(NoticeRow)
          /\ DOMAIN notices' = 1 .. Len(notices') /\ Len(notices') \in Nat
          /\ DOMAIN notices' = DOMAIN notices \cup {Len(notices) + 1}
          /\ \A n \in DOMAIN notices : notices'[n] = notices[n]
          /\ notices'[Len(notices) + 1] = [is_read |-> FALSE, unwanted |-> FALSE]
      <4>1. /\ notices' = Append(notices, [is_read |-> FALSE, unwanted |-> FALSE])
            /\ notices \in Seq(NoticeRow)
        BY <2>5, <3>1 DEF BellInv, ServerTypes
      <4>2. QED
        BY <3>2, <4>1, OneMore
    <3>4. ServerTypes'
      BY <1>1, <2>2, <2>3, <3>3 DEF BellInv, ServerTypes
    <3>5. MuteInv'
      <4>1. post'[p] = h /\ \A q \in Post \ {p} : post'[q] = post[q]
        BY <2>3 DEF BellInv, ServerTypes
      <4>2. MutedStaysQuiet'
        <5>1. ASSUME NEW n \in DOMAIN notices' PROVE ~notices'[n].unwanted
          <6>1. CASE n \in DOMAIN notices
            BY <3>3, <6>1 DEF BellInv, MuteInv, MutedStaysQuiet
          <6>2. CASE n = Len(notices) + 1
            BY <3>3, <6>2
          <6>3. QED
            BY <3>3, <6>1, <6>2
        <5>2. QED
          BY <5>1 DEF MutedStaysQuiet
      <4>3. QED
        BY <1>1, <2>2, <4>1, <4>2 DEF BellInv, MuteInv
    <3>6. MarkInv'
      BY <2>1, <3>3 DEF BellInv, MarkInv, AreRead, bell
    <3>7. ShownInv'
      <4>1. GoodCounts \subseteq GoodCounts'
        <5>1. IsFiniteSet(DOMAIN notices')
          BY <3>3, FS_Interval
        <5>2. DOMAIN notices \ readTold \subseteq DOMAIN notices' \ readTold'
          BY <2>1, <3>3 DEF bell
        <5>3. Cardinality(DOMAIN notices \ readTold) <= Cardinality(DOMAIN notices' \ readTold')
              /\ Cardinality(DOMAIN notices \ readTold) \in Nat
              /\ Cardinality(DOMAIN notices' \ readTold') \in Nat
          BY <5>1, <5>2, FS_Subset, FS_Difference, FS_CardinalityType
        <5>4. QED
          BY <5>3 DEF GoodCounts
      <4>2. GoodLists' = GoodLists /\ Calm' = Calm /\ badge' = badge /\ list' = list
        BY <2>1 DEF bell, GoodLists, Calm
      <4>3. QED
        BY <4>1, <4>2 DEF BellInv, ShownInv, GoodIn
    <3>8. BellTypes'
      BY <2>1 DEF BellInv, BellTypes, bell
    <3>9. QED
      BY <1>1, <3>4, <3>5, <3>6, <3>7, <3>8 DEF BellInv
  <2>6. QED
    BY <1>4, <2>4, <2>5 DEF Tell
<1>5. CASE Posted(p)
  <2>1. /\ post' = [post EXCEPT ![p] = [phase |-> "over"]]
        /\ UNCHANGED <<setting, offTold, notices, open, mark, readTold, settings>>
    BY <1>5 DEF Posted
  <2>2. [phase |-> "over"] \in PostState
    BY DEF PostState
  <2>3. ServerTypes' /\ MuteInv'
    BY <2>1, <2>2, PostMoves
  <2>4. MarkInv' /\ Calm' = Calm /\ GoodCounts' = GoodCounts /\ GoodLists' = GoodLists
    BY <2>1 DEF BellInv, MarkInv, AreRead, Calm, GoodCounts, GoodLists
  <2>5. IsEntry(badge, Nat) /\ IsEntry(list, NoticeList) /\ open \in BOOLEAN
    BY DEF BellInv, BellTypes
  <2>6. BellTypes' /\ ShownInv'
    <3>1. CASE post[p].mine
      <4>1. badge' = Invalidate(badge, TRUE) /\ list' = Invalidate(list, open)
        BY <1>5, <3>1 DEF Posted
      <4>2. /\ IsEntry(badge', Nat) /\ IsEntry(list', NoticeList)
            /\ GoodIn(badge', GoodCounts) /\ GoodIn(list', GoodLists)
        BY <2>5, <4>1, InvalidatedEntry
      <4>3. QED
        BY <2>1, <2>4, <4>2 DEF BellInv, BellTypes, ShownInv
    <3>2. CASE ~post[p].mine
      <4>1. badge' = badge /\ list' = list
        BY <1>5, <3>2 DEF Posted
      <4>2. QED
        BY <2>1, <2>4, <4>1 DEF BellInv, BellTypes, ShownInv
    <3>3. QED
      BY <3>1, <3>2
  <2>7. QED
    BY <1>1, <2>3, <2>4, <2>6 DEF BellInv
<1>6. QED
  BY <1>2, <1>3, <1>4, <1>5

-----------------------------------------------------------------------------
(* Marks. *)

\* While a mark is under way, the entries may show anything.
LEMMA MarkBegins ==
    ASSUME BellInv, NEW m \in Mark, NEW all \in BOOLEAN, NEW id \in Nat,
           ~all => id \in DOMAIN notices,
           NEW b, NEW l, IsEntry(b, Nat), IsEntry(l, NoticeList), Remember(m, all, id, b, l),
           IsEntry(badge', Nat), IsEntry(list', NoticeList), open' \in BOOLEAN,
           UNCHANGED <<server, readTold, settings>>
    PROVE  BellInv'
<1> DEFINE h == [phase |-> "sent", all |-> all, id |-> id, read |-> {},
                 badge |-> b.data, list |-> l.data]
<1>1. mark' = [mark EXCEPT ![m] = h]
  BY DEF Remember
<1>2. h \in MarkState
  BY DEF MarkState, IsEntry, CacheEntries
<1>3. h # NoMark /\ h.phase = "sent" /\ h.all = all /\ h.id = id
  BY DEF NoMark
<1> HIDE DEF h
<1>4. mark'[m] = h /\ \A k \in Mark \ {m} : mark'[k] = mark[k]
  BY <1>1 DEF BellInv, BellTypes
<1>5. BellTypes'
  BY <1>1, <1>2 DEF BellInv, BellTypes
<1>6. ServerTypes' /\ MuteInv' /\ SettingsTypes'
  BY DEF BellInv, ServerTypes, MuteInv, MutedStaysQuiet, SettingsTypes, server, settings
<1>7. MarkInv'
  BY <1>3, <1>4 DEF BellInv, MarkInv, AreRead, server
<1>8. ~Calm'
  BY <1>3, <1>4 DEF Calm
<1>9. QED
  BY <1>5, <1>6, <1>7, <1>8 DEF BellInv, ShownInv

LEMMA Marks ==
    ASSUME BellInv, NEW m \in Mark,
           (\E n \in DOMAIN notices : OpenItem(m, n)) \/ MarkAll(m)
    PROVE  BellInv'
<1>1. UNCHANGED <<server, readTold, settings>>
  BY DEF OpenItem, MarkAll
<1>2. IsEntry(badge, Nat) /\ IsEntry(list, NoticeList)
  BY DEF BellInv, BellTypes
<1> DEFINE b == Cancel(badge)
           l == Cancel(list)
<1>3. IsEntry(b, Nat) /\ IsEntry(l, NoticeList)
  BY <1>2, CancelledEntry
<1>4. Loaded(b) => Value(b) \in Nat
  BY <1>3, ValueOfEntry
<1>5. Loaded(l) => Value(l) \in NoticeList
  BY <1>3, ValueOfEntry
<1> HIDE DEF b, l
<1>6. ASSUME NEW n \in DOMAIN notices, OpenItem(m, n) PROVE BellInv'
  <2>1. open' \in BOOLEAN /\ n \in Nat
    <3>1. open' = FALSE
      BY <1>6 DEF OpenItem
    <3>2. DOMAIN notices \subseteq Nat
      BY DEF BellInv, ServerTypes
    <3>3. QED
      BY <3>1, <3>2
  <2>2. CASE Value(list)[n]
    <3>1. UNCHANGED <<badge, list, mark>>
      BY <1>6, <2>2 DEF OpenItem
    <3>2. Calm => GoodIn(badge', GoodCounts) /\ GoodIn(list', GoodLists)
      BY <3>1 DEF BellInv, ShownInv
    <3>3. QED
      BY <1>1, <1>2, <2>1, <3>1, <3>2, EntriesChange
  <2>3. CASE ~Value(list)[n]
    <3>1. /\ Remember(m, FALSE, n, b, l)
          /\ badge' = IF Loaded(b)
                      THEN Write(b, IF Value(b) = 0 THEN 0 ELSE Value(b) - 1) ELSE b
          /\ list' = IF Loaded(l) /\ n \in DOMAIN Value(l) /\ ~Value(l)[n]
                     THEN Write(l, [Value(l) EXCEPT ![n] = TRUE]) ELSE l
      BY <1>6, <2>3 DEF OpenItem, b, l
    <3>2. IsEntry(badge', Nat)
      <4>1. CASE Loaded(b)
        <5>1. (IF Value(b) = 0 THEN 0 ELSE Value(b) - 1) \in Nat
          BY <1>4, <4>1
        <5>2. QED
          BY <1>3, <3>1, <4>1, <5>1, WrittenEntry
      <4>2. CASE ~Loaded(b)
        BY <1>3, <3>1, <4>2
      <4>3. QED
        BY <4>1, <4>2
    <3>3. IsEntry(list', NoticeList)
      <4>1. CASE Loaded(l) /\ n \in DOMAIN Value(l) /\ ~Value(l)[n]
        <5>1. [Value(l) EXCEPT ![n] = TRUE] \in NoticeList
          BY <1>5, <4>1 DEF NoticeList
        <5>2. QED
          BY <1>3, <3>1, <4>1, <5>1, WrittenEntry
      <4>2. CASE ~(Loaded(l) /\ n \in DOMAIN Value(l) /\ ~Value(l)[n])
        BY <1>3, <3>1, <4>2
      <4>3. QED
        BY <4>1, <4>2
    <3>4. QED
      BY <1>1, <1>3, <2>1, <3>1, <3>2, <3>3, MarkBegins
  <2>4. QED
    BY <2>2, <2>3
<1>7. CASE MarkAll(m)
  <2>1. /\ Remember(m, TRUE, 0, b, l)
        /\ badge' = Write(b, 0)
        /\ list' = IF Loaded(l) THEN Write(l, [n \in DOMAIN Value(l) |-> TRUE]) ELSE l
        /\ open' = open
    BY <1>7 DEF MarkAll, b, l
  <2>2. IsEntry(badge', Nat)
    BY <1>3, <2>1, WrittenEntry
  <2>3. IsEntry(list', NoticeList)
    <3>1. CASE Loaded(l)
      <4>1. [n \in DOMAIN Value(l) |-> TRUE] \in NoticeList
        BY <1>5, <3>1 DEF NoticeList
      <4>2. QED
        BY <1>3, <2>1, <3>1, <4>1, WrittenEntry
    <3>2. CASE ~Loaded(l)
      BY <1>3, <2>1, <3>2
    <3>3. QED
      BY <3>1, <3>2
  <2>4. open' \in BOOLEAN
    BY <2>1 DEF BellInv, BellTypes
  <2>5. QED
    BY <1>1, <1>3, <2>1, <2>2, <2>3, <2>4, MarkBegins
<1>8. QED
  BY <1>6, <1>7

LEMMA MarksTyped ==
    ASSUME BellInv, NEW m \in Mark, mark[m].phase \in {"sent", "done", "failed"}
    PROVE  /\ mark[m] \in [phase : {"sent", "done", "failed"}, all : BOOLEAN, id : Nat,
                           read : SUBSET Nat, badge : SUBSET Nat, list : SUBSET NoticeList]
           /\ mark[m] # NoMark
BY DEF BellInv, BellTypes, MarkState, NoMark

\* A mark is sent off, or refused: notices are only ever marked read.
LEMMA MarksReach ==
    ASSUME BellInv, NEW m \in Mark, Reach(m) \/ Refused(m)
    PROVE  BellInv'
<1>1. mark[m].phase = "sent" /\ UNCHANGED <<setting, post, offTold, badge, list, open,
                                           readTold, settings>>
  BY DEF Reach, Refused, server
<1>2. /\ notices' \in Seq(NoticeRow) /\ DOMAIN notices' = DOMAIN notices
      /\ \A n \in DOMAIN notices : /\ notices'[n].unwanted = notices[n].unwanted
                                   /\ notices[n].is_read => notices'[n].is_read
  <2>1. CASE notices' = notices
    BY <2>1 DEF BellInv, ServerTypes
  <2>2. CASE Reach(m)
    <3> DEFINE ids == IF mark[m].all THEN Unread ELSE {mark[m].id}
    <3>1. notices' = [n \in DOMAIN notices |-> [notices[n] EXCEPT !.is_read = @ \/ n \in ids]]
      BY <2>2 DEF Reach
    <3> HIDE DEF ids
    <3>2. notices \in Seq(NoticeRow)
      BY DEF BellInv, ServerTypes
    <3>3. DOMAIN notices = 1 .. Len(notices) /\ Len(notices) \in Nat
      BY <3>2
    <3>4. ASSUME NEW n \in DOMAIN notices
          PROVE  /\ notices'[n] \in NoticeRow /\ notices'[n].unwanted = notices[n].unwanted
                 /\ notices[n].is_read => notices'[n].is_read
      <4>1. notices[n] \in NoticeRow
        BY <3>2
      <4>2. notices'[n] = [notices[n] EXCEPT !.is_read = notices[n].is_read \/ n \in ids]
        BY <3>1
      <4>3. (notices[n].is_read \/ n \in ids) \in BOOLEAN
        OBVIOUS
      <4>4. QED
        BY <4>1, <4>2, <4>3 DEF NoticeRow
    <3>5. notices' \in [1 .. Len(notices) -> NoticeRow]
      BY <3>1, <3>3, <3>4
    <3>6. notices' \in Seq(NoticeRow)
      BY <3>3, <3>5
    <3>7. QED
      BY <3>1, <3>4, <3>6
  <2>3. QED
    BY <2>1, <2>2 DEF Refused, server
<1>3. PICK h : /\ mark' = [mark EXCEPT ![m] = h] /\ h \in MarkState
               /\ h.phase \in {"done", "failed"}
               /\ h.phase = "done" => h.read \subseteq DOMAIN notices
                                      /\ \A n \in h.read : notices'[n].is_read
  <2>1. CASE mark' = [mark EXCEPT ![m].phase = "failed"]
    <3>1. /\ [mark[m] EXCEPT !.phase = "failed"] \in MarkState
          /\ [mark[m] EXCEPT !.phase = "failed"].phase = "failed"
      BY <1>1, MarksTyped DEF MarkState
    <3>2. QED
      BY <2>1, <3>1
  <2>2. ASSUME Reach(m), mark' # [mark EXCEPT ![m].phase = "failed"]
        PROVE  \E h : /\ mark' = [mark EXCEPT ![m] = h] /\ h \in MarkState
                      /\ h.phase \in {"done", "failed"}
                      /\ h.phase = "done" => h.read \subseteq DOMAIN notices
                                             /\ \A n \in h.read : notices'[n].is_read
    <3> DEFINE ids == IF mark[m].all THEN Unread ELSE {mark[m].id}
               h == [mark[m] EXCEPT !.phase = "done", !.read = ids]
    <3>1. /\ notices' = [n \in DOMAIN notices |-> [notices[n] EXCEPT !.is_read = @ \/ n \in ids]]
          /\ mark' = [mark EXCEPT ![m].phase = "done", ![m].read = ids]
      BY <2>2 DEF Reach
    <3>2. mark' = [mark EXCEPT ![m] = h]
      BY <3>1 DEF BellInv, BellTypes
    <3>3. ids \subseteq DOMAIN notices
      BY <1>1, MarksTyped DEF BellInv, MarkInv, Unread
    <3>4. DOMAIN notices \subseteq Nat
      BY DEF BellInv, ServerTypes
    <3>5. \A n \in ids : notices'[n].is_read
      <4> HIDE DEF ids
      <4>1. \A n \in ids : notices[n] \in NoticeRow
        BY <3>3 DEF BellInv, ServerTypes
      <4>2. \A n \in ids : notices'[n] = [notices[n] EXCEPT !.is_read = notices[n].is_read \/ n \in ids]
        BY <3>1, <3>3
      <4>3. QED
        BY <4>1, <4>2 DEF NoticeRow
    <3> HIDE DEF ids
    <3>6. h \in MarkState /\ h.phase = "done" /\ h.read = ids
      BY <1>1, <3>3, <3>4, MarksTyped DEF MarkState
    <3>7. QED
      BY <3>2, <3>3, <3>5, <3>6
  <2>3. QED
    BY <2>1, <2>2 DEF Refused
<1>4. mark'[m] = h /\ \A k \in Mark \ {m} : mark'[k] = mark[k]
  BY <1>3 DEF BellInv, BellTypes
<1>5. ~Calm'
  BY <1>3, <1>4 DEF Calm, NoMark
<1>6. ServerTypes' /\ MuteInv' /\ SettingsTypes'
  BY <1>1, <1>2 DEF BellInv, ServerTypes, MuteInv, MutedStaysQuiet, SettingsTypes, settings
<1>7. BellTypes'
  BY <1>1, <1>3 DEF BellInv, BellTypes
<1>8. MarkInv'
  <2>1. AreRead(readTold)'
    BY <1>1, <1>2 DEF BellInv, MarkInv, AreRead
  <2>2. ASSUME NEW k \in Mark
        PROVE  (/\ mark[k].phase = "done" => AreRead(mark[k].read)
                /\ mark[k].phase = "sent" /\ ~mark[k].all => mark[k].id \in DOMAIN notices)'
    <3>1. CASE k = m
      BY <1>2, <1>3, <1>4, <3>1 DEF AreRead
    <3>2. CASE k # m
      <4>1. mark'[k] = mark[k]
        BY <1>4, <3>2
      <4>2. /\ mark[k].phase = "done" => AreRead(mark[k].read)
            /\ mark[k].phase = "sent" /\ ~mark[k].all => mark[k].id \in DOMAIN notices
        BY DEF BellInv, MarkInv
      <4>3. QED
        BY <1>2, <4>1, <4>2 DEF AreRead
    <3>3. QED
      BY <3>1, <3>2
  <2>3. QED
    BY <2>1, <2>2 DEF MarkInv
<1>9. QED
  BY <1>5, <1>6, <1>7, <1>8 DEF BellInv, ShownInv

\* Whatever the cache was set back to, it is asked for again, or marked, or gone.
LEMMA MarksSettle ==
    ASSUME BellInv, NEW m \in Mark, Settle(m)
    PROVE  BellInv'
<1>1. mark[m].phase \in {"done", "failed"} /\ UNCHANGED <<server, open, settings>>
  BY DEF Settle
<1>2. mark[m].badge \subseteq Nat /\ mark[m].list \subseteq NoticeList
  BY <1>1, MarksTyped
<1>3. IsEntry(badge, Nat) /\ IsEntry(list, NoticeList) /\ open \in BOOLEAN
  BY DEF BellInv, BellTypes
<1>4. ASSUME NEW V, NEW c, IsEntry(c, V), NEW snapshot \in SUBSET V
      PROVE  IsEntry(Restored(c, snapshot), V)
  <2>1. CASE snapshot = {}
    BY <1>4, <2>1 DEF Restored
  <2>2. CASE snapshot # {}
    <3>1. (CHOOSE d \in snapshot : TRUE) \in V
      BY <2>2
    <3>2. QED
      BY <1>4, <2>2, <3>1, WrittenEntry DEF Restored
  <2>3. QED
    BY <2>1, <2>2
<1>5. ASSUME NEW V, NEW c, IsEntry(c, V), NEW inUse \in BOOLEAN, NEW G
      PROVE  IsEntry(Reconciled(c, inUse), V) /\ GoodIn(Reconciled(c, inUse), G)
  BY <1>5, EmptyEntry, InvalidatedEntry DEF Reconciled
<1>6. IsEntry(Restored(badge, mark[m].badge), Nat)
  BY <1>2, <1>3, <1>4
<1>7. IsEntry(Restored(list, mark[m].list), NoticeList)
  BY <1>2, <1>3, <1>4
<1>8. IsEntry(badge', Nat) /\ \A G : GoodIn(badge', G)
  <2>1. badge' \in {Empty,
                    Reconciled(Restored(badge, mark[m].badge), TRUE),
                    Reconciled(badge, TRUE)}
    BY DEF Settle
  <2>2. QED
    BY <1>3, <1>5, <1>6, <2>1, EmptyEntry
<1>9. IsEntry(list', NoticeList) /\ \A G : GoodIn(list', G)
  <2>1. list' \in {Reconciled(Restored(list, mark[m].list), open),
                   Reconciled(list, open)}
    BY DEF Settle
  <2>2. QED
    BY <1>3, <1>5, <1>7, <2>1
<1>10. mark' = [mark EXCEPT ![m] = NoMark] /\ NoMark \in MarkState /\ NoMark.phase = "none"
  BY DEF Settle, MarkState, NoMark
<1>11. BellTypes'
  BY <1>1, <1>8, <1>9, <1>10 DEF BellInv, BellTypes
<1>12. ServerTypes' /\ MuteInv' /\ SettingsTypes'
  BY <1>1 DEF BellInv, ServerTypes, MuteInv, MutedStaysQuiet, SettingsTypes, server, settings
<1>13. MarkInv'
  <2>1. AreRead(readTold)'
    <3>1. AreRead(readTold) /\ (mark[m].phase = "done" => AreRead(mark[m].read))
      BY DEF BellInv, MarkInv
    <3>2. readTold' = IF mark[m].phase = "done" THEN readTold \cup mark[m].read ELSE readTold
      BY DEF Settle
    <3>3. notices' = notices
      BY <1>1 DEF server
    <3>4. QED
      BY <3>1, <3>2, <3>3 DEF AreRead
  <2>2. \A k \in Mark : mark'[k] = mark[k] \/ mark'[k].phase = "none"
    BY <1>10 DEF BellInv, BellTypes
  <2>3. QED
    BY <1>1, <2>1, <2>2 DEF BellInv, MarkInv, AreRead, server
<1>14. ShownInv'
  BY <1>8, <1>9 DEF ShownInv
<1>15. QED
  BY <1>11, <1>12, <1>13, <1>14 DEF BellInv

-----------------------------------------------------------------------------
(* The settings page. *)

LEMMA SeededForm ==
    ASSUME NEW f \in FormState, NEW c, IsEntry(c, BOOLEAN)
    PROVE  Seeded(f, c) \in FormState /\ Seeded(f, c).shown = f.shown
<1>1. CASE f.shown /\ Loaded(c) /\ f.from # {Value(c)}
  <2>1. Value(c) \in BOOLEAN
    BY <1>1, ValueOfEntry
  <2>2. Seeded(f, c) = [shown |-> TRUE, on |-> Value(c), initial |-> Value(c),
                       from |-> {Value(c)}]
    BY <1>1 DEF Seeded
  <2>3. f.shown = TRUE
    BY <1>1 DEF FormState, NoForm
  <2>4. Seeded(f, c) \in [shown : {TRUE}, on : BOOLEAN, initial : BOOLEAN, from : SUBSET BOOLEAN]
    BY <2>1, <2>2
  <2>5. Seeded(f, c).shown = TRUE
    BY <2>2
  <2>6. QED
    BY <2>3, <2>4, <2>5 DEF FormState
<1>2. CASE ~(f.shown /\ Loaded(c) /\ f.from # {Value(c)})
  BY <1>2 DEF Seeded
<1>3. QED
  BY <1>1, <1>2

\* Forms and saves by their fields.
LEMMA FormFields ==
    ASSUME NEW f \in FormState
    PROVE  /\ f.shown \in BOOLEAN
           /\ f.shown => f \in [shown : {TRUE}, on : BOOLEAN, initial : BOOLEAN, from : SUBSET BOOLEAN]
           /\ ~f.shown => f = NoForm
<1>1. CASE f = NoForm
  BY <1>1 DEF NoForm
<1>2. CASE f \in [shown : {TRUE}, on : BOOLEAN, initial : BOOLEAN, from : SUBSET BOOLEAN]
  <2>1. f.shown = TRUE
    BY <1>2
  <2>2. QED
    BY <1>2, <2>1
<1>3. QED
  BY <1>1, <1>2 DEF FormState

LEMMA SaveFields ==
    ASSUME NEW s \in SaveState, s # NoSave
    PROVE  s \in [phase : {"sent", "written", "done"}, on : BOOLEAN, heard : BOOLEAN]
BY DEF SaveState

LEMMA Settings ==
    ASSUME BellInv,
           \/ OpenSettings \/ CloseSettings \/ Switch \/ HandleSave \/ ReadBack
           \/ SaveFails \/ ReadProfile \/ ProfileArrives
    PROVE  BellInv'
<1> SUFFICES SettingsTypes'
  BY SettingsChange
     DEF OpenSettings, CloseSettings, Switch, HandleSave,
         ReadBack, SaveFails, ReadProfile,
         ProfileArrives
<1>1. /\ IsEntry(profile, BOOLEAN) /\ form \in FormState /\ save \in SaveState
      /\ save # NoSave => (save.heard => form.shown)
      /\ setting[Me] \in BOOLEAN
  BY BellAssumption DEF BellInv, SettingsTypes, ServerTypes
<1>2. CASE OpenSettings
  <2> DEFINE f == [shown |-> TRUE, on |-> TRUE, initial |-> TRUE, from |-> {}]
  <2>1. f \in FormState /\ f.shown
    BY DEF FormState
  <2>2. form' = Seeded(f, profile) /\ save' = save
    BY <1>2 DEF OpenSettings
  <2> HIDE DEF f
  <2>3. form' \in FormState /\ form'.shown
    BY <1>1, <2>1, <2>2, SeededForm
  <2>4. IsEntry(profile', BOOLEAN)
    <3>1. PICK old \in BOOLEAN : profile' = Mount(profile, old)
      BY <1>2 DEF OpenSettings
    <3>2. QED
      BY <1>1, <3>1, EntrySteps
  <2>5. QED
    BY <1>1, <2>2, <2>3, <2>4 DEF SettingsTypes
<1>3. CASE CloseSettings
  <2>1. form' = NoForm /\ profile' = profile /\ NoForm \in FormState
    BY <1>3 DEF CloseSettings, FormState
  <2>2. save' \in SaveState /\ (save' # NoSave => ~save'.heard)
    <3>1. CASE save = NoSave
      BY <1>1, <1>3, <3>1 DEF CloseSettings
    <3>2. CASE save # NoSave
      <4>1. save' = [save EXCEPT !.heard = FALSE]
        BY <1>3, <3>2 DEF CloseSettings
      <4>2. QED
        BY <1>1, <3>2, <4>1, SaveFields DEF SaveState
    <3>3. QED
      BY <3>1, <3>2
  <2>3. QED
    BY <1>1, <2>1, <2>2 DEF SettingsTypes
<1>4. CASE Switch
  <2>1. form' = [form EXCEPT !.on = ~@] /\ form.shown /\ save' = save /\ profile' = profile
    BY <1>4 DEF Switch
  <2>2. form' \in FormState /\ form'.shown
    BY <1>1, <2>1, FormFields DEF FormState
  <2>3. QED
    BY <1>1, <2>1, <2>2 DEF SettingsTypes
<1>5. CASE HandleSave
  <2>1. /\ save' = [phase |-> "sent", on |-> form.on, heard |-> TRUE]
        /\ form.shown /\ form' = form /\ profile' = profile
    BY <1>5 DEF HandleSave
  <2>2. save' \in SaveState
    BY <1>1, <2>1, FormFields DEF SaveState
  <2>3. QED
    BY <1>1, <2>1, <2>2 DEF SettingsTypes
<1>6. CASE ReadBack
  <2>1. /\ save.phase = "written" /\ save' = [save EXCEPT !.phase = "done", !.on = setting[Me]]
        /\ form' = form /\ profile' = profile
    BY <1>6 DEF ReadBack
  <2>2. save # NoSave
    BY <2>1 DEF NoSave
  <2>3. save' \in SaveState /\ save'.heard = save.heard
    BY <1>1, <2>1, <2>2, SaveFields DEF SaveState
  <2>4. QED
    BY <1>1, <2>1, <2>2, <2>3 DEF SettingsTypes
<1>7. CASE SaveFails
  BY <1>1, <1>7 DEF SaveFails, SettingsTypes, SaveState
<1>8. CASE ReadProfile
  <2>1. IsEntry(profile', BOOLEAN)
    BY <1>1, <1>8, ReadEntry DEF ReadProfile
  <2>2. QED
    BY <1>1, <1>8, <2>1 DEF ReadProfile, SettingsTypes
<1>9. CASE ProfileArrives
  <2>1. profile' = Arrive(profile) /\ save' = save
    BY <1>9 DEF ProfileArrives
  <2>2. IsEntry(profile', BOOLEAN)
    BY <1>1, <2>1, EntrySteps
  <2>3. form' = Seeded(form, profile')
    BY <1>9 DEF ProfileArrives
  <2>4. form' \in FormState /\ form'.shown = form.shown
    BY <1>1, <2>2, <2>3, SeededForm
  <2>5. QED
    BY <1>1, <2>1, <2>2, <2>4 DEF SettingsTypes
<1>10. QED
  BY <1>2, <1>3, <1>4, <1>5, <1>6, <1>7, <1>8, <1>9

\* The switch is stored: whoever wants notices again is no longer muted.
LEMMA StoredSwitch ==
    ASSUME BellInv, NEW on \in BOOLEAN, Stored(on)
    PROVE  ServerTypes' /\ MuteInv' /\ notices' = notices
<1>1. /\ setting' = [setting EXCEPT ![Me] = on] /\ offTold' = FALSE /\ notices' = notices
      /\ \A p \in Post : post'[p] = IF on /\ post[p].phase \notin {"none", "over"}
                                    THEN [post[p] EXCEPT !.muted = FALSE] ELSE post[p]
      /\ DOMAIN post' = Post /\ post' = [p \in Post |-> post'[p]]
  BY DEF Stored
<1>2. setting' \in [User -> BOOLEAN] /\ setting'[Me] = on
  BY <1>1, BellAssumption DEF BellInv, ServerTypes
<1>3. ASSUME NEW p \in Post
      PROVE  /\ post'[p] \in PostState
             /\ post'[p].phase = "telling" => (post'[p].muted => ~on)
             /\ post'[p].phase = "wanted" => ~post'[p].muted
  <2>1. post[p] \in PostState /\ (post[p].phase = "wanted" => ~post[p].muted)
    BY DEF BellInv, ServerTypes, MuteInv
  <2>2. CASE on /\ post[p].phase \notin {"none", "over"}
    <3>1. post[p].phase \in {"telling", "wanted"}
      BY <2>1, <2>2 DEF PostState, NoPost
    <3>2. post'[p] = [post[p] EXCEPT !.muted = FALSE]
      BY <1>1, <2>2
    <3>3. post'[p] \in PostState /\ post'[p].muted = FALSE
      BY <3>1, <3>2, PostsTyped DEF PostState
    <3>4. QED
      BY <3>3
  <2>3. CASE ~(on /\ post[p].phase \notin {"none", "over"})
    <3>1. post'[p] = post[p]
      BY <1>1, <2>3
    <3>2. QED
      BY <2>1, <2>3, <3>1
  <2>4. QED
    BY <2>2, <2>3
<1>4. post' \in [Post -> PostState]
  BY <1>1, <1>3
<1>5. ServerTypes'
  BY <1>1, <1>2, <1>4 DEF BellInv, ServerTypes
<1>6. MuteInv'
  BY <1>1, <1>2, <1>3 DEF BellInv, MuteInv, MutedStaysQuiet
<1>7. QED
  BY <1>1, <1>5, <1>6

LEMMA Stores ==
    ASSUME BellInv, UpdatePreferences \/ SetElsewhere \/ Saved
    PROVE  BellInv'
<1>1. /\ IsEntry(profile, BOOLEAN) /\ form \in FormState /\ save \in SaveState
      /\ save # NoSave => (save.heard => form.shown)
      /\ setting[Me] \in BOOLEAN
  BY BellAssumption DEF BellInv, SettingsTypes, ServerTypes
<1>2. CASE SetElsewhere
  <2>1. (~setting[Me]) \in BOOLEAN
    OBVIOUS
  <2>2. ServerTypes' /\ MuteInv' /\ notices' = notices
    BY <1>2, <2>1, StoredSwitch DEF SetElsewhere
  <2>3. SettingsTypes' /\ UNCHANGED bell
    BY <1>2 DEF SetElsewhere, settings, BellInv, SettingsTypes
  <2>4. QED
    BY <2>2, <2>3, BellStands
<1>3. CASE UpdatePreferences
  <2>1. save.phase = "sent" /\ save' = [save EXCEPT !.phase = "written"] /\ Stored(save.on)
        /\ UNCHANGED <<bell, profile, form>>
    BY <1>3 DEF UpdatePreferences
  <2>2. save # NoSave
    BY <2>1 DEF NoSave
  <2>3. save.on \in BOOLEAN /\ save' \in SaveState /\ save'.heard = save.heard
    BY <1>1, <2>1, <2>2, SaveFields DEF SaveState
  <2>4. ServerTypes' /\ MuteInv' /\ notices' = notices
    BY <2>1, <2>3, StoredSwitch
  <2>5. SettingsTypes'
    BY <1>1, <2>1, <2>2, <2>3 DEF SettingsTypes
  <2>6. QED
    BY <2>1, <2>4, <2>5, BellStands
<1>4. CASE Saved
  <2>1. /\ save.phase = "done" /\ save' = NoSave /\ profile' = Invalidate(profile, TRUE)
        /\ form' = IF save.heard THEN [form EXCEPT !.on = save.on, !.initial = save.on] ELSE form
        /\ offTold' = (~save.on /\ ~setting[Me])
        /\ UNCHANGED <<setting, post, notices, bell>>
    BY <1>4 DEF Saved
  <2>2. save # NoSave
    BY <2>1 DEF NoSave
  <2>3. save.on \in BOOLEAN
    BY <1>1, <2>2, SaveFields
  <2>4. form' \in FormState
    <3>1. CASE save.heard
      <4>1. form.shown
        BY <1>1, <2>2, <3>1
      <4>2. form' = [form EXCEPT !.on = save.on, !.initial = save.on]
        BY <2>1, <3>1
      <4>3. QED
        BY <1>1, <2>3, <4>1, <4>2, FormFields DEF FormState
    <3>2. CASE ~save.heard
      BY <1>1, <2>1, <3>2
    <3>3. QED
      BY <3>1, <3>2
  <2>5. SettingsTypes'
    BY <1>1, <2>1, <2>4, InvalidatedEntry DEF SettingsTypes, SaveState
  <2>6. offTold' \in BOOLEAN /\ (offTold' => ~setting'[Me])
    BY <2>1
  <2>7. ServerTypes' /\ MuteInv'
    BY <2>1, <2>6 DEF BellInv, ServerTypes, MuteInv, MutedStaysQuiet
  <2>8. QED
    BY <2>1, <2>5, <2>7, BellStands
<1>5. QED
  BY <1>2, <1>3, <1>4

-----------------------------------------------------------------------------
(* The theorems. *)

LEMMA BellBegins == BellInit => BellInv
<1> SUFFICES ASSUME BellInit PROVE BellInv
  OBVIOUS
<1>1. IsEntry(badge, Nat) /\ IsEntry(list, NoticeList)
  BY EmptyEntry, EntrySteps DEF BellInit
<1>2. \A G : GoodIn(badge, G) /\ GoodIn(list, G)
  <2>1. \A G : GoodIn(Empty, G) /\ IsEntry(Empty, Nat)
    BY EmptyEntry
  <2>2. \A G : GoodIn(Ask(Empty), G)
    BY <2>1, EntrySteps
  <2>3. QED
    BY <2>1, <2>2 DEF BellInit
<1>3. IsEntry(profile, BOOLEAN)
  <2>1. IsEntry(Ask(Empty), BOOLEAN)
    BY EmptyEntry, EntrySteps
  <2>2. IsEntry(Read(Ask(Empty), TRUE, TRUE), BOOLEAN)
    BY <2>1, ReadEntry
  <2>3. QED
    BY <2>2, EntrySteps DEF BellInit
<1>4. notices = << >> /\ DOMAIN notices = {} /\ notices \in Seq(NoticeRow)
  BY DEF BellInit
<1>5. ServerTypes
  BY <1>4 DEF BellInit, ServerTypes, PostState
<1>6. BellTypes
  BY <1>1 DEF BellInit, BellTypes, MarkState
<1>7. SettingsTypes
  BY <1>3 DEF BellInit, SettingsTypes, FormState, SaveState
<1>8. MuteInv
  BY <1>4 DEF BellInit, MuteInv, MutedStaysQuiet, NoPost
<1>9. MarkInv
  BY <1>4 DEF BellInit, MarkInv, AreRead, NoMark
<1>10. ShownInv
  BY <1>2 DEF ShownInv
<1>11. QED
  BY <1>5, <1>6, <1>7, <1>8, <1>9, <1>10 DEF BellInv

LEMMA BellStays ==
    ASSUME BellInv, [BellNext]_bellVars
    PROVE  BellInv'
<1>1. CASE UNCHANGED bellVars
  <2>1. UNCHANGED <<server, bell, settings>>
    BY <1>1 DEF bellVars, server, bell, settings
  <2>2. SettingsTypes'
    BY <2>1 DEF BellInv, SettingsTypes, settings
  <2>3. QED
    BY <2>1, <2>2, SettingsChange
<1>2. CASE BellNext
  BY <1>2, Requests, Comments, Marks, MarksReach, MarksSettle, Settings, Stores DEF BellNext
<1>3. QED
  BY <1>1, <1>2

\* What bell, notices and settings are bound to hold, for any number of posts,
\* marks and clicks.
THEOREM BellInvariance == BellSpec => []BellInv
<1>1. QED
  BY BellBegins, BellStays, PTL DEF BellSpec

\* The type invariant of NoticeBell.
THEOREM BellTypeCorrect == BellSpec => []BellTypeOK
<1>1. BellInv => BellTypeOK
  <2> SUFFICES ASSUME BellInv PROVE BellTypeOK
    OBVIOUS
  <2>1. \A m \in Mark : mark[m].phase \in {"none", "sent", "done", "failed"}
    BY DEF BellInv, BellTypes, MarkState, NoMark
  <2>2. \A e \in {badge, list, profile} : e.fetch \in {"idle", "asked", "answered"}
    BY DEF BellInv, BellTypes, SettingsTypes, IsEntry, CacheEntries
  <2>3. form.shown => form.on \in BOOLEAN /\ form.initial \in BOOLEAN
    BY FormFields DEF BellInv, SettingsTypes
  <2>4. open \in BOOLEAN /\ offTold \in BOOLEAN
    BY DEF BellInv, BellTypes, ServerTypes
  <2>5. readTold \subseteq DOMAIN notices
    BY DEF BellInv, MarkInv, AreRead
  <2>6. QED
    BY <2>1, <2>2, <2>3, <2>4, <2>5 DEF BellTypeOK
<1>2. QED
  BY <1>1, BellInvariance, PTL

\* useMarkNotificationRead and useMarkAllNotificationsRead: what this tab was told is
\* read neither counts nor shows as unread once marks and requests are over, however
\* marks, rollbacks, polls and new notices overlap.
THEOREM MarksLast == BellSpec => []ReadStaysRead
<1>1. BellInv => ReadStaysRead
  <2> SUFFICES ASSUME BellInv, Quiet PROVE
          /\ Trusted(badge) => Value(badge) <= Cardinality(DOMAIN notices \ readTold)
          /\ Trusted(list) => \A n \in readTold \cap DOMAIN Value(list) : Value(list)[n]
    BY DEF ReadStaysRead
  <2>1. GoodIn(badge, GoodCounts) /\ GoodIn(list, GoodLists)
    BY DEF BellInv, ShownInv, Calm, Quiet
  <2>2. IsEntry(badge, Nat) /\ IsEntry(list, NoticeList)
    BY DEF BellInv, BellTypes
  <2>3. Trusted(badge) => Value(badge) \in GoodCounts
    BY <2>1, <2>2, ValueOfEntry DEF Trusted, GoodIn
  <2>4. Trusted(list) => Value(list) \in GoodLists
    BY <2>1, <2>2, ValueOfEntry DEF Trusted, GoodIn
  <2>5. QED
    BY <2>3, <2>4 DEF GoodCounts, GoodLists
<1>2. QED
  BY <1>1, BellInvariance, PTL

\* safeCreate with the switch of the settings page: whoever was told that his notices
\* are off gets none of a comment posted later, however the posts' steps and changes
\* of the switch interleave, unless his setting could not be read.
THEOREM MutedIsMuted == BellSpec => []MutedStaysQuiet
<1>1. BellInv => MutedStaysQuiet
  BY DEF BellInv, MuteInv
<1>2. QED
  BY <1>1, BellInvariance, PTL
=============================================================================
