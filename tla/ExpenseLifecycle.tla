-------------------------- MODULE ExpenseLifecycle --------------------------
(***************************************************************************)
(* The expenses and audit_logs tables under concurrent HTTP requests.      *)
(*                                                                         *)
(* A request is one run of an Express handler.  Every `await` of the       *)
(* handler is a point where other requests run, so a handler is split into *)
(* one action per database round trip, and everything it decided before    *)
(* the round trip is decided on the row it read then (snap).  A stored     *)
(* procedure or an InnoDB transaction that locks the row with FOR UPDATE   *)
(* is one atomic action.  A request can be cut off at any await: by a      *)
(* failing statement, by a lost connection or by the process stopping.     *)
(*                                                                         *)
(* Receipt files are modelled in ReceiptStore.  Who manages whom is asked  *)
(* of Microsoft Graph, so Authorize accepts both answers.                  *)
(*                                                                         *)
(* A definition whose name ends in Unversioned, KeepingReason,             *)
(* IgnoringVersion, OwnVersion, Forgotten or begins with                  *)
(* LoadForAny or NoticeOfAny is a deliberately broken variant of the one   *)
(* after it and takes no part in Spec: each breaks one of the properties.  *)
(***************************************************************************)
EXTENDS Naturals, Sequences, FiniteSets

CONSTANTS Expense,      \* ids the AUTO_INCREMENT column can hand out
          User,         \* user ids
          Approver,     \* the users the MANAGER/ADMIN role gate lets through
          Request,      \* requests that can be in flight at once
          Content,      \* what an edit can change: title, amount, category...
          Nobody,       \* SQL NULL in a user column
          NoRow,        \* "no such row", the null findById returns
          NoContent,    \* a request body without any updatable field
          MaxRequests   \* bound: requests served in one behaviour

ASSUME BoundAssumption == MaxRequests \in Nat

VARIABLES expenses,   \* [Expense -> row or NoRow]
          auditLog,   \* the audit_logs table in insertion order
          notices,    \* rows of the notifications table, counted per expense and type
          req,        \* what each request handler holds in memory
          served,     \* requests started so far
          unlogged    \* ghost: writes whose handler ended before its audit row

vars == <<expenses, auditLog, notices, req, served, unlogged>>

Status == {"PENDING", "APPROVED", "REJECTED"}
Verdict == {"APPROVED", "REJECTED"}
Action == {"SUBMITTED", "RESUBMITTED", "APPROVED", "REJECTED", "UPDATED", "DELETED"}
NoticeType == {"SUBMITTED", "RESUBMITTED", "APPROVED", "REJECTED"}
Operation == {"create", "update", "resubmit", "delete", "APPROVED", "REJECTED"}
Phase == {"write", "authorize", "decide", "reread", "audit", "notify", "done"}
Answer == {"none", "ok", "notFound", "forbidden", "conflict", "error"}

Row == [owner : User, content : Content, status : Status, version : Nat,
        approver : User \cup {Nobody}, reason : BOOLEAN, deleted : BOOLEAN]

ASSUME SentinelAssumption ==
    /\ Nobody \notin User
    /\ NoContent \notin Content
    /\ NoRow \notin Row
    /\ Approver \subseteq User

AuditRow == [expense : Expense, action : Action, by : User, version : Nat]

Session == [op : Operation, actor : User, expense : Expense,
            body : Content \cup {NoContent}, snap : Row \cup {NoRow},
            phase : Phase, answer : Answer, wrote : BOOLEAN, logged : BOOLEAN]

Idle == [phase |-> "idle"]

Busy(r) == req[r].phase \notin {"idle", "done"}

-----------------------------------------------------------------------------
(* The models: what each round trip reads or writes. *)

Visible(e) == expenses[e] # NoRow /\ ~expenses[e].deleted

\* expenseModel.findById: soft-deleted rows are filtered out.
FindById(e) == IF Visible(e) THEN expenses[e] ELSE NoRow

\* An INSERT INTO audit_logs; only decisions carry version_after in details.
Log(e, action, by, version) ==
    auditLog' = Append(auditLog, [expense |-> e, action |-> action,
                                  by |-> by, version |-> version])

NewRow(u, c) == [owner |-> u, content |-> c, status |-> "PENDING", version |-> 1,
                 approver |-> Nobody, reason |-> FALSE, deleted |-> FALSE]

\* Only the fields present in the body are SET.
Applied(content, body) == IF body = NoContent THEN content ELSE body

EditedRowUnversioned(row, body) == [row EXCEPT !.content = Applied(@, body)]

EditedRow(row, body) ==
    [row EXCEPT !.content = Applied(@, body), !.version = @ + 1]

ResubmittedRowKeepingReason(row, body) ==
    [row EXCEPT !.content = Applied(@, body),
                !.status = "PENDING", !.approver = Nobody, !.version = @ + 1]

ResubmittedRow(row, body) ==
    [row EXCEPT !.content = Applied(@, body),
                !.status = "PENDING", !.approver = Nobody, !.reason = FALSE,
                !.version = @ + 1]

DeletedRowUnversioned(row) == [row EXCEPT !.deleted = TRUE]

DeletedRow(row) == [row EXCEPT !.deleted = TRUE, !.version = @ + 1]

DecidedRowUnversioned(row, u, verdict) ==
    [row EXCEPT !.status = verdict, !.approver = u,
                !.reason = IF verdict = "REJECTED" THEN TRUE ELSE @]

\* sp_approve_expense and sp_reject_expense
DecidedRow(row, u, verdict) ==
    [row EXCEPT !.status = verdict, !.approver = u, !.version = @ + 1,
                !.reason = IF verdict = "REJECTED" THEN TRUE ELSE @]

CurrentIgnoringVersion(e, status, version) ==
    Visible(e) /\ expenses[e].status = status

\* The WHERE clause, or the checks under FOR UPDATE, of every guarded write.
Current(e, status, version) ==
    /\ Visible(e)
    /\ expenses[e].status = status
    /\ expenses[e].version = version

-----------------------------------------------------------------------------
(* Handlers: entering, waiting for the next round trip, answering. *)

\* A request reaches its handler.  wrote and logged are ghosts: whether this
\* request committed a write, and whether that write has its audit row.
Enter(r, op, u, e, body, snap, phase, answer, done) ==
    /\ ~Busy(r)
    /\ served < MaxRequests
    /\ served' = served + 1
    /\ req' = [req EXCEPT ![r] =
                 [op |-> op, actor |-> u, expense |-> e, body |-> body, snap |-> snap,
                  phase |-> phase, answer |-> answer, wrote |-> done, logged |-> done]]

\* A handler that answers on the strength of its first read alone.
Turn(r, op, u, e, answer) ==
    Enter(r, op, u, e, NoContent, NoRow, "done", answer, FALSE)

At(r, op, phase) == Busy(r) /\ req[r].op = op /\ req[r].phase = phase

Await(r, phase, wrote, logged) ==
    req' = [req EXCEPT ![r].phase = phase, ![r].wrote = wrote, ![r].logged = logged]

\* The response is sent and the handler's memory is gone.
Respond(r, answer, wrote, logged) ==
    req' = [req EXCEPT ![r].phase = "done", ![r].answer = answer,
                       ![r].snap = NoRow, ![r].body = NoContent,
                       ![r].wrote = wrote, ![r].logged = logged]

Refuse(r, answer) ==
    /\ Respond(r, answer, FALSE, FALSE)
    /\ UNCHANGED <<expenses, auditLog, notices, served, unlogged>>

Init ==
    /\ expenses = [e \in Expense |-> NoRow]
    /\ auditLog = <<>>
    /\ notices = [e \in Expense |-> [t \in NoticeType |-> 0]]
    /\ req = [r \in Request |-> Idle]
    /\ served = 0
    /\ unlogged = [e \in Expense |-> 0]

\* createExpense: the row and its SUBMITTED entry commit in one transaction.
CreateExpense(r, u, e, c) ==
    /\ expenses[e] = NoRow
    /\ Enter(r, "create", u, e, NoContent, NoRow, "notify", "none", TRUE)
    /\ expenses' = [expenses EXCEPT ![e] = NewRow(u, c)]
    /\ Log(e, "SUBMITTED", u, 0)
    /\ UNCHANGED <<notices, unlogged>>

\* The status an expense must have for its owner to act on it.
Wanted(op) == IF op = "resubmit" THEN "REJECTED" ELSE "PENDING"

\* updateExpense, resubmitExpense and deleteExpense up to their write: findById,
\* then the owner and status checks on the row it returned.
LoadOwn(r, op, u, e, body) ==
    /\ \/ /\ ~Visible(e)
          /\ Turn(r, op, u, e, "notFound")
       \/ /\ Visible(e)
          /\ expenses[e].owner # u
          /\ Turn(r, op, u, e, "forbidden")
       \/ /\ Visible(e)
          /\ expenses[e].owner = u
          /\ expenses[e].status # Wanted(op)
          /\ Turn(r, op, u, e, "conflict")
       \/ /\ Visible(e)
          /\ expenses[e].owner = u
          /\ expenses[e].status = Wanted(op)
          /\ Enter(r, op, u, e, body, FindById(e), "write", "none", FALSE)
    /\ UNCHANGED <<expenses, auditLog, notices, unlogged>>

\* expenseModel.update: one guarded UPDATE, committed on its own.  The route's
\* schema requires a field to set, so the no-op branch is out of reach.
UpdateWrite(r) ==
    LET e == req[r].expense
    IN  /\ At(r, "update", "write")
        /\ \/ /\ Current(e, "PENDING", req[r].snap.version)
              /\ expenses' = [expenses EXCEPT ![e] = EditedRow(@, req[r].body)]
              /\ Await(r, "reread", TRUE, FALSE)
              /\ UNCHANGED <<auditLog, notices, served, unlogged>>
           \/ /\ ~Current(e, "PENDING", req[r].snap.version)
              /\ Refuse(r, "conflict")

UpdateRereadOwnVersion(r) ==
    LET e == req[r].expense
    IN  /\ At(r, "update", "reread")
        /\ \/ /\ Visible(e)
              /\ expenses[e].version = req[r].snap.version + 1
              /\ Await(r, "audit", TRUE, FALSE)
              /\ UNCHANGED unlogged
           \/ /\ ~Visible(e) \/ expenses[e].version # req[r].snap.version + 1
              /\ Respond(r, "conflict", TRUE, FALSE)
              /\ unlogged' = [unlogged EXCEPT ![e] = @ + 1]
        /\ UNCHANGED <<expenses, auditLog, notices, served>>

\* The re-read after the UPDATE.  A row deleted meanwhile reads as null, which
\* the handler takes for a conflict: it answers 409 and writes no audit row.
UpdateReread(r) ==
    LET e == req[r].expense
    IN  /\ At(r, "update", "reread")
        /\ \/ /\ Visible(e)
              /\ Await(r, "audit", TRUE, FALSE)
              /\ UNCHANGED unlogged
           \/ /\ ~Visible(e)
              /\ Respond(r, "conflict", TRUE, FALSE)
              /\ unlogged' = [unlogged EXCEPT ![e] = @ + 1]
        /\ UNCHANGED <<expenses, auditLog, notices, served>>

UpdateAuditForgotten(r) ==
    /\ At(r, "update", "audit")
    /\ Respond(r, "ok", TRUE, TRUE)
    /\ UNCHANGED <<expenses, auditLog, notices, served, unlogged>>

\* auditLogModel.create, on a connection of its own.
UpdateAudit(r) ==
    /\ At(r, "update", "audit")
    /\ Log(req[r].expense, "UPDATED", req[r].actor, 0)
    /\ Respond(r, "ok", TRUE, TRUE)
    /\ UNCHANGED <<expenses, notices, served, unlogged>>

\* expenseModel.resubmit: checks and UPDATE under the row lock.
ResubmitWrite(r) ==
    LET e == req[r].expense
    IN  /\ At(r, "resubmit", "write")
        /\ \/ /\ Current(e, "REJECTED", req[r].snap.version)
              /\ expenses' = [expenses EXCEPT ![e] = ResubmittedRow(@, req[r].body)]
              /\ Await(r, "audit", TRUE, FALSE)
              /\ UNCHANGED <<auditLog, notices, served, unlogged>>
           \/ /\ Visible(e)
              /\ ~Current(e, "REJECTED", req[r].snap.version)
              /\ Refuse(r, "conflict")
           \/ /\ ~Visible(e)
              /\ Refuse(r, "notFound")

ResubmitAudit(r) ==
    /\ At(r, "resubmit", "audit")
    /\ Log(req[r].expense, "RESUBMITTED", req[r].actor, 0)
    /\ Await(r, "notify", TRUE, TRUE)
    /\ UNCHANGED <<expenses, notices, served, unlogged>>

\* expenseModel.delete: audit row and soft delete in one transaction.
DeleteWrite(r) ==
    LET e == req[r].expense
    IN  /\ At(r, "delete", "write")
        /\ \/ /\ Current(e, "PENDING", req[r].snap.version)
              /\ expenses' = [expenses EXCEPT ![e] = DeletedRow(@)]
              /\ Log(e, "DELETED", req[r].actor, 0)
              /\ Respond(r, "ok", TRUE, TRUE)
              /\ UNCHANGED <<notices, served, unlogged>>
           \/ /\ Visible(e)
              /\ ~Current(e, "PENDING", req[r].snap.version)
              /\ Refuse(r, "conflict")
           \/ /\ ~Visible(e)
              /\ Refuse(r, "notFound")

LoadForAnyDecision(r, verdict, u, e) ==
    /\ u \in Approver
    /\ \/ /\ ~Visible(e)
          /\ Turn(r, verdict, u, e, "notFound")
       \/ /\ Visible(e)
          /\ Enter(r, verdict, u, e, NoContent, FindById(e), "authorize", "none", FALSE)
    /\ UNCHANGED <<expenses, auditLog, notices, unlogged>>

\* approveExpense and rejectExpense up to the manager check: findById, then the
\* refusal of one's own expense.
LoadForDecision(r, verdict, u, e) ==
    /\ u \in Approver
    /\ \/ /\ ~Visible(e)
          /\ Turn(r, verdict, u, e, "notFound")
       \/ /\ Visible(e)
          /\ expenses[e].owner = u
          /\ Turn(r, verdict, u, e, "forbidden")
       \/ /\ Visible(e)
          /\ expenses[e].owner # u
          /\ Enter(r, verdict, u, e, NoContent, FindById(e), "authorize", "none", FALSE)
    /\ UNCHANGED <<expenses, auditLog, notices, unlogged>>

\* verifyManagerRelationship answers; only then is the status of the row read
\* before the call looked at.
Authorize(r, verdict) ==
    /\ At(r, verdict, "authorize")
    /\ \/ Refuse(r, "forbidden")
       \/ /\ req[r].snap.status # "PENDING"
          /\ Refuse(r, "conflict")
       \/ /\ req[r].snap.status = "PENDING"
          /\ Await(r, "decide", FALSE, FALSE)
          /\ UNCHANGED <<expenses, auditLog, notices, served, unlogged>>

\* sp_approve_expense and sp_reject_expense: checks, UPDATE and audit row under
\* the row lock.
Decide(r, verdict) ==
    LET e == req[r].expense
        u == req[r].actor
    IN  /\ At(r, verdict, "decide")
        /\ \/ /\ Current(e, "PENDING", req[r].snap.version)
              /\ expenses' = [expenses EXCEPT ![e] = DecidedRow(@, u, verdict)]
              /\ Log(e, verdict, u, req[r].snap.version + 1)
              /\ Await(r, "notify", TRUE, TRUE)
              /\ UNCHANGED <<notices, served, unlogged>>
           \/ /\ Visible(e)
              /\ ~Current(e, "PENDING", req[r].snap.version)
              /\ Refuse(r, "conflict")
           \/ /\ ~Visible(e)
              /\ Refuse(r, "notFound")

NoticeOfAnyVerdict(op) ==
    IF op \in Verdict THEN "APPROVED"
    ELSE IF op = "resubmit" THEN "RESUBMITTED" ELSE "SUBMITTED"

\* expenseDecision for a decision, expenseForApproval for a (re)submission.
NoticeOf(op) ==
    IF op \in Verdict THEN op
    ELSE IF op = "resubmit" THEN "RESUBMITTED" ELSE "SUBMITTED"

\* The best-effort notification: sent, or skipped because the recipient muted it,
\* does not exist, or the insert failed.  The handler then answers; the re-read
\* of a decided row falls back to the decided row and cannot change the answer.
Notify(r) ==
    LET e == req[r].expense
        type == NoticeOf(req[r].op)
    IN  /\ Busy(r)
        /\ req[r].phase = "notify"
        /\ \/ notices' = [notices EXCEPT ![e][type] = @ + 1]
           \/ UNCHANGED notices
        /\ Respond(r, "ok", TRUE, TRUE)
        /\ UNCHANGED <<expenses, auditLog, served, unlogged>>

\* A statement fails, the connection is lost or the process stops while the
\* handler waits: the open transaction, if any, is rolled back, what is already
\* committed stays.
Fail(r) ==
    LET e == req[r].expense
    IN  /\ Busy(r)
        /\ Respond(r, "error", req[r].wrote, req[r].logged)
        /\ unlogged' = IF req[r].wrote /\ ~req[r].logged
                       THEN [unlogged EXCEPT ![e] = @ + 1]
                       ELSE unlogged
        /\ UNCHANGED <<expenses, auditLog, notices, served>>

Continue(r) ==
    \/ UpdateWrite(r)
    \/ UpdateReread(r)
    \/ UpdateAudit(r)
    \/ ResubmitWrite(r)
    \/ ResubmitAudit(r)
    \/ DeleteWrite(r)
    \/ \E verdict \in Verdict : Authorize(r, verdict) \/ Decide(r, verdict)
    \/ Notify(r)

Start(r) ==
    \E u \in User, e \in Expense :
        \/ \E c \in Content : CreateExpense(r, u, e, c)
        \/ \E c \in Content : LoadOwn(r, "update", u, e, c)
        \/ \E c \in Content \cup {NoContent} : LoadOwn(r, "resubmit", u, e, c)
        \/ LoadOwn(r, "delete", u, e, NoContent)
        \/ \E verdict \in Verdict : LoadForDecision(r, verdict, u, e)

Next == \E r \in Request : Start(r) \/ Continue(r) \/ Fail(r)

Spec == Init /\ [][Next]_vars

-----------------------------------------------------------------------------
(* Properties. *)

TypeOK ==
    /\ expenses \in [Expense -> Row \cup {NoRow}]
    /\ auditLog \in Seq(AuditRow)
    /\ notices \in [Expense -> [NoticeType -> Nat]]
    /\ req \in [Request -> Session \cup {Idle}]
    /\ served \in Nat
    /\ unlogged \in [Expense -> Nat]

RowsOf(e) == {i \in DOMAIN auditLog : auditLog[i].expense = e}
RowsOfAction(e, action) == {i \in RowsOf(e) : auditLog[i].action = action}

\* Optimistic concurrency (expenses.version): whatever changes a stored row is a
\* handler that read exactly that row, content included, before deciding to.
\* An approval never lands on an amount other than the one its handler loaded.
WritesOnWhatWasRead ==
    [][\A e \in Expense :
         expenses[e] # NoRow /\ expenses'[e] # expenses[e]
           => \E r \in Request : /\ Busy(r)
                                 /\ req[r].expense = e
                                 /\ req[r].snap = expenses[e]]_vars

\* The handler has checked its snapshot, or is about to, and has not written yet.
Holding(s) == s.phase \in {"write", "authorize", "decide"}

\* Why comparing version and status is enough: a handler that still has to write
\* may hold an outdated row, but never another row with the stored row's version.
VersionStandsForRow ==
    \A r \in Request : Busy(r) =>
        LET s == req[r]
            row == expenses[s.expense]
        IN  /\ row # NoRow
            /\ Holding(s) =>
                 /\ s.snap \in Row
                 /\ s.snap.version <= row.version
                 /\ s.snap.version = row.version => s.snap = row
                 /\ s.op \in Verdict => s.snap.owner # s.actor

\* sp_approve_expense / sp_reject_expense: the current decision of an expense is in
\* the audit trail, by the approver the row names and with the row's version.
DecisionAudited ==
    \A e \in Expense :
        expenses[e] # NoRow /\ expenses[e].status \in Verdict
          => \E i \in RowsOf(e) : /\ auditLog[i].action = expenses[e].status
                                  /\ auditLog[i].by = expenses[e].approver
                                  /\ auditLog[i].version = expenses[e].version

\* No version of an expense is decided twice, and decisions are logged in the
\* order they were taken, whatever requests race.
DecisionsInOrder ==
    \A i, j \in DOMAIN auditLog :
        /\ i < j
        /\ auditLog[i].expense = auditLog[j].expense
        /\ auditLog[i].action \in Verdict
        /\ auditLog[j].action \in Verdict
        => auditLog[i].version < auditLog[j].version

\* chk_rejection_reason and more: reason and approver are set exactly when the
\* status calls for them, through any number of rejections and resubmissions.
DecisionColumnsAgree ==
    \A e \in Expense :
        expenses[e] # NoRow =>
            /\ expenses[e].reason <=> expenses[e].status = "REJECTED"
            /\ expenses[e].approver # Nobody <=> expenses[e].status \in Verdict

\* "You cannot approve your own expenses", in the row and in the audit trail.
NobodyDecidesTheirOwn ==
    \A e \in Expense :
        expenses[e] # NoRow =>
            /\ expenses[e].approver # expenses[e].owner
            /\ \A i \in RowsOf(e) : auditLog[i].action \in Verdict
                                       => auditLog[i].by # expenses[e].owner

\* Every version of an expense is accounted for: it has its audit row, or its
\* handler is on its way to write it, or that handler ended too early.
AuditAccountsForEveryVersion ==
    \A e \in Expense :
        expenses[e] # NoRow =>
            expenses[e].version =
                Cardinality(RowsOf(e)) + unlogged[e]
                + Cardinality({r \in Request : /\ Busy(r)
                                               /\ req[r].expense = e
                                               /\ req[r].wrote
                                               /\ ~req[r].logged})

\* A 403, 404 or 409 means that the request changed nothing, except for an edit
\* whose expense was deleted before the handler re-read it.
RefusalsWroteNothing ==
    \A r \in Request :
        /\ req[r].phase = "done"
        /\ req[r].answer \in {"notFound", "forbidden", "conflict"}
        /\ req[r].wrote
        => req[r].op = "update" /\ expenses[req[r].expense].deleted

\* notificationService runs after the commit: nobody is told of a decision or a
\* resubmission that is not in the audit trail, nor told twice.
NoticesFollowTheTrail ==
    \A e \in Expense, t \in NoticeType :
        notices[e][t] <= Cardinality(RowsOfAction(e, t))

-----------------------------------------------------------------------------
(* The contract this module implements. *)

ContractState(e) ==
    IF expenses[e] = NoRow THEN "none"
    ELSE IF expenses[e].deleted THEN "DELETED" ELSE expenses[e].status

ContractOwner(e) == IF expenses[e] = NoRow THEN Nobody ELSE expenses[e].owner
ContractDecider(e) == IF expenses[e] = NoRow THEN Nobody ELSE expenses[e].approver
ContractRevision(e) == IF expenses[e] = NoRow THEN 0 ELSE expenses[e].version

Contract == INSTANCE ExpenseContract WITH
    state <- [e \in Expense |-> ContractState(e)],
    owner <- [e \in Expense |-> ContractOwner(e)],
    decider <- [e \in Expense |-> ContractDecider(e)],
    revision <- [e \in Expense |-> ContractRevision(e)]

\* The handlers implement the contract: PENDING -> APPROVED | REJECTED | DELETED,
\* REJECTED -> PENDING, APPROVED and DELETED final, one revision per write.
ImplementsContract == Contract!Spec
=============================================================================
