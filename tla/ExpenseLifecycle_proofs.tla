----------------------- MODULE ExpenseLifecycle_proofs -----------------------
(***************************************************************************)
(* Theorems about ExpenseLifecycle for any number of expenses, users,      *)
(* requests and edits.  The bound MaxRequests is never used.               *)
(***************************************************************************)
EXTENDS ExpenseLifecycle, FiniteSetTheorems, TLAPS

-----------------------------------------------------------------------------
(* What a request in flight looks like. *)

\* A request being served has a session record, not the idle marker.
LEMMA BusySession ==
    ASSUME TypeOK, NEW r \in Request, Busy(r)
    PROVE  req[r] \in Session
BY DEF TypeOK, Busy, Idle

\* The row written by each guarded statement is a row again.
LEMMA RowUpdates ==
    ASSUME NEW row \in Row, NEW u \in User,
           NEW body \in Content \cup {NoContent}
    PROVE  /\ EditedRow(row, body) \in Row
           /\ ResubmittedRow(row, body) \in Row
           /\ DeletedRow(row) \in Row
           /\ \A verdict \in Verdict : DecidedRow(row, u, verdict) \in Row
<1>1. /\ row.version + 1 \in Nat
      /\ Applied(row.content, body) \in Content
  BY DEF Row, Applied
<1>2. \A verdict \in Verdict : (IF verdict = "REJECTED" THEN TRUE ELSE row.reason) \in BOOLEAN
  <2>1. row.reason \in BOOLEAN
    BY DEF Row
  <2>2. QED
    BY <2>1, Zenon
<1>3. ASSUME NEW v \in Nat, NEW k \in Content, NEW q \in BOOLEAN
      PROVE  /\ [row EXCEPT !.content = k, !.version = v] \in Row
             /\ [row EXCEPT !.content = k, !.status = "PENDING", !.approver = Nobody,
                            !.reason = FALSE, !.version = v] \in Row
             /\ [row EXCEPT !.deleted = TRUE, !.version = v] \in Row
             /\ \A verdict \in Verdict :
                  [row EXCEPT !.status = verdict, !.approver = u, !.version = v,
                              !.reason = q] \in Row
  BY DEF Row, Status, Verdict
<1>4. QED
  BY <1>1, <1>2, <1>3 DEF EditedRow, ResubmittedRow, DeletedRow, DecidedRow

\* Entering a handler with well-typed memory keeps req and served typed (Enter).
LEMMA EnterType ==
    ASSUME TypeOK, NEW r \in Request, NEW op \in Operation, NEW u \in User, NEW e \in Expense,
           NEW body \in Content \cup {NoContent}, NEW snap \in Row \cup {NoRow},
           NEW phase \in Phase, NEW answer \in Answer, NEW done \in BOOLEAN,
           Enter(r, op, u, e, body, snap, phase, answer, done)
    PROVE  /\ req' \in [Request -> Session \cup {Idle}]
           /\ served' \in Nat
BY DEF TypeOK, Enter, Session

\* Moving on to the next round trip keeps the handler memory typed (Await).
LEMMA AwaitType ==
    ASSUME TypeOK, NEW r \in Request, Busy(r), NEW phase \in Phase,
           NEW wrote \in BOOLEAN, NEW logged \in BOOLEAN,
           Await(r, phase, wrote, logged)
    PROVE  req' \in [Request -> Session \cup {Idle}]
<1>1. req[r] \in Session
  BY BusySession
<1>2. [req[r] EXCEPT !.phase = phase, !.wrote = wrote, !.logged = logged] \in Session
  BY <1>1 DEF Session
<1>3. QED
  BY <1>2 DEF TypeOK, Await

\* Answering a request keeps the handler memory typed (Respond).
LEMMA RespondType ==
    ASSUME TypeOK, NEW r \in Request, Busy(r), NEW answer \in Answer,
           NEW wrote \in BOOLEAN, NEW logged \in BOOLEAN,
           Respond(r, answer, wrote, logged)
    PROVE  req' \in [Request -> Session \cup {Idle}]
<1>1. req[r] \in Session
  BY BusySession
<1>2. [req[r] EXCEPT !.phase = "done", !.answer = answer, !.snap = NoRow,
                     !.body = NoContent, !.wrote = wrote, !.logged = logged] \in Session
  BY <1>1 DEF Session, Phase
<1>3. QED
  BY <1>2 DEF TypeOK, Respond

\* An INSERT INTO audit_logs keeps the table a sequence of audit rows (Log).
LEMMA LogType ==
    ASSUME TypeOK, NEW e \in Expense, NEW action \in Action, NEW u \in User, NEW v \in Nat,
           Log(e, action, u, v)
    PROVE  auditLog' \in Seq(AuditRow)
BY DEF TypeOK, Log, AuditRow

\* A refusal touches nothing but the request, so it preserves the type (Refuse).
LEMMA RefuseType ==
    ASSUME TypeOK, NEW r \in Request, Busy(r), NEW answer \in Answer, Refuse(r, answer)
    PROVE  TypeOK'
BY RespondType DEF Refuse, TypeOK

\* A visible expense has a row.
LEMMA CurrentRow ==
    ASSUME TypeOK, NEW e \in Expense, Visible(e)
    PROVE  expenses[e] \in Row
BY DEF TypeOK, Visible

\* A new row value for one expense keeps the table well typed.
LEMMA TableType ==
    ASSUME TypeOK, NEW e \in Expense, NEW row \in Row,
           expenses' = [expenses EXCEPT ![e] = row]
    PROVE  expenses' \in [Expense -> Row \cup {NoRow}]
BY DEF TypeOK

\* Counting one more write without an audit row keeps the counter a number.
LEMMA UnloggedType ==
    ASSUME TypeOK, NEW e \in Expense,
           \/ unlogged' = [unlogged EXCEPT ![e] = @ + 1]
           \/ UNCHANGED unlogged
    PROVE  unlogged' \in [Expense -> Nat]
<1>1. unlogged[e] + 1 \in Nat
  BY DEF TypeOK
<1>2. QED
  BY <1>1 DEF TypeOK

-----------------------------------------------------------------------------
(* Type correctness, one lemma per group of actions. *)

\* Every handler entry (create, load for an edit, load for a decision) preserves TypeOK.
LEMMA StartType ==
    ASSUME TypeOK, NEW r \in Request, Start(r)
    PROVE  TypeOK'
<1> USE DEF Turn
<1>1. PICK u \in User, e \in Expense :
        \/ \E c \in Content : CreateExpense(r, u, e, c)
        \/ \E op \in {"update", "resubmit", "delete"}, c \in Content \cup {NoContent} :
              LoadOwn(r, op, u, e, c)
        \/ \E verdict \in Verdict : LoadForDecision(r, verdict, u, e)
  BY DEF Start
<1>2. FindById(e) \in Row \cup {NoRow}
  BY DEF TypeOK, FindById
<1>3. ASSUME NEW c \in Content, CreateExpense(r, u, e, c)
      PROVE  TypeOK'
  <2>1. NewRow(u, c) \in Row
    BY DEF Row, Status, NewRow
  <2>2. expenses' \in [Expense -> Row \cup {NoRow}]
    BY <1>3, <2>1, TableType DEF CreateExpense
  <2>3. auditLog' \in Seq(AuditRow)
    BY <1>3, LogType DEF CreateExpense, Action
  <2>4. req' \in [Request -> Session \cup {Idle}] /\ served' \in Nat
    <3>1. /\ "create" \in Operation /\ "notify" \in Phase /\ "none" \in Answer
          /\ NoContent \in Content \cup {NoContent} /\ NoRow \in Row \cup {NoRow}
      BY DEF Operation, Phase, Answer
    <3>2. Enter(r, "create", u, e, NoContent, NoRow, "notify", "none", TRUE)
      BY <1>3 DEF CreateExpense
    <3>3. QED
      BY <3>1, <3>2, EnterType
  <2>5. QED
    BY <1>3, <2>2, <2>3, <2>4 DEF CreateExpense, TypeOK
<1>4. ASSUME NEW op \in {"update", "resubmit", "delete"}, NEW c \in Content \cup {NoContent},
             LoadOwn(r, op, u, e, c)
      PROVE  TypeOK'
  <2>1. PICK body \in Content \cup {NoContent}, snap \in Row \cup {NoRow}, phase \in Phase,
             answer \in Answer :
          Enter(r, op, u, e, body, snap, phase, answer, FALSE)
    BY <1>2, <1>4 DEF LoadOwn, Phase, Answer
  <2>2. op \in Operation /\ FALSE \in BOOLEAN
    BY DEF Operation
  <2>3. req' \in [Request -> Session \cup {Idle}] /\ served' \in Nat
    BY <2>1, <2>2, EnterType
  <2>4. QED
    BY <1>4, <2>3 DEF LoadOwn, TypeOK
<1>5. ASSUME NEW verdict \in Verdict, LoadForDecision(r, verdict, u, e)
      PROVE  TypeOK'
  <2>1. PICK snap \in Row \cup {NoRow}, phase \in Phase, answer \in Answer :
          Enter(r, verdict, u, e, NoContent, snap, phase, answer, FALSE)
    BY <1>2, <1>5 DEF LoadForDecision, Phase, Answer
  <2>2. req' \in [Request -> Session \cup {Idle}] /\ served' \in Nat
    BY <2>1, EnterType DEF Operation, Verdict
  <2>3. QED
    BY <1>5, <2>2 DEF LoadForDecision, TypeOK
<1>6. QED
  BY <1>1, <1>3, <1>4, <1>5

\* Every later round trip of every handler preserves TypeOK.
LEMMA ContinueType ==
    ASSUME TypeOK, NEW r \in Request, Continue(r)
    PROVE  TypeOK'
<1> DEFINE e == req[r].expense
<1>1. Busy(r) /\ req[r] \in Session
  BY BusySession DEF Continue, UpdateWrite, UpdateReread, UpdateAudit, ResubmitWrite,
     ResubmitAudit, DeleteWrite, Authorize, Decide, Notify, At
<1>2. /\ e \in Expense /\ req[r].actor \in User
      /\ req[r].body \in Content \cup {NoContent}
      /\ req[r].snap \in Row \cup {NoRow}
  BY <1>1 DEF Session
<1>3. /\ Visible(e) => expenses[e] \in Row
      /\ Visible(e) =>
           /\ EditedRow(expenses[e], req[r].body) \in Row
           /\ ResubmittedRow(expenses[e], req[r].body) \in Row
           /\ DeletedRow(expenses[e]) \in Row
           /\ \A verdict \in Verdict : DecidedRow(expenses[e], req[r].actor, verdict) \in Row
  BY <1>2, CurrentRow, RowUpdates
<1>4. ASSUME UpdateWrite(r) PROVE TypeOK'
  <2>1. CASE Current(e, "PENDING", req[r].snap.version)
    <3>1. expenses' \in [Expense -> Row \cup {NoRow}]
      BY <1>2, <1>3, <1>4, <2>1, TableType DEF UpdateWrite, Current
    <3>2. QED
      BY <1>1, <1>4, <2>1, <3>1, AwaitType DEF UpdateWrite, Phase, TypeOK
  <2>2. CASE ~Current(e, "PENDING", req[r].snap.version)
    BY <1>1, <1>4, <2>2, RefuseType DEF UpdateWrite, Answer
  <2>3. QED
    BY <2>1, <2>2
<1>5. ASSUME UpdateReread(r) PROVE TypeOK'
  <2>1. req' \in [Request -> Session \cup {Idle}]
    BY <1>1, <1>5, AwaitType, RespondType DEF UpdateReread, Phase, Answer
  <2>2. unlogged' \in [Expense -> Nat]
    BY <1>2, <1>5, UnloggedType DEF UpdateReread
  <2>3. QED
    BY <1>5, <2>1, <2>2 DEF UpdateReread, TypeOK
<1>6. ASSUME UpdateAudit(r) PROVE TypeOK'
  <2>1. auditLog' \in Seq(AuditRow)
    BY <1>2, <1>6, LogType DEF UpdateAudit, Action
  <2>2. QED
    BY <1>1, <1>6, <2>1, RespondType DEF UpdateAudit, Answer, TypeOK
<1>7. ASSUME ResubmitWrite(r) PROVE TypeOK'
  <2>1. CASE Current(e, "REJECTED", req[r].snap.version)
    <3>1. expenses' \in [Expense -> Row \cup {NoRow}]
      BY <1>2, <1>3, <1>7, <2>1, TableType DEF ResubmitWrite, Current
    <3>2. QED
      BY <1>1, <1>7, <2>1, <3>1, AwaitType DEF ResubmitWrite, Current, Phase, TypeOK
  <2>2. CASE ~Current(e, "REJECTED", req[r].snap.version)
    BY <1>1, <1>7, <2>2, RefuseType DEF ResubmitWrite, Answer
  <2>3. QED
    BY <2>1, <2>2
<1>8. ASSUME ResubmitAudit(r) PROVE TypeOK'
  <2>1. auditLog' \in Seq(AuditRow)
    BY <1>2, <1>8, LogType DEF ResubmitAudit, Action
  <2>2. QED
    BY <1>1, <1>8, <2>1, AwaitType DEF ResubmitAudit, Phase, TypeOK
<1>9. ASSUME DeleteWrite(r) PROVE TypeOK'
  <2>1. CASE Current(e, "PENDING", req[r].snap.version)
    <3>1. expenses' \in [Expense -> Row \cup {NoRow}]
      BY <1>2, <1>3, <1>9, <2>1, TableType DEF DeleteWrite, Current
    <3>2. auditLog' \in Seq(AuditRow)
      BY <1>2, <1>9, <2>1, LogType DEF DeleteWrite, Current, Action
    <3>3. QED
      BY <1>1, <1>9, <2>1, <3>1, <3>2, RespondType DEF DeleteWrite, Current, Answer, TypeOK
  <2>2. CASE ~Current(e, "PENDING", req[r].snap.version)
    BY <1>1, <1>9, <2>2, RefuseType DEF DeleteWrite, Answer
  <2>3. QED
    BY <2>1, <2>2
<1>10. ASSUME NEW verdict \in Verdict, Authorize(r, verdict) PROVE TypeOK'
  <2>1. \/ Refuse(r, "forbidden")
        \/ Refuse(r, "conflict")
        \/ /\ Await(r, "decide", FALSE, FALSE)
           /\ UNCHANGED <<expenses, auditLog, notices, served, unlogged>>
    BY <1>10 DEF Authorize
  <2>2. CASE \E answer \in {"forbidden", "conflict"} : Refuse(r, answer)
    BY <1>1, <2>2, RefuseType DEF Answer
  <2>3. CASE /\ Await(r, "decide", FALSE, FALSE)
             /\ UNCHANGED <<expenses, auditLog, notices, served, unlogged>>
    BY <1>1, <2>3, AwaitType DEF Phase, TypeOK
  <2>4. QED
    BY <2>1, <2>2, <2>3
<1>11. ASSUME NEW verdict \in Verdict, Decide(r, verdict) PROVE TypeOK'
  <2>1. CASE Current(e, "PENDING", req[r].snap.version)
    <3>1. expenses' \in [Expense -> Row \cup {NoRow}]
      BY <1>2, <1>3, <1>11, <2>1, TableType DEF Decide, Current
    <3>2. req[r].snap.version + 1 \in Nat
      <4>1. expenses[e].version \in Nat
        BY <1>3, <2>1 DEF Current, Row
      <4>2. QED
        BY <2>1, <4>1 DEF Current
    <3>3. auditLog' \in Seq(AuditRow)
      BY <1>2, <1>11, <2>1, <3>2, LogType DEF Decide, Current, Action, Verdict
    <3>4. QED
      BY <1>1, <1>11, <2>1, <3>1, <3>3, AwaitType DEF Decide, Current, Phase, TypeOK
  <2>2. CASE ~Current(e, "PENDING", req[r].snap.version)
    BY <1>1, <1>11, <2>2, RefuseType DEF Decide, Answer
  <2>3. QED
    BY <2>1, <2>2
<1>12. ASSUME Notify(r) PROVE TypeOK'
  <2>1. NoticeOf(req[r].op) \in NoticeType
    BY DEF Verdict, NoticeOf, NoticeType
  <2>2. notices[e][NoticeOf(req[r].op)] + 1 \in Nat
    BY <1>2, <2>1 DEF TypeOK
  <2>3. notices' \in [Expense -> [NoticeType -> Nat]]
    <3>1. ASSUME NEW n \in Nat, NEW t \in NoticeType
          PROVE  [notices[e] EXCEPT ![t] = n] \in [NoticeType -> Nat]
      BY <1>2 DEF TypeOK
    <3>2. ASSUME NEW row \in [NoticeType -> Nat]
          PROVE  [notices EXCEPT ![e] = row] \in [Expense -> [NoticeType -> Nat]]
      BY DEF TypeOK
    <3>3. CASE UNCHANGED notices
      BY <3>3 DEF TypeOK
    <3>4. CASE notices' = [notices EXCEPT ![e][NoticeOf(req[r].op)] = @ + 1]
      <4> DEFINE t == NoticeOf(req[r].op)
      <4>1. notices' = [notices EXCEPT ![e] = [notices[e] EXCEPT ![t] = notices[e][t] + 1]]
        BY <3>4, Zenon
      <4>2. [notices[e] EXCEPT ![t] = notices[e][t] + 1] \in [NoticeType -> Nat]
        BY <2>1, <2>2, <3>1
      <4> HIDE DEF t
      <4>3. QED
        BY <3>2, <4>1, <4>2
    <3>5. QED
      BY <1>12, <3>3, <3>4 DEF Notify
  <2>4. QED
    BY <1>1, <1>12, <2>3, RespondType DEF Notify, Answer, TypeOK
<1>13. QED
  BY <1>4, <1>5, <1>6, <1>7, <1>8, <1>9, <1>10, <1>11, <1>12 DEF Continue

\* Type correctness: every row, audit entry and handler memory keeps the shape
\* the database schema and the handlers give it.
THEOREM TypeCorrect == Spec => []TypeOK
<1>1. Init => TypeOK
  BY DEF Init, TypeOK, Idle
<1>2. TypeOK /\ [Next]_vars => TypeOK'
  <2> SUFFICES ASSUME TypeOK, [Next]_vars
               PROVE  TypeOK'
    OBVIOUS
  <2>1. ASSUME NEW r \in Request, Start(r) PROVE TypeOK'
    BY <2>1, StartType
  <2>2. ASSUME NEW r \in Request, Continue(r) PROVE TypeOK'
    BY <2>2, ContinueType
  <2>3. ASSUME NEW r \in Request, Fail(r) PROVE TypeOK'
    <3>1. req[r] \in Session /\ req[r].expense \in Expense
             /\ req[r].wrote \in BOOLEAN /\ req[r].logged \in BOOLEAN
      BY <2>3, BusySession DEF Fail, Session
    <3>2. req' \in [Request -> Session \cup {Idle}]
      BY <2>3, <3>1, RespondType DEF Fail, Answer
    <3>3. unlogged' \in [Expense -> Nat]
      BY <2>3, <3>1, UnloggedType DEF Fail
    <3>4. QED
      BY <2>3, <3>2, <3>3 DEF Fail, TypeOK
  <2>4. CASE UNCHANGED vars
    BY <2>4 DEF vars, TypeOK
  <2>5. QED
    BY <2>1, <2>2, <2>3, <2>4 DEF Next
<1>3. QED
  BY <1>1, <1>2, PTL DEF Spec

-----------------------------------------------------------------------------
(***************************************************************************)
(* The inductive invariant.  None of the properties is inductive alone: an *)
(* approval is safe because the version it compares stands for the whole   *)
(* row (VersionStandsForRow), and that is so because every write makes a   *)
(* new version and never an old one (OneRevision).                         *)
(***************************************************************************)

\* Approver and reason belong to the status, and the approver is not the owner.
RowInv ==
    \A e \in Expense : expenses[e] # NoRow =>
        /\ expenses[e].reason <=> expenses[e].status = "REJECTED"
        /\ expenses[e].approver # Nobody <=> expenses[e].status \in Verdict
        /\ expenses[e].approver # expenses[e].owner

\* Audit rows never run ahead of the expense they describe.
LogInv ==
    \A i \in DOMAIN auditLog :
        LET entry == auditLog[i]
            row == expenses[entry.expense]
        IN  /\ row # NoRow
            /\ entry.action \in Verdict =>
                 entry.version <= row.version /\ entry.by # row.owner

IInv ==
    /\ TypeOK
    /\ VersionStandsForRow
    /\ RowInv
    /\ LogInv
    /\ DecisionAudited
    /\ DecisionsInOrder

-----------------------------------------------------------------------------
(* What each guarded statement does to the row it changes. *)

\* The edited row: next version, same owner and status, still undecided if it was.
LEMMA EditedShape ==
    ASSUME NEW row \in Row, NEW body \in Content \cup {NoContent}
    PROVE  LET new == EditedRow(row, body)
           IN  /\ new.version = row.version + 1
               /\ new.owner = row.owner /\ new.status = row.status
               /\ new.approver = row.approver /\ new.reason = row.reason
               /\ new.deleted = row.deleted
BY DEF Row, EditedRow

\* The resubmitted row: next version, pending again, approver and reason cleared.
LEMMA ResubmittedShape ==
    ASSUME NEW row \in Row, NEW body \in Content \cup {NoContent}
    PROVE  LET new == ResubmittedRow(row, body)
           IN  /\ new.version = row.version + 1
               /\ new.owner = row.owner /\ new.status = "PENDING"
               /\ new.approver = Nobody /\ new.reason = FALSE
               /\ new.deleted = row.deleted
BY DEF Row, ResubmittedRow

\* The soft-deleted row: next version, everything else as it was.
LEMMA DeletedShape ==
    ASSUME NEW row \in Row
    PROVE  LET new == DeletedRow(row)
           IN  /\ new.version = row.version + 1
               /\ new.owner = row.owner /\ new.status = row.status
               /\ new.approver = row.approver /\ new.reason = row.reason
               /\ new.deleted = TRUE
BY DEF Row, DeletedRow

\* The steps that write the expenses table, with their guards and what they log.
Submission(e, u, c) ==
    /\ expenses[e] = NoRow
    /\ expenses' = [expenses EXCEPT ![e] = NewRow(u, c)]
    /\ Log(e, "SUBMITTED", u, 0)

GuardedWrite(r, e) ==
    /\ Busy(r) /\ req[r].expense = e
    /\ req[r].phase \in {"write", "authorize", "decide"}
    /\ Visible(e)
    /\ expenses[e].version = req[r].snap.version
    /\ \/ /\ expenses[e].status = "PENDING"
          /\ expenses' = [expenses EXCEPT ![e] = EditedRow(@, req[r].body)]
          /\ UNCHANGED auditLog
       \/ /\ expenses[e].status = "REJECTED"
          /\ expenses' = [expenses EXCEPT ![e] = ResubmittedRow(@, req[r].body)]
          /\ UNCHANGED auditLog
       \/ /\ expenses[e].status = "PENDING"
          /\ expenses' = [expenses EXCEPT ![e] = DeletedRow(@)]
          /\ Log(e, "DELETED", req[r].actor, 0)
       \/ /\ expenses[e].status = "PENDING"
          /\ \E verdict \in Verdict :
               /\ req[r].op = verdict
               /\ expenses' = [expenses EXCEPT ![e] = DecidedRow(@, req[r].actor, verdict)]
               /\ Log(e, verdict, req[r].actor, expenses[e].version + 1)

LateEntry(r) ==
    /\ Busy(r)
    /\ \E action \in {"UPDATED", "RESUBMITTED"} : Log(req[r].expense, action, req[r].actor, 0)
    /\ UNCHANGED expenses

\* Every step is one of these as far as the two tables are concerned.
LEMMA TableSteps ==
    ASSUME TypeOK, [Next]_vars
    PROVE  \/ UNCHANGED <<expenses, auditLog>>
           \/ \E e \in Expense, u \in User, c \in Content : Submission(e, u, c)
           \/ \E r \in Request, e \in Expense : GuardedWrite(r, e)
           \/ \E r \in Request : LateEntry(r)
<1>1. CASE UNCHANGED vars
  BY <1>1 DEF vars
<1>2. ASSUME NEW r \in Request, Start(r)
      PROVE  \/ UNCHANGED <<expenses, auditLog>>
             \/ \E e \in Expense, u \in User, c \in Content : Submission(e, u, c)
  <2>1. PICK u \in User, e \in Expense :
          \/ \E c \in Content : CreateExpense(r, u, e, c)
          \/ \E op \in {"update", "resubmit", "delete"}, c \in Content \cup {NoContent} :
                LoadOwn(r, op, u, e, c)
          \/ \E verdict \in Verdict : LoadForDecision(r, verdict, u, e)
    BY <1>2 DEF Start
  <2>2. QED
    BY <2>1 DEF CreateExpense, LoadOwn, LoadForDecision, Submission
<1>3. ASSUME NEW r \in Request, Continue(r)
      PROVE  \/ UNCHANGED <<expenses, auditLog>>
             \/ \E e \in Expense : GuardedWrite(r, e)
             \/ LateEntry(r)
  <2>1. Busy(r) => req[r].expense \in Expense
    BY BusySession DEF Session
  <2>2. CASE UpdateWrite(r) \/ ResubmitWrite(r) \/ DeleteWrite(r)
    BY <2>1, <2>2 DEF UpdateWrite, ResubmitWrite, DeleteWrite, Refuse, Current, At, GuardedWrite
  <2>3. CASE \E verdict \in Verdict : Decide(r, verdict)
    BY <2>1, <2>3 DEF Decide, Refuse, Current, At, GuardedWrite
  <2>4. CASE UpdateAudit(r) \/ ResubmitAudit(r)
    BY <2>4 DEF UpdateAudit, ResubmitAudit, LateEntry, At
  <2>5. CASE UpdateReread(r) \/ Notify(r) \/ \E verdict \in Verdict : Authorize(r, verdict)
    BY <2>5 DEF UpdateReread, Notify, Authorize, Refuse
  <2>6. QED
    BY <1>3, <2>2, <2>3, <2>4, <2>5 DEF Continue
<1>4. ASSUME NEW r \in Request, Fail(r)
      PROVE  UNCHANGED <<expenses, auditLog>>
  BY <1>4 DEF Fail
<1>5. QED
  BY <1>1, <1>2, <1>3, <1>4 DEF Next

\* A step leaves a row alone, creates it at version 1, or makes its next version;
\* it never removes a row and never changes its owner.
LEMMA OneRevision ==
    ASSUME TypeOK, [Next]_vars, NEW e \in Expense
    PROVE  \/ expenses'[e] = expenses[e]
           \/ expenses[e] = NoRow /\ \E u \in User, c \in Content : expenses'[e] = NewRow(u, c)
           \/ /\ expenses[e] \in Row
              /\ expenses'[e] \in Row
              /\ expenses'[e].version = expenses[e].version + 1
              /\ expenses'[e].owner = expenses[e].owner
<1>1. CASE \E f \in Expense, u \in User, c \in Content : Submission(f, u, c)
  BY <1>1 DEF Submission, TypeOK
<1>2. ASSUME NEW r \in Request, NEW f \in Expense, GuardedWrite(r, f), e = f
      PROVE  /\ expenses[e] \in Row
             /\ expenses'[e] \in Row
             /\ expenses'[e].version = expenses[e].version + 1
             /\ expenses'[e].owner = expenses[e].owner
  <2>1. req[r].actor \in User /\ req[r].body \in Content \cup {NoContent}
    BY <1>2, BusySession DEF GuardedWrite, Session
  <2>2. expenses[e] \in Row
    BY <1>2, CurrentRow DEF GuardedWrite
  <2>3. expenses'[e] \in {EditedRow(expenses[e], req[r].body),
                          ResubmittedRow(expenses[e], req[r].body),
                          DeletedRow(expenses[e])}
                        \cup {DecidedRow(expenses[e], req[r].actor, verdict) : verdict \in Verdict}
    BY <1>2 DEF GuardedWrite, TypeOK
  <2>4. ASSUME NEW new, new = EditedRow(expenses[e], req[r].body)
                      \/ new = ResubmittedRow(expenses[e], req[r].body)
                      \/ new = DeletedRow(expenses[e])
                      \/ \E verdict \in Verdict :
                           new = DecidedRow(expenses[e], req[r].actor, verdict)
        PROVE  /\ new \in Row
               /\ new.version = expenses[e].version + 1
               /\ new.owner = expenses[e].owner
    <3> DEFINE u == req[r].actor
               body == req[r].body
               row == expenses[e]
    <3>1. u \in User /\ body \in Content \cup {NoContent} /\ row \in Row
      BY <2>1, <2>2
    <3>2. /\ EditedRow(row, body) \in Row
          /\ ResubmittedRow(row, body) \in Row
          /\ DeletedRow(row) \in Row
          /\ \A verdict \in Verdict : DecidedRow(row, u, verdict) \in Row
      BY <3>1, RowUpdates
    <3>3. CASE new = EditedRow(row, body)
      BY <3>1, <3>2, <3>3, EditedShape
    <3>4. CASE new = ResubmittedRow(row, body)
      BY <3>1, <3>2, <3>4, ResubmittedShape
    <3>5. CASE new = DeletedRow(row)
      BY <3>1, <3>2, <3>5, DeletedShape
    <3>6. CASE \E verdict \in Verdict : new = DecidedRow(row, u, verdict)
      <4>1. PICK verdict \in Verdict : new = DecidedRow(row, u, verdict)
        BY <3>6
      <4>2. /\ DecidedRow(row, u, verdict).version = row.version + 1
            /\ DecidedRow(row, u, verdict).owner = row.owner
        BY <3>1 DEF Row, DecidedRow
      <4>3. QED
        BY <3>2, <4>1, <4>2
    <3>7. QED
      BY <2>4, <3>3, <3>4, <3>5, <3>6
  <2>5. QED
    BY <2>2, <2>3, <2>4
<1>3. CASE \E r \in Request, f \in Expense : GuardedWrite(r, f)
  BY <1>2, <1>3 DEF GuardedWrite, TypeOK
<1>4. QED
  BY <1>1, <1>3, TableSteps DEF LateEntry

-----------------------------------------------------------------------------
(* The same steps by their effect on the row, once the invariant holds. *)

Undecided(row) == row.status = "PENDING" /\ row.approver = Nobody /\ row.reason = FALSE

Decided(row, u, verdict) ==
    /\ row.status = verdict
    /\ row.approver = u
    /\ row.approver # row.owner
    /\ row.reason <=> verdict = "REJECTED"

NextVersion(e, row) ==
    /\ expenses[e] # NoRow
    /\ expenses' = [expenses EXCEPT ![e] = row]
    /\ row.version = expenses[e].version + 1
    /\ row.owner = expenses[e].owner

\* A guarded write leaves the expense undecided, or decides it and logs just that.
LEMMA GuardedEffect ==
    ASSUME TypeOK, VersionStandsForRow, RowInv,
           NEW r \in Request, NEW e \in Expense, GuardedWrite(r, e)
    PROVE  \E row \in Row :
              /\ NextVersion(e, row)
              /\ \/ /\ Undecided(row)
                    /\ \/ UNCHANGED auditLog
                       \/ \E u \in User : Log(e, "DELETED", u, 0)
                 \/ \E verdict \in Verdict, u \in User :
                       /\ Decided(row, u, verdict)
                       /\ Log(e, verdict, u, row.version)
<1> DEFINE old == expenses[e]
           u == req[r].actor
           body == req[r].body
<1>1. u \in User /\ body \in Content \cup {NoContent}
  BY BusySession DEF GuardedWrite, Session
<1>2. old \in Row /\ old # NoRow
  BY CurrentRow DEF GuardedWrite, Visible
<1>3. old.status = "PENDING" => Undecided(old)
  BY <1>2 DEF RowInv, Undecided, Verdict, Row
<1>4. CASE /\ old.status = "PENDING"
           /\ expenses' = [expenses EXCEPT ![e] = EditedRow(@, body)]
           /\ UNCHANGED auditLog
  <2>1. NextVersion(e, EditedRow(old, body)) /\ Undecided(EditedRow(old, body))
    BY <1>1, <1>2, <1>3, <1>4, EditedShape DEF NextVersion, Undecided
  <2>2. EditedRow(old, body) \in Row
    BY <1>1, <1>2, RowUpdates
  <2>3. QED
    BY <1>4, <2>1, <2>2
<1>5. CASE /\ old.status = "REJECTED"
           /\ expenses' = [expenses EXCEPT ![e] = ResubmittedRow(@, body)]
           /\ UNCHANGED auditLog
  <2>1. NextVersion(e, ResubmittedRow(old, body)) /\ Undecided(ResubmittedRow(old, body))
    BY <1>1, <1>2, <1>5, ResubmittedShape DEF NextVersion, Undecided
  <2>2. ResubmittedRow(old, body) \in Row
    BY <1>1, <1>2, RowUpdates
  <2>3. QED
    BY <1>5, <2>1, <2>2
<1>6. CASE /\ old.status = "PENDING"
           /\ expenses' = [expenses EXCEPT ![e] = DeletedRow(@)]
           /\ Log(e, "DELETED", u, 0)
  <2>1. NextVersion(e, DeletedRow(old)) /\ Undecided(DeletedRow(old))
    BY <1>1, <1>2, <1>3, <1>6, DeletedShape DEF NextVersion, Undecided
  <2>2. DeletedRow(old) \in Row
    BY <1>1, <1>2, RowUpdates
  <2>3. QED
    BY <1>1, <1>6, <2>1, <2>2
<1>7. ASSUME NEW verdict \in Verdict,
             old.status = "PENDING",
             req[r].op = verdict,
             expenses' = [expenses EXCEPT ![e] = DecidedRow(@, u, verdict)],
             Log(e, verdict, u, old.version + 1)
      PROVE  \E row \in Row : /\ NextVersion(e, row)
                              /\ Decided(row, u, verdict)
                              /\ Log(e, verdict, u, row.version)
  <2> DEFINE new == DecidedRow(old, u, verdict)
  <2>1. new \in Row
    BY <1>1, <1>2, RowUpdates
  <2>2. /\ new.version = old.version + 1
        /\ new.owner = old.owner
        /\ new.status = verdict
        /\ new.approver = u
    BY <1>1, <1>2 DEF Row, DecidedRow
  <2>3. new.reason <=> verdict = "REJECTED"
    <3>1. CASE verdict = "REJECTED"
      <4>1. new.reason = TRUE
        BY <1>1, <1>2, <3>1 DEF Row, DecidedRow
      <4>2. QED
        BY <3>1, <4>1
    <3>2. CASE verdict # "REJECTED"
      <4>1. new.reason = old.reason
        BY <1>1, <1>2, <3>2 DEF Row, DecidedRow
      <4>2. old.reason = FALSE
        BY <1>3, <1>7 DEF Undecided
      <4>3. QED
        BY <3>2, <4>1, <4>2
    <3>3. QED
      BY <3>1, <3>2
  <2>4. old.owner # u
    <3>1. req[r].snap = old
      BY <1>2 DEF VersionStandsForRow, Holding, GuardedWrite
    <3>2. QED
      BY <1>2, <1>7, <3>1 DEF VersionStandsForRow, Holding, GuardedWrite
  <2> HIDE DEF new
  <2>5. expenses' = [expenses EXCEPT ![e] = new]
    BY <1>7 DEF new
  <2>6. NextVersion(e, new) /\ Decided(new, u, verdict)
    BY <1>2, <2>2, <2>3, <2>4, <2>5 DEF NextVersion, Decided
  <2>7. Log(e, verdict, u, new.version)
    BY <1>7, <2>2
  <2>8. QED
    BY <2>1, <2>6, <2>7
<1>8. QED
  BY <1>1, <1>4, <1>5, <1>6, <1>7 DEF GuardedWrite

\* The effect of any step on the two tables.
Effect ==
    \/ UNCHANGED <<expenses, auditLog>>
    \/ \E e \in Expense, u \in User, action \in {"UPDATED", "RESUBMITTED"} :
          expenses[e] # NoRow /\ Log(e, action, u, 0) /\ UNCHANGED expenses
    \/ \E e \in Expense, u \in User, row \in Row :
          /\ expenses[e] = NoRow
          /\ expenses' = [expenses EXCEPT ![e] = row]
          /\ Undecided(row)
          /\ Log(e, "SUBMITTED", u, 0)
    \/ \E e \in Expense, row \in Row :
          /\ NextVersion(e, row)
          /\ Undecided(row)
          /\ UNCHANGED auditLog \/ \E u \in User : Log(e, "DELETED", u, 0)
    \/ \E e \in Expense, row \in Row, verdict \in Verdict, u \in User :
          /\ NextVersion(e, row)
          /\ Decided(row, u, verdict)
          /\ Log(e, verdict, u, row.version)

\* Once the row invariants hold, Effect covers every step of the system.
LEMMA StepEffect ==
    ASSUME TypeOK, VersionStandsForRow, RowInv, [Next]_vars
    PROVE  Effect
<1>1. CASE \E e \in Expense, u \in User, c \in Content : Submission(e, u, c)
  <2>1. PICK e \in Expense, u \in User, c \in Content : Submission(e, u, c)
    BY <1>1
  <2>2. NewRow(u, c) \in Row /\ Undecided(NewRow(u, c))
    BY DEF Row, Status, NewRow, Undecided
  <2>3. QED
    BY <2>1, <2>2 DEF Submission, Effect
<1>2. CASE \E r \in Request, e \in Expense : GuardedWrite(r, e)
  BY <1>2, GuardedEffect DEF Effect
<1>3. CASE \E r \in Request : LateEntry(r)
  <2>1. PICK r \in Request : LateEntry(r)
    BY <1>3
  <2>2. /\ req[r].expense \in Expense /\ req[r].actor \in User
        /\ expenses[req[r].expense] # NoRow
    BY <2>1, BusySession DEF LateEntry, Session, VersionStandsForRow
  <2>3. QED
    BY <2>1, <2>2 DEF LateEntry, Effect
<1>4. QED
  BY <1>1, <1>2, <1>3, TableSteps DEF Effect

-----------------------------------------------------------------------------
(* Each conjunct of the invariant is preserved. *)

\* Every entry of the audit log is an audit row.
LEMMA EntryType ==
    ASSUME TypeOK, NEW i \in DOMAIN auditLog
    PROVE  /\ auditLog[i] \in AuditRow
           /\ auditLog[i].expense \in Expense
           /\ auditLog[i].version \in Nat
<1>1. auditLog \in Seq(AuditRow)
  BY DEF TypeOK
<1>2. auditLog[i] \in AuditRow
  BY <1>1
<1>3. QED
  BY <1>2 DEF AuditRow

\* The approver and reason columns stay consistent through every effect.
LEMMA RowInvStep ==
    ASSUME TypeOK, RowInv, Effect
    PROVE  RowInv'
<1>1. ASSUME NEW e \in Expense, NEW row \in Row,
             expenses' = [expenses EXCEPT ![e] = row],
             Undecided(row) \/ \E u \in User, verdict \in Verdict : Decided(row, u, verdict)
      PROVE  RowInv'
  <2>1. /\ row.reason <=> row.status = "REJECTED"
        /\ row.approver # Nobody <=> row.status \in Verdict
        /\ row.approver # row.owner
    <3>1. CASE Undecided(row)
      BY <3>1, SentinelAssumption DEF Undecided, Verdict, Row
    <3>2. CASE \E u \in User, verdict \in Verdict : Decided(row, u, verdict)
      BY <3>2, SentinelAssumption DEF Decided
    <3>3. QED
      BY <1>1, <3>1, <3>2
  <2>2. QED
    BY <1>1, <2>1 DEF RowInv, TypeOK
<1>2. CASE UNCHANGED expenses
  BY <1>2 DEF RowInv
<1>3. QED
  BY <1>1, <1>2 DEF Effect, NextVersion

\* No audit row runs ahead of its expense, whatever is appended.
LEMMA LogInvStep ==
    ASSUME TypeOK, RowInv, LogInv, Effect
    PROVE  LogInv'
<1>1. ASSUME NEW i \in DOMAIN auditLog, auditLog'[i] = auditLog[i]
      PROVE  LET entry == auditLog'[i]
                 row == expenses'[entry.expense]
             IN  /\ row # NoRow
                 /\ entry.action \in Verdict =>
                      entry.version <= row.version /\ entry.by # row.owner
  <2> DEFINE entry == auditLog[i]
             e == entry.expense
  <2>1. /\ e \in Expense /\ entry.version \in Nat
        /\ expenses[e] # NoRow /\ expenses[e] \in Row
        /\ entry.action \in Verdict =>
             entry.version <= expenses[e].version /\ entry.by # expenses[e].owner
    BY EntryType DEF LogInv, TypeOK
  <2>2. CASE expenses'[e] = expenses[e]
    BY <1>1, <2>1, <2>2
  <2>3. ASSUME NEW row \in Row, NextVersion(e, row)
        PROVE  /\ expenses'[e] = row
               /\ row # NoRow
               /\ expenses[e].version <= row.version
               /\ row.owner = expenses[e].owner
    BY <2>1, <2>3, SentinelAssumption DEF NextVersion, TypeOK, Row
  <2>4. \/ expenses'[e] = expenses[e]
        \/ \E row \in Row : NextVersion(e, row)
    BY <2>1 DEF Effect, NextVersion, TypeOK
  <2>5. CASE \E row \in Row : NextVersion(e, row)
    <3>1. PICK row \in Row : NextVersion(e, row)
      BY <2>5
    <3>2. row.version \in Nat /\ expenses[e].version \in Nat
      BY <2>1 DEF Row
    <3>3. QED
      BY <1>1, <2>1, <2>3, <3>1, <3>2
  <2>6. QED
    BY <2>2, <2>4, <2>5
<1>2. CASE UNCHANGED auditLog
  <2>1. DOMAIN auditLog' = DOMAIN auditLog /\ \A i \in DOMAIN auditLog : auditLog'[i] = auditLog[i]
    BY <1>2
  <2>2. QED
    BY <1>1, <2>1 DEF LogInv
<1>3. ASSUME NEW e \in Expense, NEW action, NEW u, NEW v, Log(e, action, u, v),
             expenses'[e] # NoRow,
             action \in Verdict => v <= expenses'[e].version /\ u # expenses'[e].owner
      PROVE  LogInv'
  <2> SUFFICES ASSUME NEW i \in DOMAIN auditLog'
               PROVE  LET entry == auditLog'[i]
                          row == expenses'[entry.expense]
                      IN  /\ row # NoRow
                          /\ entry.action \in Verdict =>
                               entry.version <= row.version /\ entry.by # row.owner
    BY DEF LogInv
  <2>1. \/ i \in DOMAIN auditLog /\ auditLog'[i] = auditLog[i]
        \/ auditLog'[i] = [expense |-> e, action |-> action, by |-> u, version |-> v]
    <3>1. /\ DOMAIN auditLog' = DOMAIN auditLog \cup {Len(auditLog) + 1}
          /\ \A k \in DOMAIN auditLog : auditLog'[k] = auditLog[k]
          /\ auditLog'[Len(auditLog) + 1] =
               [expense |-> e, action |-> action, by |-> u, version |-> v]
      BY <1>3 DEF Log, TypeOK
    <3>2. QED
      BY <3>1, Zenon
  <2>2. CASE i \in DOMAIN auditLog /\ auditLog'[i] = auditLog[i]
    BY <1>1, <2>2
  <2>3. CASE auditLog'[i] = [expense |-> e, action |-> action, by |-> u, version |-> v]
    BY <1>3, <2>3
  <2>4. QED
    BY <2>1, <2>2, <2>3
<1>4. CASE UNCHANGED <<expenses, auditLog>>
  BY <1>2, <1>4
<1>5. CASE \E e \in Expense, u \in User, action \in {"UPDATED", "RESUBMITTED"} :
              expenses[e] # NoRow /\ Log(e, action, u, 0) /\ UNCHANGED expenses
  BY <1>3, <1>5 DEF Verdict
<1>6. CASE \E e \in Expense, u \in User, row \in Row :
             /\ expenses' = [expenses EXCEPT ![e] = row]
             /\ Log(e, "SUBMITTED", u, 0)
  BY <1>3, <1>6, SentinelAssumption DEF Verdict, TypeOK
<1>7. CASE \E e \in Expense, row \in Row :
             /\ NextVersion(e, row)
             /\ UNCHANGED auditLog \/ \E u \in User : Log(e, "DELETED", u, 0)
  BY <1>2, <1>3, <1>7, SentinelAssumption DEF Verdict, NextVersion, TypeOK
<1>8. CASE \E e \in Expense, row \in Row, verdict \in Verdict, u \in User :
             /\ NextVersion(e, row)
             /\ Decided(row, u, verdict)
             /\ Log(e, verdict, u, row.version)
  <2>1. PICK e \in Expense, row \in Row, verdict \in Verdict, u \in User :
             /\ NextVersion(e, row)
             /\ Decided(row, u, verdict)
             /\ Log(e, verdict, u, row.version)
    BY <1>8
  <2>2. expenses'[e] = row /\ row # NoRow /\ row.version \in Nat
    BY <2>1, SentinelAssumption DEF NextVersion, TypeOK, Row
  <2>3. row.version <= row.version /\ u # row.owner
    BY <2>1, <2>2 DEF Decided
  <2>4. QED
    BY <1>3, <2>1, <2>2, <2>3
<1>9. QED
  BY <1>4, <1>5, <1>6, <1>7, <1>8 DEF Effect

\* A decided row has its audit row: the entry of the deciding step, kept ever after.
LEMMA DecisionAuditedStep ==
    ASSUME TypeOK, DecisionAudited, Effect
    PROVE  DecisionAudited'
<1> SUFFICES ASSUME NEW e \in Expense, expenses'[e] # NoRow, expenses'[e].status \in Verdict
             PROVE  \E i \in DOMAIN auditLog' :
                       /\ auditLog'[i].expense = e
                       /\ auditLog'[i].action = expenses'[e].status
                       /\ auditLog'[i].by = expenses'[e].approver
                       /\ auditLog'[i].version = expenses'[e].version
  BY DEF DecisionAudited, RowsOf
<1>1. \A i \in DOMAIN auditLog : i \in DOMAIN auditLog' /\ auditLog'[i] = auditLog[i]
  <2>1. UNCHANGED auditLog \/ \E entry : auditLog' = Append(auditLog, entry)
    BY DEF Effect, Log
  <2>2. CASE UNCHANGED auditLog
    BY <2>2
  <2>3. ASSUME NEW entry, auditLog' = Append(auditLog, entry)
        PROVE  \A i \in DOMAIN auditLog : i \in DOMAIN auditLog' /\ auditLog'[i] = auditLog[i]
    BY <2>3 DEF TypeOK
  <2>4. QED
    BY <2>1, <2>2, <2>3
<1>2. CASE expenses'[e] = expenses[e]
  BY <1>1, <1>2 DEF DecisionAudited, RowsOf
<1>3. CASE \E verdict \in Verdict, u \in User, row \in Row :
             /\ expenses'[e] = row
             /\ Decided(row, u, verdict)
             /\ Log(e, verdict, u, row.version)
  <2>1. PICK verdict \in Verdict, u \in User, row \in Row :
             /\ expenses'[e] = row
             /\ Decided(row, u, verdict)
             /\ Log(e, verdict, u, row.version)
    BY <1>3
  <2> DEFINE i == Len(auditLog) + 1
  <2>2. /\ i \in DOMAIN auditLog'
        /\ auditLog'[i] = [expense |-> e, action |-> verdict, by |-> u, version |-> row.version]
    BY <2>1 DEF Log, TypeOK
  <2> HIDE DEF i
  <2>3. QED
    BY <2>1, <2>2 DEF Decided
<1>4. CASE \E row \in Row : expenses'[e] = row /\ Undecided(row)
  BY <1>4 DEF Undecided, Verdict
<1>5. QED
  BY <1>2, <1>3, <1>4 DEF Effect, NextVersion, TypeOK

\* A decision logs a version above every version logged before.
LEMMA DecisionsInOrderStep ==
    ASSUME TypeOK, LogInv, DecisionsInOrder, Effect
    PROVE  DecisionsInOrder'
<1>1. ASSUME NEW e \in Expense, NEW action, NEW u, NEW v, Log(e, action, u, v),
             \/ action \notin Verdict
             \/ expenses[e] \in Row /\ v = expenses[e].version + 1
      PROVE  DecisionsInOrder'
  <2> DEFINE n == Len(auditLog) + 1
  <2>1. /\ n \in Nat
        /\ DOMAIN auditLog' = DOMAIN auditLog \cup {n}
        /\ \A k \in DOMAIN auditLog : /\ auditLog'[k] = auditLog[k]
                                      /\ k \in Nat /\ k < n
        /\ auditLog'[n] = [expense |-> e, action |-> action, by |-> u, version |-> v]
    BY <1>1 DEF Log, TypeOK
  <2> HIDE DEF n
  <2> SUFFICES ASSUME NEW i \in DOMAIN auditLog', NEW j \in DOMAIN auditLog',
                      i < j,
                      auditLog'[i].expense = auditLog'[j].expense,
                      auditLog'[i].action \in Verdict,
                      auditLog'[j].action \in Verdict
               PROVE  auditLog'[i].version < auditLog'[j].version
    BY DEF DecisionsInOrder
  <2>2. i \in DOMAIN auditLog /\ auditLog'[i] = auditLog[i]
    BY <2>1
  <2>3. CASE j \in DOMAIN auditLog
    BY <2>1, <2>2, <2>3 DEF DecisionsInOrder
  <2>4. CASE j = n
    <3>1. auditLog[i].expense = e /\ action \in Verdict /\ auditLog'[j].version = v
      BY <2>1, <2>2, <2>4
    <3>2. expenses[e].version \in Nat /\ v = expenses[e].version + 1
      BY <1>1, <3>1 DEF Row
    <3>3. auditLog[i].version \in Nat
      BY <2>2, EntryType
    <3>4. auditLog[i].version <= expenses[e].version
      BY <2>2, <3>1 DEF LogInv
    <3>5. QED
      BY <2>2, <3>1, <3>2, <3>3, <3>4
  <2>5. QED
    BY <2>1, <2>3, <2>4
<1>2. CASE UNCHANGED auditLog
  BY <1>2 DEF DecisionsInOrder
<1>3. CASE \E e \in Expense, u \in User, action \in {"UPDATED", "RESUBMITTED", "SUBMITTED", "DELETED"} :
              Log(e, action, u, 0)
  BY <1>1, <1>3 DEF Verdict
<1>4. CASE \E e \in Expense, row \in Row, verdict \in Verdict, u \in User :
             /\ NextVersion(e, row)
             /\ Log(e, verdict, u, row.version)
  BY <1>1, <1>4 DEF NextVersion, TypeOK
<1>5. QED
  BY <1>2, <1>3, <1>4 DEF Effect

-----------------------------------------------------------------------------
(* What a step does to the memory of one request. *)

\* One request across a step: unchanged, past its write, still holding the same
\* snapshot, just created its expense, or freshly loaded from the table.
LEMMA SessionSteps ==
    ASSUME TypeOK, [Next]_vars, NEW r \in Request, Busy(r)'
    PROVE  LET s == req[r]
               new == req'[r]
           IN  \/ new = s
               \/ Busy(r) /\ new.expense = s.expense /\ ~Holding(new)
               \/ /\ Busy(r) /\ Holding(s) /\ new.expense = s.expense
                  /\ new.snap = s.snap /\ new.op = s.op /\ new.actor = s.actor
                  /\ UNCHANGED expenses
               \/ expenses'[new.expense] # NoRow /\ ~Holding(new)
               \/ /\ UNCHANGED expenses
                  /\ new.expense \in Expense
                  /\ Visible(new.expense)
                  /\ new.snap = expenses[new.expense]
                  /\ new.op \in Verdict => new.snap.owner # new.actor
<1> DEFINE s == req[r]
           new == req'[r]
<1>1. CASE UNCHANGED vars
  BY <1>1 DEF vars
<1>2. ASSUME NEW q \in Request, q # r, Start(q) \/ Continue(q) \/ Fail(q)
      PROVE  new = s
  <2>1. ASSUME NEW op, NEW u, NEW e, NEW c, NEW x, NEW p, NEW a, NEW b,
               Enter(q, op, u, e, c, x, p, a, b)
        PROVE  new = s
    BY <1>2, <2>1 DEF Enter, TypeOK
  <2>2. ASSUME NEW p, NEW w, NEW l, Await(q, p, w, l)
        PROVE  new = s
    BY <1>2, <2>2 DEF Await, TypeOK
  <2>3. ASSUME NEW a, NEW w, NEW l, Respond(q, a, w, l)
        PROVE  new = s
    BY <1>2, <2>3 DEF Respond, TypeOK
  <2>4. CASE Start(q)
    <3>1. \E op, u, e, c, x, p, a, b : Enter(q, op, u, e, c, x, p, a, b)
      <4>1. PICK u \in User, e \in Expense :
              \/ \E c \in Content : CreateExpense(q, u, e, c)
              \/ \E op \in {"update", "resubmit", "delete"}, c \in Content \cup {NoContent} :
                    LoadOwn(q, op, u, e, c)
              \/ \E verdict \in Verdict : LoadForDecision(q, verdict, u, e)
        BY <2>4 DEF Start
      <4>2. QED
        BY <4>1 DEF CreateExpense, LoadOwn, LoadForDecision, Turn
    <3>2. QED
      BY <2>1, <3>1
  <2>5. CASE Continue(q) \/ Fail(q)
    <3>1. (\E p, w, l : Await(q, p, w, l)) \/ (\E a, w, l : Respond(q, a, w, l))
      BY <2>5 DEF Continue, Fail, UpdateWrite, UpdateReread, UpdateAudit,
         ResubmitWrite, ResubmitAudit, DeleteWrite, Authorize, Decide, Notify, Refuse
    <3>2. QED
      BY <2>2, <2>3, <3>1
  <2>6. QED
    BY <1>2, <2>4, <2>5
<1>3. ASSUME Start(r)
      PROVE  \/ expenses'[new.expense] # NoRow /\ ~Holding(new)
             \/ /\ UNCHANGED expenses
                /\ new.expense \in Expense
                /\ Visible(new.expense)
                /\ new.snap = expenses[new.expense]
                /\ new.op \in Verdict => new.snap.owner # new.actor
  <2>1. PICK u \in User, e \in Expense :
          \/ \E c \in Content : CreateExpense(r, u, e, c)
          \/ \E op \in {"update", "resubmit", "delete"}, c \in Content \cup {NoContent} :
                LoadOwn(r, op, u, e, c)
          \/ \E verdict \in Verdict : LoadForDecision(r, verdict, u, e)
    BY <1>3 DEF Start
  <2>2. ASSUME NEW op, NEW c, NEW x, NEW p, NEW a, NEW b, Enter(r, op, u, e, c, x, p, a, b)
        PROVE  /\ new.op = op /\ new.actor = u /\ new.expense = e /\ new.snap = x
               /\ new.phase = p
    BY <2>2 DEF Enter, TypeOK
  <2>3. ASSUME NEW op, NEW a, Turn(r, op, u, e, a)
        PROVE  FALSE
    BY <2>2, <2>3 DEF Turn, Busy
  <2>4. ASSUME NEW c \in Content, CreateExpense(r, u, e, c)
        PROVE  expenses'[new.expense] # NoRow /\ ~Holding(new)
    <3>1. new.expense = e /\ new.phase = "notify"
      BY <2>2, <2>4 DEF CreateExpense
    <3>2. NewRow(u, c) \in Row
      BY DEF Row, Status, NewRow
    <3>3. expenses'[e] # NoRow
      BY <2>4, <3>2, SentinelAssumption DEF CreateExpense, TypeOK
    <3>4. QED
      BY <3>1, <3>3 DEF Holding
  <2>5. ASSUME NEW op \in {"update", "resubmit", "delete"}, NEW c \in Content \cup {NoContent},
               LoadOwn(r, op, u, e, c)
        PROVE  /\ UNCHANGED expenses
               /\ Visible(e) /\ new.expense = e
               /\ new.snap = expenses[e]
               /\ new.op \notin Verdict
    <3>1. /\ UNCHANGED expenses
          /\ Visible(e)
          /\ Enter(r, op, u, e, c, FindById(e), "write", "none", FALSE)
      BY <2>3, <2>5 DEF LoadOwn
    <3>2. new.op = op /\ new.expense = e /\ new.snap = FindById(e)
      BY <2>2, <3>1
    <3>3. QED
      BY <3>1, <3>2 DEF FindById, Verdict
  <2>6. ASSUME NEW verdict \in Verdict, LoadForDecision(r, verdict, u, e)
        PROVE  /\ UNCHANGED expenses
               /\ Visible(e) /\ new.expense = e
               /\ new.snap = expenses[e]
               /\ new.snap.owner # new.actor
    <3>1. /\ UNCHANGED expenses
          /\ Visible(e)
          /\ expenses[e].owner # u
          /\ Enter(r, verdict, u, e, NoContent, FindById(e), "authorize", "none", FALSE)
      BY <2>3, <2>6 DEF LoadForDecision
    <3>2. new.actor = u /\ new.expense = e /\ new.snap = FindById(e)
      BY <2>2, <3>1
    <3>3. QED
      BY <3>1, <3>2 DEF FindById
  <2>7. QED
    BY <2>1, <2>4, <2>5, <2>6
<1>4. ASSUME Continue(r) \/ Fail(r)
      PROVE  \/ Busy(r) /\ new.expense = s.expense /\ ~Holding(new)
             \/ /\ Busy(r) /\ Holding(s) /\ new.expense = s.expense
                /\ new.snap = s.snap /\ new.op = s.op /\ new.actor = s.actor
                /\ UNCHANGED expenses
  <2>1. Busy(r)
    BY <1>4 DEF Continue, UpdateWrite, UpdateReread, UpdateAudit, ResubmitWrite,
       ResubmitAudit, DeleteWrite, Authorize, Decide, Notify, Fail, At
  <2>2. s \in Session
    BY <2>1, BusySession
  <2>3. ASSUME NEW a, NEW w, NEW l, Respond(r, a, w, l)
        PROVE  FALSE
    BY <2>2, <2>3 DEF Respond, Busy, TypeOK, Session
  <2>4. ASSUME NEW p, NEW w, NEW l, Await(r, p, w, l)
        PROVE  /\ new.expense = s.expense /\ new.snap = s.snap /\ new.op = s.op
               /\ new.actor = s.actor /\ new.phase = p
    BY <2>2, <2>4 DEF Await, TypeOK, Session
  <2>5. \/ \E w, l : Await(r, "reread", w, l)
        \/ \E w, l : Await(r, "audit", w, l)
        \/ \E w, l : Await(r, "notify", w, l)
        \/ Holding(s) /\ Await(r, "decide", FALSE, FALSE) /\ UNCHANGED expenses
    BY <1>4, <2>3 DEF Continue, UpdateWrite, UpdateReread, UpdateAudit, ResubmitWrite,
       ResubmitAudit, DeleteWrite, Authorize, Decide, Notify, Fail, Refuse, At, Holding
  <2>6. ASSUME NEW p \in {"reread", "audit", "notify"}, NEW w, NEW l, Await(r, p, w, l)
        PROVE  Busy(r) /\ new.expense = s.expense /\ ~Holding(new)
    <3>1. new.expense = s.expense /\ new.phase = p
      BY <2>4, <2>6
    <3>2. QED
      BY <2>1, <3>1 DEF Holding
  <2>7. CASE Holding(s) /\ Await(r, "decide", FALSE, FALSE) /\ UNCHANGED expenses
    <3>1. /\ new.expense = s.expense /\ new.snap = s.snap /\ new.op = s.op
          /\ new.actor = s.actor
      BY <2>4, <2>7
    <3>2. QED
      BY <2>1, <2>7, <3>1
  <2>8. QED
    BY <2>5, <2>6, <2>7
<1>5. QED
  BY <1>1, <1>2, <1>3, <1>4 DEF Next

\* A snapshot stays current or becomes outdated, and is never mistaken for current.
LEMMA VersionStandsForRowStep ==
    ASSUME TypeOK, VersionStandsForRow, [Next]_vars
    PROVE  VersionStandsForRow'
<1> SUFFICES ASSUME NEW r \in Request, Busy(r)'
             PROVE  LET new == req'[r]
                        row == expenses'[new.expense]
                    IN  /\ row # NoRow
                        /\ Holding(new) =>
                             /\ new.snap \in Row
                             /\ new.snap.version <= row.version
                             /\ new.snap.version = row.version => new.snap = row
                             /\ new.op \in Verdict => new.snap.owner # new.actor
  BY DEF VersionStandsForRow, Holding
<1> DEFINE s == req[r]
           new == req'[r]
\* A row in use is kept or gets its next version.
<1>1. ASSUME NEW e \in Expense, expenses[e] # NoRow
      PROVE  /\ expenses[e] \in Row /\ expenses'[e] # NoRow
             /\ \/ expenses'[e] = expenses[e]
                \/ expenses'[e].version = expenses[e].version + 1
  <2>1. expenses[e] \in Row
    BY <1>1 DEF TypeOK
  <2>2. \/ expenses'[e] = expenses[e]
        \/ expenses'[e] \in Row /\ expenses'[e].version = expenses[e].version + 1
    BY <1>1, OneRevision
  <2>3. QED
    BY <1>1, <2>1, <2>2, SentinelAssumption
<1>2. ASSUME Busy(r)
      PROVE  /\ s.expense \in Expense
             /\ expenses[s.expense] # NoRow
             /\ Holding(s) =>
                  /\ s.snap \in Row
                  /\ s.snap.version <= expenses[s.expense].version
                  /\ s.snap.version = expenses[s.expense].version => s.snap = expenses[s.expense]
                  /\ s.op \in Verdict => s.snap.owner # s.actor
  BY <1>2, BusySession DEF VersionStandsForRow, Holding, Session
<1>3. CASE new = s
  <2>1. Busy(r)
    BY <1>3 DEF Busy
  <2> DEFINE e == s.expense
  <2>2. expenses[e] \in Row /\ expenses'[e] # NoRow /\ e \in Expense
    BY <1>1, <1>2, <2>1
  <2>3. CASE expenses'[e] = expenses[e]
    BY <1>2, <1>3, <2>1, <2>2, <2>3
  <2>4. CASE expenses'[e].version = expenses[e].version + 1
    <3>1. Holding(s) => s.snap.version \in Nat
      BY <1>2, <2>1 DEF Row
    <3>2. expenses[e].version \in Nat
      BY <2>2 DEF Row
    <3>3. Holding(s) => s.snap.version < expenses'[e].version
      BY <1>2, <2>1, <2>4, <3>1, <3>2
    <3>4. Holding(s) => s.snap.version <= expenses'[e].version /\ s.snap.version # expenses'[e].version
      BY <2>4, <3>1, <3>2, <3>3
    <3>5. QED
      BY <1>2, <1>3, <2>1, <2>2, <3>4
  <2>5. QED
    BY <1>1, <1>2, <2>1, <2>3, <2>4
<1>4. CASE Busy(r) /\ new.expense = s.expense /\ ~Holding(new)
  BY <1>1, <1>2, <1>4
<1>5. CASE /\ Busy(r) /\ Holding(s) /\ new.expense = s.expense
           /\ new.snap = s.snap /\ new.op = s.op /\ new.actor = s.actor
           /\ UNCHANGED expenses
  BY <1>2, <1>5
<1>6. CASE expenses'[new.expense] # NoRow /\ ~Holding(new)
  BY <1>6
<1>7. CASE /\ UNCHANGED expenses
           /\ new.expense \in Expense
           /\ Visible(new.expense)
           /\ new.snap = expenses[new.expense]
           /\ new.op \in Verdict => new.snap.owner # new.actor
  <2>1. new.snap \in Row /\ new.snap # NoRow
    BY <1>7, CurrentRow DEF Visible
  <2>2. new.snap.version <= new.snap.version
    BY <2>1 DEF Row
  <2>3. QED
    BY <1>7, <2>1, <2>2
<1>8. QED
  BY <1>3, <1>4, <1>5, <1>6, <1>7, SessionSteps

-----------------------------------------------------------------------------
(* The theorems. *)

\* The inductive invariant holds of every behaviour.
THEOREM Invariance == Spec => []IInv
<1>1. Init => IInv
  <2> SUFFICES ASSUME Init PROVE IInv
    OBVIOUS
  <2>1. TypeOK
    BY DEF Init, TypeOK, Idle
  <2>2. VersionStandsForRow
    BY DEF Init, VersionStandsForRow, Busy, Idle
  <2>3. auditLog = <<>> /\ \A e \in Expense : expenses[e] = NoRow
    BY DEF Init
  <2>4. RowInv /\ DecisionAudited
    BY <2>3 DEF RowInv, DecisionAudited
  <2>5. LogInv /\ DecisionsInOrder
    BY <2>3 DEF LogInv, DecisionsInOrder
  <2>6. QED
    BY <2>1, <2>2, <2>4, <2>5 DEF IInv
<1>2. TypeOK /\ TypeOK' /\ IInv /\ [Next]_vars => IInv'
  <2> SUFFICES ASSUME TypeOK, TypeOK', IInv, [Next]_vars
               PROVE  IInv'
    OBVIOUS
  <2>1. VersionStandsForRow /\ RowInv /\ LogInv /\ DecisionAudited /\ DecisionsInOrder
    BY DEF IInv
  <2>2. Effect
    BY <2>1, StepEffect
  <2>3. VersionStandsForRow'
    BY <2>1, VersionStandsForRowStep
  <2>4. RowInv' /\ LogInv'
    BY <2>1, <2>2, RowInvStep, LogInvStep
  <2>5. DecisionAudited' /\ DecisionsInOrder'
    BY <2>1, <2>2, DecisionAuditedStep, DecisionsInOrderStep
  <2>6. QED
    BY <2>3, <2>4, <2>5 DEF IInv
<1>3. QED
  BY <1>1, <1>2, TypeCorrect, PTL DEF Spec

\* A handler that still has to write never holds another row with the stored row's
\* version, so comparing versions is enough.
THEOREM SnapshotsAreSound == Spec => []VersionStandsForRow
<1>1. IInv => VersionStandsForRow
  BY DEF IInv
<1>2. QED
  BY <1>1, Invariance, PTL

\* No version of an expense is decided twice and decisions are logged in order.
THEOREM OrderedDecisions == Spec => []DecisionsInOrder
<1>1. IInv => DecisionsInOrder
  BY DEF IInv
<1>2. QED
  BY <1>1, Invariance, PTL

\* The decision shown on an expense is the one in its audit trail.
THEOREM AuditedDecisions == Spec => []DecisionAudited
<1>1. IInv => DecisionAudited
  BY DEF IInv
<1>2. QED
  BY <1>1, Invariance, PTL

\* Reason and approver columns are set exactly when the status calls for them.
THEOREM ConsistentColumns == Spec => []DecisionColumnsAgree
<1>1. IInv => DecisionColumnsAgree
  BY DEF IInv, RowInv, DecisionColumnsAgree
<1>2. QED
  BY <1>1, Invariance, PTL

\* Nobody decides an expense of their own, in the row and in the audit trail.
THEOREM SeparationOfDuties == Spec => []NobodyDecidesTheirOwn
<1>1. IInv => NobodyDecidesTheirOwn
  BY DEF IInv, RowInv, LogInv, NobodyDecidesTheirOwn, RowsOf
<1>2. QED
  BY <1>1, Invariance, PTL

\* Only a handler that read exactly the stored row changes it.
THEOREM OptimisticConcurrency == Spec => WritesOnWhatWasRead
<1> DEFINE Held(e) == expenses[e] # NoRow /\ expenses'[e] # expenses[e]
                        => \E r \in Request : /\ Busy(r)
                                              /\ req[r].expense = e
                                              /\ req[r].snap = expenses[e]
<1>1. IInv /\ [Next]_vars => [\A e \in Expense : Held(e)]_vars
  <2> SUFFICES ASSUME IInv, [Next]_vars, NEW e \in Expense
               PROVE  Held(e)
    OBVIOUS
  <2>1. TypeOK /\ VersionStandsForRow
    BY DEF IInv
  <2>2. CASE UNCHANGED expenses
    BY <2>2
  <2>3. CASE \E f \in Expense, u \in User, c \in Content : Submission(f, u, c)
    BY <2>1, <2>3 DEF Submission, TypeOK
  <2>4. CASE \E r \in Request, f \in Expense : GuardedWrite(r, f)
    <3>1. PICK r \in Request, f \in Expense : GuardedWrite(r, f)
      BY <2>4
    <3>2. Busy(r) /\ req[r].expense = f /\ req[r].snap = expenses[f]
      BY <2>1, <3>1 DEF GuardedWrite, VersionStandsForRow, Holding
    <3>3. e # f => expenses'[e] = expenses[e]
      BY <2>1, <3>1 DEF GuardedWrite, TypeOK
    <3>4. QED
      BY <3>2, <3>3
  <2>5. QED
    BY <2>1, <2>2, <2>3, <2>4, TableSteps DEF LateEntry
<1>2. QED
  BY <1>1, Invariance, PTL DEF Spec, WritesOnWhatWasRead

-----------------------------------------------------------------------------
(* Refinement: every step is a step of ExpenseContract or leaves it alone. *)

\* The mapped variables before and after a step that gives one expense a new row.
LEMMA MappedStep ==
    ASSUME TypeOK, NEW e \in Expense, NEW row \in Row,
           expenses' = [expenses EXCEPT ![e] = row]
    PROVE  /\ [x \in Expense |-> ContractState(x)']
                = [[x \in Expense |-> ContractState(x)] EXCEPT
                     ![e] = IF row.deleted THEN "DELETED" ELSE row.status]
           /\ [x \in Expense |-> ContractOwner(x)']
                = [[x \in Expense |-> ContractOwner(x)] EXCEPT ![e] = row.owner]
           /\ [x \in Expense |-> ContractDecider(x)']
                = [[x \in Expense |-> ContractDecider(x)] EXCEPT ![e] = row.approver]
           /\ [x \in Expense |-> ContractRevision(x)']
                = [[x \in Expense |-> ContractRevision(x)] EXCEPT ![e] = row.version]
<1>1. expenses'[e] = row /\ row # NoRow
  BY SentinelAssumption DEF TypeOK
<1>2. \A x \in Expense : x # e => expenses'[x] = expenses[x]
  BY DEF TypeOK
<1>3. /\ ContractState(e)' = IF row.deleted THEN "DELETED" ELSE row.status
      /\ \A x \in Expense : x # e => ContractState(x)' = ContractState(x)
  BY <1>1, <1>2 DEF ContractState
<1>4. /\ ContractOwner(e)' = row.owner
      /\ \A x \in Expense : x # e => ContractOwner(x)' = ContractOwner(x)
  BY <1>1, <1>2 DEF ContractOwner
<1>5. /\ ContractDecider(e)' = row.approver
      /\ \A x \in Expense : x # e => ContractDecider(x)' = ContractDecider(x)
  BY <1>1, <1>2 DEF ContractDecider
<1>6. /\ ContractRevision(e)' = row.version
      /\ \A x \in Expense : x # e => ContractRevision(x)' = ContractRevision(x)
  BY <1>1, <1>2 DEF ContractRevision
<1>7. QED
  BY <1>3, <1>4, <1>5, <1>6

\* A guarded write is an Edit, Resubmit, Withdraw or Decide of the contract.
LEMMA WriteRefines ==
    ASSUME TypeOK, VersionStandsForRow, NEW r \in Request, NEW e \in Expense, GuardedWrite(r, e)
    PROVE  Contract!Next
<1> DEFINE old == expenses[e]
           u == req[r].actor
           body == req[r].body
<1>1. u \in User /\ body \in Content \cup {NoContent}
  BY BusySession DEF GuardedWrite, Session
<1>2. old \in Row /\ old # NoRow /\ ~old.deleted
  BY CurrentRow DEF GuardedWrite, Visible
<1>3. /\ ContractState(e) = old.status /\ ContractOwner(e) = old.owner
      /\ ContractDecider(e) = old.approver /\ ContractRevision(e) = old.version
  BY <1>2 DEF ContractState, ContractOwner, ContractDecider, ContractRevision
<1>4. ASSUME NEW row \in Row, expenses' = [expenses EXCEPT ![e] = row],
             row.version = old.version + 1, row.owner = old.owner
      PROVE  /\ Contract!Revise(e)
             /\ UNCHANGED [x \in Expense |-> ContractOwner(x)]
             /\ [x \in Expense |-> ContractState(x)]'
                  = [[x \in Expense |-> ContractState(x)] EXCEPT
                       ![e] = IF row.deleted THEN "DELETED" ELSE row.status]
             /\ [x \in Expense |-> ContractDecider(x)]'
                  = [[x \in Expense |-> ContractDecider(x)] EXCEPT ![e] = row.approver]
  <2>1. /\ [x \in Expense |-> ContractState(x)]'
             = [[x \in Expense |-> ContractState(x)] EXCEPT
                  ![e] = IF row.deleted THEN "DELETED" ELSE row.status]
        /\ [x \in Expense |-> ContractDecider(x)]'
             = [[x \in Expense |-> ContractDecider(x)] EXCEPT ![e] = row.approver]
    BY <1>4, MappedStep
  <2>2. [x \in Expense |-> ContractOwner(x)]'
          = [[x \in Expense |-> ContractOwner(x)] EXCEPT ![e] = row.owner]
    BY <1>4, MappedStep
  <2>3. UNCHANGED [x \in Expense |-> ContractOwner(x)]
    BY <1>3, <1>4, <2>2
  <2>4. [x \in Expense |-> ContractRevision(x)]'
          = [[x \in Expense |-> ContractRevision(x)] EXCEPT ![e] = row.version]
    BY <1>4, MappedStep
  <2>5. row.version = [x \in Expense |-> ContractRevision(x)][e] + 1
    BY <1>3, <1>4
  <2>6. Contract!Revise(e)
    BY <2>4, <2>5 DEF Contract!Revise
  <2>7. QED
    BY <2>1, <2>3, <2>6
<1>5. CASE /\ old.status = "PENDING"
           /\ expenses' = [expenses EXCEPT ![e] = EditedRow(@, body)]
  <2> DEFINE row == EditedRow(old, body)
  <2>1. row \in Row /\ row.version = old.version + 1 /\ row.owner = old.owner
    BY <1>1, <1>2, RowUpdates, EditedShape
  <2>2. row.status = old.status /\ row.approver = old.approver /\ ~row.deleted
    BY <1>1, <1>2, EditedShape
  <2> HIDE DEF row
  <2>3. expenses' = [expenses EXCEPT ![e] = row]
    BY <1>5 DEF row
  <2>4. Contract!Edit(e)
    BY <1>3, <1>4, <1>5, <2>1, <2>2, <2>3 DEF Contract!Edit
  <2>5. QED
    BY <2>4 DEF Contract!Next
<1>6. CASE /\ old.status = "REJECTED"
           /\ expenses' = [expenses EXCEPT ![e] = ResubmittedRow(@, body)]
  <2> DEFINE row == ResubmittedRow(old, body)
  <2>1. row \in Row /\ row.version = old.version + 1 /\ row.owner = old.owner
    BY <1>1, <1>2, RowUpdates, ResubmittedShape
  <2>2. row.status = "PENDING" /\ row.approver = Nobody /\ ~row.deleted
    BY <1>1, <1>2 DEF Row, ResubmittedRow
  <2> HIDE DEF row
  <2>3. expenses' = [expenses EXCEPT ![e] = row]
    BY <1>6 DEF row
  <2>4. Contract!Resubmit(e)
    BY <1>3, <1>4, <1>6, <2>1, <2>2, <2>3 DEF Contract!Resubmit
  <2>5. QED
    BY <2>4 DEF Contract!Next
<1>7. CASE /\ old.status = "PENDING"
           /\ expenses' = [expenses EXCEPT ![e] = DeletedRow(@)]
  <2> DEFINE row == DeletedRow(old)
  <2>1. row \in Row /\ row.version = old.version + 1 /\ row.owner = old.owner
    BY <1>1, <1>2, RowUpdates, DeletedShape
  <2>2. row.approver = old.approver /\ row.deleted
    BY <1>1, <1>2, DeletedShape
  <2> HIDE DEF row
  <2>3. expenses' = [expenses EXCEPT ![e] = row]
    BY <1>7 DEF row
  <2>4. UNCHANGED [x \in Expense |-> ContractDecider(x)]
    <3>1. [x \in Expense |-> ContractDecider(x)]'
            = [[x \in Expense |-> ContractDecider(x)] EXCEPT ![e] = row.approver]
      BY <1>4, <2>1, <2>3
    <3>2. row.approver = ContractDecider(e)
      BY <1>3, <2>2
    <3>3. QED
      BY <3>1, <3>2
  <2>5. [x \in Expense |-> ContractState(x)]'
          = [[x \in Expense |-> ContractState(x)] EXCEPT ![e] = "DELETED"]
    BY <1>4, <2>1, <2>2, <2>3
  <2>6. Contract!Withdraw(e)
    BY <1>3, <1>4, <1>7, <2>1, <2>3, <2>4, <2>5 DEF Contract!Withdraw
  <2>7. QED
    BY <2>6 DEF Contract!Next
<1>8. ASSUME NEW verdict \in Verdict,
             old.status = "PENDING",
             req[r].op = verdict,
             expenses' = [expenses EXCEPT ![e] = DecidedRow(@, u, verdict)]
      PROVE  Contract!Next
  <2> DEFINE row == DecidedRow(old, u, verdict)
  <2>1. row \in Row
    BY <1>1, <1>2, RowUpdates
  <2>2. row.version = old.version + 1 /\ row.owner = old.owner
    BY <1>1, <1>2 DEF Row, DecidedRow
  <2>3. row.status = verdict /\ row.approver = u /\ ~row.deleted
    BY <1>1, <1>2 DEF Row, DecidedRow
  <2>4. old.owner # u
    <3>1. req[r].snap = old
      BY <1>2 DEF VersionStandsForRow, Holding, GuardedWrite
    <3>2. QED
      BY <1>2, <1>8, <3>1 DEF VersionStandsForRow, Holding, GuardedWrite
  <2> HIDE DEF row
  <2>5. expenses' = [expenses EXCEPT ![e] = row]
    BY <1>8 DEF row
  <2>6. Contract!Decide(e, u, verdict)
    BY <1>3, <1>4, <1>8, <2>1, <2>2, <2>3, <2>4, <2>5 DEF Contract!Decide
  <2>7. QED
    BY <1>1, <2>6 DEF Contract!Next, Verdict
<1>9. QED
  BY <1>5, <1>6, <1>7, <1>8 DEF GuardedWrite

\* The handlers implement the contract.
THEOREM Refinement == Spec => ImplementsContract
<1>1. Init => Contract!Init
  BY DEF Init, Contract!Init, ContractState, ContractOwner, ContractDecider, ContractRevision
<1>2. IInv /\ [Next]_vars => [Contract!Next]_(Contract!vars)
  <2> SUFFICES ASSUME IInv, [Next]_vars
               PROVE  Contract!Next \/ UNCHANGED Contract!vars
    OBVIOUS
  <2>1. TypeOK /\ VersionStandsForRow
    BY DEF IInv
  <2>2. CASE UNCHANGED expenses
    BY <2>2 DEF Contract!vars, ContractState, ContractOwner, ContractDecider, ContractRevision
  <2>3. CASE \E e \in Expense, u \in User, c \in Content : Submission(e, u, c)
    <3>1. PICK e \in Expense, u \in User, c \in Content : Submission(e, u, c)
      BY <2>3
    <3> DEFINE row == NewRow(u, c)
    <3>2. /\ row \in Row /\ row.status = "PENDING" /\ ~row.deleted /\ row.owner = u
          /\ row.approver = Nobody /\ row.version = 1
      BY DEF Row, Status, NewRow
    <3>3. expenses[e] = NoRow /\ expenses' = [expenses EXCEPT ![e] = row]
      BY <3>1 DEF Submission
    <3> HIDE DEF row
    <3>4. /\ ContractState(e) = "none" /\ ContractDecider(e) = Nobody
          /\ ContractRevision(e) = 0
      BY <3>3 DEF ContractState, ContractDecider, ContractRevision
    <3>5. /\ [x \in Expense |-> ContractState(x)]'
               = [[x \in Expense |-> ContractState(x)] EXCEPT
                    ![e] = IF row.deleted THEN "DELETED" ELSE row.status]
          /\ [x \in Expense |-> ContractOwner(x)]'
               = [[x \in Expense |-> ContractOwner(x)] EXCEPT ![e] = row.owner]
          /\ [x \in Expense |-> ContractDecider(x)]'
               = [[x \in Expense |-> ContractDecider(x)] EXCEPT ![e] = row.approver]
          /\ [x \in Expense |-> ContractRevision(x)]'
               = [[x \in Expense |-> ContractRevision(x)] EXCEPT ![e] = row.version]
      BY <2>1, <3>2, <3>3, MappedStep, Zenon
    <3>6. UNCHANGED [x \in Expense |-> ContractDecider(x)]
      BY <3>2, <3>4, <3>5
    <3>7. Contract!Revise(e)
      <4>1. row.version = [x \in Expense |-> ContractRevision(x)][e] + 1
        BY <3>2, <3>4
      <4>2. QED
        BY <3>5, <4>1 DEF Contract!Revise
    <3>8. Contract!Submit(e, u)
      BY <3>2, <3>4, <3>5, <3>6, <3>7 DEF Contract!Submit
    <3>9. QED
      BY <3>8 DEF Contract!Next
  <2>4. CASE \E r \in Request, e \in Expense : GuardedWrite(r, e)
    BY <2>1, <2>4, WriteRefines
  <2>5. QED
    BY <2>1, <2>2, <2>3, <2>4, TableSteps DEF LateEntry
<1>3. QED
  BY <1>1, <1>2, Invariance, PTL DEF Spec, ImplementsContract, Contract!Spec

-----------------------------------------------------------------------------
(***************************************************************************)
(* Counting: versions against audit rows, notices against audit rows.      *)
(* Both balances hold because the ghosts wrote and logged of a request     *)
(* follow its phase (SessionInv), so each step moves one unit from one     *)
(* column to another.  Requests may be infinitely many: those that count   *)
(* are finitely many, since one step adds one of them.                     *)
(***************************************************************************)

\* What the phase of a request says of its write and of its audit row.
SessionInv ==
    \A r \in Request : Busy(r) =>
        /\ Holding(req[r]) => ~req[r].wrote
        /\ req[r].phase \in {"reread", "audit"} => req[r].wrote /\ ~req[r].logged
        /\ req[r].phase = "notify" => req[r].wrote /\ req[r].logged

\* The writes whose audit row is still to come.
Open(e) == {r \in Request : Busy(r) /\ req[r].expense = e /\ req[r].wrote /\ ~req[r].logged}

\* The notices still to come.
Telling(e, t) == {r \in Request : /\ Busy(r) /\ req[r].phase = "notify"
                                  /\ req[r].expense = e /\ NoticeOf(req[r].op) = t}

Books ==
    \A e \in Expense :
        /\ IsFiniteSet(Open(e))
        /\ ContractRevision(e) = Cardinality(RowsOf(e)) + unlogged[e] + Cardinality(Open(e))

NoticeBooks ==
    \A e \in Expense, t \in NoticeType :
        /\ IsFiniteSet(Telling(e, t))
        /\ notices[e][t] + Cardinality(Telling(e, t)) <= Cardinality(RowsOfAction(e, t))

\* Nothing happens to the other requests.
Others(r) == \A q \in Request \ {r} : req'[q] = req[q]

\* A set that differs from another in one element at most is as large, or one larger
\* or smaller.
LEMMA OneElement ==
    ASSUME NEW S, NEW T, NEW x, IsFiniteSet(S), T \ {x} = S \ {x}
    PROVE  /\ IsFiniteSet(T) /\ Cardinality(S) \in Nat
           /\ (x \in T <=> x \in S) => Cardinality(T) = Cardinality(S)
           /\ x \in T /\ x \notin S => Cardinality(T) = Cardinality(S) + 1
           /\ x \notin T /\ x \in S => Cardinality(S) = Cardinality(T) + 1 /\ Cardinality(T) \in Nat
<1>1. Cardinality(S) \in Nat
  BY FS_CardinalityType
<1>2. CASE x \in T <=> x \in S
  <2>1. T = S
    BY <1>2
  <2>2. QED
    BY <1>1, <1>2, <2>1
<1>3. CASE x \in T /\ x \notin S
  <2>1. T = S \cup {x}
    BY <1>3
  <2>2. QED
    BY <1>1, <1>3, <2>1, FS_AddElement
<1>4. CASE x \notin T /\ x \in S
  <2>1. S = T \cup {x} /\ T = S \ {x}
    BY <1>4
  <2>2. IsFiniteSet(T)
    BY <2>1, FS_RemoveElement
  <2>3. Cardinality(S) = Cardinality(T) + 1 /\ Cardinality(T) \in Nat
    BY <1>4, <2>1, <2>2, FS_AddElement, FS_CardinalityType
  <2>4. QED
    BY <1>1, <1>4, <2>2, <2>3
<1>5. QED
  BY <1>2, <1>3, <1>4

\* The audit rows of an expense, and those of one action, are finitely many.
LEMMA RowsAreFinite ==
    ASSUME TypeOK, NEW e, NEW t
    PROVE  /\ IsFiniteSet(RowsOf(e)) /\ Cardinality(RowsOf(e)) \in Nat
           /\ IsFiniteSet(RowsOfAction(e, t)) /\ Cardinality(RowsOfAction(e, t)) \in Nat
<1>1. DOMAIN auditLog = 1 .. Len(auditLog) /\ Len(auditLog) \in Nat
  BY DEF TypeOK
<1>2. IsFiniteSet(DOMAIN auditLog)
  BY <1>1, FS_Interval
<1>3. RowsOf(e) \subseteq DOMAIN auditLog /\ RowsOfAction(e, t) \subseteq DOMAIN auditLog
  BY DEF RowsOf, RowsOfAction
<1>4. IsFiniteSet(RowsOf(e)) /\ IsFiniteSet(RowsOfAction(e, t))
  BY <1>2, <1>3, FS_Subset
<1>5. QED
  BY <1>4, FS_CardinalityType

\* An INSERT INTO audit_logs adds one row, to its expense and its action only.
LEMMA LogCounts ==
    ASSUME TypeOK, NEW x, NEW action, NEW u, NEW v, Log(x, action, u, v)
    PROVE  /\ Cardinality(RowsOf(x)') = Cardinality(RowsOf(x)) + 1
           /\ \A e : e # x => RowsOf(e)' = RowsOf(e)
           /\ Cardinality(RowsOfAction(x, action)') = Cardinality(RowsOfAction(x, action)) + 1
           /\ \A e, t : e # x \/ t # action => RowsOfAction(e, t)' = RowsOfAction(e, t)
<1> DEFINE n == Len(auditLog) + 1
           entry == [expense |-> x, action |-> action, by |-> u, version |-> v]
<1>1. /\ DOMAIN auditLog' = DOMAIN auditLog \cup {n} /\ n \notin DOMAIN auditLog
      /\ auditLog'[n] = entry
      /\ \A i \in DOMAIN auditLog : auditLog'[i] = auditLog[i]
  BY DEF Log, TypeOK
<1>2. entry.expense = x /\ entry.action = action
  OBVIOUS
<1> HIDE DEF n, entry
<1>3. \A e : RowsOf(e)' = IF e = x THEN RowsOf(e) \cup {n} ELSE RowsOf(e)
  BY <1>1, <1>2 DEF RowsOf
<1>4. \A e, t : RowsOfAction(e, t)' = IF e = x /\ t = action THEN RowsOfAction(e, t) \cup {n}
                                      ELSE RowsOfAction(e, t)
  BY <1>1, <1>2 DEF RowsOf, RowsOfAction
<1>5. n \notin RowsOf(x) /\ n \notin RowsOfAction(x, action)
  BY <1>1 DEF RowsOf, RowsOfAction
<1>6. IsFiniteSet(RowsOf(x)) /\ IsFiniteSet(RowsOfAction(x, action))
  BY RowsAreFinite
<1>7. /\ Cardinality(RowsOf(x) \cup {n}) = Cardinality(RowsOf(x)) + 1
      /\ Cardinality(RowsOfAction(x, action) \cup {n}) = Cardinality(RowsOfAction(x, action)) + 1
  BY <1>5, <1>6, FS_AddElement
<1>8. QED
  BY <1>3, <1>4, <1>7

\* What a request looks like after Enter,
LEMMA EnterFields ==
    ASSUME TypeOK, NEW r \in Request, NEW op, NEW u, NEW e, NEW body, NEW snap, NEW phase,
           NEW answer, NEW done \in BOOLEAN,
           Enter(r, op, u, e, body, snap, phase, answer, done)
    PROVE  /\ Others(r) /\ ~Busy(r)
           /\ req'[r].op = op /\ req'[r].expense = e /\ req'[r].phase = phase
           /\ req'[r].answer = answer
           /\ req'[r].wrote <=> done
           /\ req'[r].logged <=> done
BY DEF Enter, TypeOK, Others

\* after Await,
LEMMA AwaitFields ==
    ASSUME TypeOK, NEW r \in Request, Busy(r), NEW phase, NEW wrote \in BOOLEAN,
           NEW logged \in BOOLEAN, Await(r, phase, wrote, logged)
    PROVE  /\ Others(r)
           /\ req'[r].op = req[r].op /\ req'[r].expense = req[r].expense
           /\ req'[r].phase = phase
           /\ req'[r].wrote <=> wrote
           /\ req'[r].logged <=> logged
<1>1. req[r] \in Session
  BY BusySession
<1>2. QED
  BY <1>1 DEF Await, TypeOK, Others, Session

\* and after Respond.
LEMMA RespondFields ==
    ASSUME TypeOK, NEW r \in Request, Busy(r), NEW answer, NEW wrote \in BOOLEAN,
           NEW logged \in BOOLEAN, Respond(r, answer, wrote, logged)
    PROVE  /\ Others(r)
           /\ req'[r].op = req[r].op /\ req'[r].expense = req[r].expense
           /\ req'[r].phase = "done" /\ req'[r].answer = answer
           /\ req'[r].wrote <=> wrote
           /\ req'[r].logged <=> logged
<1>1. req[r] \in Session
  BY BusySession
<1>2. QED
  BY <1>1 DEF Respond, TypeOK, Others, Session

\* The next version of one row is one revision more of that expense, and of no other.
LEMMA NextRevision ==
    ASSUME TypeOK, NEW x \in Expense, NEW row \in Row, expenses' = [expenses EXCEPT ![x] = row],
           row.version = ContractRevision(x) + 1
    PROVE  /\ ContractRevision(x)' = ContractRevision(x) + 1
           /\ \A e \in Expense \ {x} : ContractRevision(e)' = ContractRevision(e)
<1>1. expenses'[x] = row /\ \A e \in Expense \ {x} : expenses'[e] = expenses[e]
  BY DEF TypeOK
<1>2. QED
  BY <1>1, SentinelAssumption DEF ContractRevision

\* The kinds of step of a request r for expense x.
Enters(r, x) ==
    /\ ~Busy(r)
    /\ ~req'[r].wrote /\ req'[r].phase \in {"write", "authorize", "done"}
    /\ UNCHANGED <<expenses, auditLog, notices, unlogged>>
Creates(r, x) ==
    /\ ~Busy(r)
    /\ req'[r].wrote /\ req'[r].logged
    /\ req'[r].phase = "notify" /\ NoticeOf(req'[r].op) = "SUBMITTED"
    /\ ContractRevision(x)' = ContractRevision(x) + 1
    /\ \E u, v : Log(x, "SUBMITTED", u, v)
    /\ UNCHANGED <<notices, unlogged>>
Writes(r, x) ==
    /\ Busy(r) /\ Holding(req[r])
    /\ req'[r].wrote
    /\ ContractRevision(x)' = ContractRevision(x) + 1
    /\ \/ /\ ~req'[r].logged /\ req'[r].phase \in {"reread", "audit"}
          /\ UNCHANGED auditLog
       \/ /\ req'[r].logged /\ req'[r].phase = "notify"
          /\ \E u, v : Log(x, NoticeOf(req'[r].op), u, v)
       \/ /\ req'[r].logged /\ req'[r].phase = "done" /\ req'[r].answer = "ok"
          /\ \E u, v : Log(x, "DELETED", u, v)
    /\ UNCHANGED <<notices, unlogged>>
LogsLate(r, x) ==
    /\ Busy(r) /\ req[r].phase = "audit"
    /\ req'[r].wrote /\ req'[r].logged
    /\ \/ /\ req'[r].phase = "notify"
          /\ \E u, v : Log(x, NoticeOf(req'[r].op), u, v)
       \/ /\ req'[r].phase = "done" /\ req'[r].answer = "ok"
          /\ \E u, v : Log(x, "UPDATED", u, v)
    /\ UNCHANGED <<expenses, notices, unlogged>>
GoesOn(r, x) ==
    /\ Busy(r)
    /\ \/ Holding(req[r]) /\ Holding(req'[r]) /\ ~req'[r].wrote
       \/ /\ req[r].phase = "reread" /\ req'[r].phase = "audit"
          /\ req'[r].wrote /\ ~req'[r].logged
    /\ UNCHANGED <<expenses, auditLog, notices, unlogged>>
GivesUp(r, x) ==
    /\ Busy(r) /\ req[r].wrote /\ ~req[r].logged
    /\ req'[r].phase = "done" /\ req'[r].wrote
    /\ req'[r].answer = "error" \/ (req'[r].op = "update" /\ ~Visible(x))
    /\ unlogged' = [unlogged EXCEPT ![x] = @ + 1]
    /\ UNCHANGED <<expenses, auditLog, notices>>
Ends(r, x) ==
    /\ Busy(r) /\ ~(req[r].wrote /\ ~req[r].logged)
    /\ req'[r].phase = "done"
    /\ req'[r].answer = "error" \/ ~req'[r].wrote
    /\ UNCHANGED <<expenses, auditLog, notices, unlogged>>
Notifies(r, x) ==
    /\ Busy(r) /\ req[r].phase = "notify"
    /\ req'[r].phase = "done" /\ req'[r].answer = "ok"
    /\ notices' = [notices EXCEPT ![x][NoticeOf(req[r].op)] = @ + 1] \/ UNCHANGED notices
    /\ UNCHANGED <<expenses, auditLog, unlogged>>

Kind(r, x) ==
    \/ Enters(r, x) \/ Creates(r, x) \/ Writes(r, x) \/ LogsLate(r, x)
    \/ GoesOn(r, x) \/ GivesUp(r, x) \/ Ends(r, x) \/ Notifies(r, x)

Move(r, x) ==
    /\ Others(r)
    /\ req'[r].expense = x
    /\ Busy(r) => req[r].expense = x /\ req[r].op = req'[r].op
    /\ \A e \in Expense \ {x} : ContractRevision(e)' = ContractRevision(e)
    /\ Kind(r, x)

\* The first round trip of every handler.
LEMMA StartMoves ==
    ASSUME TypeOK, NEW r \in Request, Start(r)
    PROVE  \E x \in Expense : Move(r, x)
<1>1. PICK u \in User, x \in Expense :
        \/ \E c \in Content : CreateExpense(r, u, x, c)
        \/ \E op \in {"update", "resubmit", "delete"}, c \in Content \cup {NoContent} :
              LoadOwn(r, op, u, x, c)
        \/ \E verdict \in Verdict : LoadForDecision(r, verdict, u, x)
  BY DEF Start
<1>2. ASSUME NEW c \in Content, CreateExpense(r, u, x, c) PROVE Move(r, x)
  <2>1. Enter(r, "create", u, x, NoContent, NoRow, "notify", "none", TRUE)
    BY <1>2 DEF CreateExpense
  <2>2. /\ Others(r) /\ ~Busy(r)
        /\ req'[r].op = "create" /\ req'[r].expense = x /\ req'[r].phase = "notify"
        /\ req'[r].wrote /\ req'[r].logged
    <3>1. ASSUME NEW op, NEW body, NEW snap, NEW phase, NEW answer,
                 Enter(r, op, u, x, body, snap, phase, answer, TRUE)
          PROVE  /\ Others(r) /\ ~Busy(r)
                 /\ req'[r].op = op /\ req'[r].expense = x /\ req'[r].phase = phase
                 /\ req'[r].wrote /\ req'[r].logged
      BY <3>1 DEF Enter, TypeOK, Others
    <3>2. QED
      BY <2>1, <3>1
  <2>3. NewRow(u, c) \in Row /\ NewRow(u, c).version = ContractRevision(x) + 1
    BY <1>2 DEF CreateExpense, ContractRevision, NewRow, Row, Status
  <2>4. /\ ContractRevision(x)' = ContractRevision(x) + 1
        /\ \A e \in Expense \ {x} : ContractRevision(e)' = ContractRevision(e)
    BY <1>2, <2>3, NextRevision DEF CreateExpense
  <2>5. NoticeOf(req'[r].op) = "SUBMITTED"
    BY <2>2 DEF NoticeOf, Verdict
  <2>6. Creates(r, x)
    BY <1>2, <2>2, <2>4, <2>5 DEF CreateExpense, Creates
  <2>7. QED
    BY <2>2, <2>4, <2>6 DEF Move, Kind
<1>3. ASSUME NEW op, NEW body, NEW snap, NEW phase \in {"write", "authorize", "done"}, NEW answer,
             Enter(r, op, u, x, body, snap, phase, answer, FALSE),
             UNCHANGED <<expenses, auditLog, notices, unlogged>>
      PROVE  Move(r, x)
  <2>1. /\ Others(r) /\ ~Busy(r)
        /\ req'[r].expense = x /\ req'[r].phase = phase /\ ~req'[r].wrote
    BY <1>3, EnterFields
  <2>2. QED
    BY <1>3, <2>1 DEF Move, Kind, Enters, ContractRevision
<1>4. QED
  BY <1>1, <1>2, <1>3 DEF LoadOwn, LoadForDecision, Turn

\* Every later round trip, and a request that is cut off.
LEMMA ContinueMoves ==
    ASSUME TypeOK, VersionStandsForRow, SessionInv, NEW r \in Request, Continue(r) \/ Fail(r)
    PROVE  \E x \in Expense : Move(r, x)
<1>1. Busy(r) /\ req[r] \in Session
  BY BusySession DEF Continue, UpdateWrite, UpdateReread, UpdateAudit, ResubmitWrite,
     ResubmitAudit, DeleteWrite, Authorize, Decide, Notify, Fail, At
<1>2. PICK x \in Expense, body \in Content \cup {NoContent} :
        /\ x = req[r].expense /\ body = req[r].body /\ req[r].actor \in User
        /\ req[r].wrote \in BOOLEAN /\ req[r].logged \in BOOLEAN
  BY <1>1 DEF Session
<1> SUFFICES Move(r, x)
  BY <1>2
<1>3. ASSUME NEW answer, Refuse(r, answer), Holding(req[r])
      PROVE  Move(r, x)
  <2>1. /\ Others(r) /\ req'[r].op = req[r].op /\ req'[r].expense = x
        /\ req'[r].phase = "done" /\ ~req'[r].wrote
    BY <1>1, <1>2, <1>3, RespondFields DEF Refuse
  <2>2. ~req[r].wrote
    BY <1>1, <1>3 DEF SessionInv
  <2>3. Ends(r, x)
    BY <1>1, <1>3, <2>1, <2>2 DEF Ends, Refuse
  <2>4. QED
    BY <1>2, <1>3, <2>1, <2>3 DEF Move, Kind, Refuse, ContractRevision
<1>4. ASSUME Visible(x), NEW verdict \in Verdict, NEW new,
             \/ new = EditedRow(expenses[x], body)
             \/ new = ResubmittedRow(expenses[x], body)
             \/ new = DeletedRow(expenses[x])
             \/ new = DecidedRow(expenses[x], req[r].actor, verdict),
             expenses' = [expenses EXCEPT ![x] = new]
      PROVE  /\ ContractRevision(x)' = ContractRevision(x) + 1
             /\ \A e \in Expense \ {x} : ContractRevision(e)' = ContractRevision(e)
  <2>1. expenses[x] \in Row /\ ContractRevision(x) = expenses[x].version
    BY <1>2, <1>4, CurrentRow DEF Visible, ContractRevision
  <2>2. new \in Row
    BY <1>2, <1>4, <2>1, RowUpdates
  <2>3. new.version = expenses[x].version + 1
    <3>1. DecidedRow(expenses[x], req[r].actor, verdict).version = expenses[x].version + 1
      BY <2>1 DEF DecidedRow, Row
    <3>2. EditedRow(expenses[x], body).version = expenses[x].version + 1
      BY <1>2, <2>1, EditedShape
    <3>3. ResubmittedRow(expenses[x], body).version = expenses[x].version + 1
      BY <1>2, <2>1, ResubmittedShape
    <3>4. DeletedRow(expenses[x]).version = expenses[x].version + 1
      BY <2>1, DeletedShape
    <3>5. QED
      BY <1>4, <3>1, <3>2, <3>3, <3>4, Zenon
  <2>4. QED
    <3>1. new.version = ContractRevision(x) + 1
      BY <2>1, <2>3
    <3>2. QED
      BY <1>2, <1>4, <2>2, <3>1, NextRevision
<1>5. ASSUME NEW phase \in {"reread", "audit"}, Await(r, phase, TRUE, FALSE), Holding(req[r]),
             Visible(x),
             \/ expenses' = [expenses EXCEPT ![x] = EditedRow(@, body)]
             \/ expenses' = [expenses EXCEPT ![x] = ResubmittedRow(@, body)],
             UNCHANGED <<auditLog, notices, served, unlogged>>
      PROVE  Move(r, x)
  <2>1. /\ Others(r) /\ req'[r].op = req[r].op /\ req'[r].expense = x
        /\ req'[r].phase = phase /\ req'[r].wrote /\ ~req'[r].logged
    BY <1>1, <1>2, <1>5, AwaitFields
  <2>2. /\ ContractRevision(x)' = ContractRevision(x) + 1
        /\ \A e \in Expense \ {x} : ContractRevision(e)' = ContractRevision(e)
    BY <1>4, <1>5 DEF Verdict
  <2>3. Writes(r, x)
    BY <1>1, <1>5, <2>1, <2>2 DEF Writes
  <2>4. QED
    BY <1>2, <2>1, <2>2, <2>3 DEF Move, Kind
<1>6. CASE UpdateWrite(r)
  BY <1>2, <1>3, <1>5, <1>6 DEF UpdateWrite, At, Holding, Current
<1>7. CASE ResubmitWrite(r)
  BY <1>2, <1>3, <1>5, <1>7 DEF ResubmitWrite, At, Holding, Current
<1>8. CASE DeleteWrite(r)
  <2>1. Holding(req[r])
    BY <1>8 DEF DeleteWrite, At, Holding
  <2>2. CASE Current(x, "PENDING", req[r].snap.version)
    <3>1. /\ expenses' = [expenses EXCEPT ![x] = DeletedRow(@)]
          /\ Log(x, "DELETED", req[r].actor, 0)
          /\ Respond(r, "ok", TRUE, TRUE)
          /\ UNCHANGED <<notices, unlogged>>
      BY <1>2, <1>8, <2>2 DEF DeleteWrite, Current
    <3>2. /\ Others(r) /\ req'[r].op = req[r].op /\ req'[r].expense = x
          /\ req'[r].phase = "done" /\ req'[r].answer = "ok" /\ req'[r].wrote /\ req'[r].logged
      BY <1>1, <1>2, <3>1, RespondFields
    <3>3. /\ ContractRevision(x)' = ContractRevision(x) + 1
          /\ \A e \in Expense \ {x} : ContractRevision(e)' = ContractRevision(e)
      BY <1>4, <2>2, <3>1 DEF Verdict, Current
    <3>4. Writes(r, x)
      BY <1>1, <2>1, <3>1, <3>2, <3>3 DEF Writes
    <3>5. QED
      BY <1>2, <3>2, <3>3, <3>4 DEF Move, Kind
  <2>3. CASE ~Current(x, "PENDING", req[r].snap.version)
    BY <1>2, <1>3, <1>8, <2>1, <2>3 DEF DeleteWrite
  <2>4. QED
    BY <2>2, <2>3
<1>9. ASSUME NEW verdict \in Verdict, Decide(r, verdict) PROVE Move(r, x)
  <2>1. Holding(req[r]) /\ req[r].op = verdict
    BY <1>9 DEF Decide, At, Holding
  <2>2. CASE Current(x, "PENDING", req[r].snap.version)
    <3>1. /\ expenses' = [expenses EXCEPT ![x] = DecidedRow(@, req[r].actor, verdict)]
          /\ Log(x, verdict, req[r].actor, req[r].snap.version + 1)
          /\ Await(r, "notify", TRUE, TRUE)
          /\ UNCHANGED <<notices, unlogged>>
      BY <1>2, <1>9, <2>2 DEF Decide, Current
    <3>2. /\ Others(r) /\ req'[r].op = req[r].op /\ req'[r].expense = x
          /\ req'[r].phase = "notify" /\ req'[r].wrote /\ req'[r].logged
      BY <1>1, <1>2, <3>1, AwaitFields
    <3>3. /\ ContractRevision(x)' = ContractRevision(x) + 1
          /\ \A e \in Expense \ {x} : ContractRevision(e)' = ContractRevision(e)
      BY <1>4, <2>2, <3>1 DEF Current
    <3>4. NoticeOf(req'[r].op) = verdict
      BY <2>1, <3>2 DEF NoticeOf
    <3>5. Writes(r, x)
      BY <1>1, <2>1, <3>1, <3>2, <3>3, <3>4 DEF Writes
    <3>6. QED
      BY <1>2, <3>2, <3>3, <3>5 DEF Move, Kind
  <2>3. CASE ~Current(x, "PENDING", req[r].snap.version)
    BY <1>2, <1>3, <1>9, <2>1, <2>3 DEF Decide
  <2>4. QED
    BY <2>2, <2>3
<1>10. ASSUME NEW verdict \in Verdict, Authorize(r, verdict) PROVE Move(r, x)
  <2>1. Holding(req[r])
    BY <1>10 DEF Authorize, At, Holding
  <2>2. CASE Await(r, "decide", FALSE, FALSE) /\ UNCHANGED <<expenses, auditLog, notices, unlogged>>
    <3>1. /\ Others(r) /\ req'[r].op = req[r].op /\ req'[r].expense = x
          /\ req'[r].phase = "decide" /\ ~req'[r].wrote
      BY <1>1, <1>2, <2>2, AwaitFields
    <3>2. GoesOn(r, x)
      BY <1>1, <2>1, <2>2, <3>1 DEF GoesOn, Holding
    <3>3. QED
      BY <1>2, <2>2, <3>1, <3>2 DEF Move, Kind, ContractRevision
  <2>3. QED
    BY <1>3, <1>10, <2>1, <2>2 DEF Authorize
<1>11. CASE UpdateReread(r)
  <2>1. req[r].phase = "reread" /\ req[r].op = "update" /\ req[r].wrote /\ ~req[r].logged
    BY <1>1, <1>11 DEF UpdateReread, At, SessionInv
  <2>2. CASE Visible(x)
    <3>1. Await(r, "audit", TRUE, FALSE) /\ UNCHANGED <<expenses, auditLog, notices, unlogged>>
      BY <1>2, <1>11, <2>2 DEF UpdateReread
    <3>2. /\ Others(r) /\ req'[r].op = req[r].op /\ req'[r].expense = x
          /\ req'[r].phase = "audit" /\ req'[r].wrote /\ ~req'[r].logged
      BY <1>1, <1>2, <3>1, AwaitFields
    <3>3. GoesOn(r, x)
      BY <1>1, <2>1, <3>1, <3>2 DEF GoesOn
    <3>4. QED
      BY <1>2, <3>1, <3>2, <3>3 DEF Move, Kind, ContractRevision
  <2>3. CASE ~Visible(x)
    <3>1. /\ Respond(r, "conflict", TRUE, FALSE)
          /\ unlogged' = [unlogged EXCEPT ![x] = @ + 1]
          /\ UNCHANGED <<expenses, auditLog, notices>>
      BY <1>2, <1>11, <2>3 DEF UpdateReread
    <3>2. /\ Others(r) /\ req'[r].op = req[r].op /\ req'[r].expense = x
          /\ req'[r].phase = "done" /\ req'[r].wrote
      BY <1>1, <1>2, <3>1, RespondFields
    <3>3. GivesUp(r, x)
      BY <1>1, <2>1, <2>3, <3>1, <3>2 DEF GivesUp
    <3>4. QED
      BY <1>2, <3>1, <3>2, <3>3 DEF Move, Kind, ContractRevision
  <2>4. QED
    BY <2>2, <2>3
<1>12. CASE UpdateAudit(r)
  <2>1. /\ Log(x, "UPDATED", req[r].actor, 0) /\ Respond(r, "ok", TRUE, TRUE)
        /\ UNCHANGED <<expenses, notices, unlogged>> /\ req[r].phase = "audit"
    BY <1>2, <1>12 DEF UpdateAudit, At
  <2>2. /\ Others(r) /\ req'[r].op = req[r].op /\ req'[r].expense = x
        /\ req'[r].phase = "done" /\ req'[r].answer = "ok" /\ req'[r].wrote /\ req'[r].logged
    BY <1>1, <1>2, <2>1, RespondFields
  <2>3. LogsLate(r, x)
    BY <1>1, <2>1, <2>2 DEF LogsLate
  <2>4. QED
    BY <1>2, <2>1, <2>2, <2>3 DEF Move, Kind, ContractRevision
<1>13. CASE ResubmitAudit(r)
  <2>1. /\ Log(x, "RESUBMITTED", req[r].actor, 0) /\ Await(r, "notify", TRUE, TRUE)
        /\ UNCHANGED <<expenses, notices, unlogged>>
        /\ req[r].phase = "audit" /\ req[r].op = "resubmit"
    BY <1>2, <1>13 DEF ResubmitAudit, At
  <2>2. /\ Others(r) /\ req'[r].op = req[r].op /\ req'[r].expense = x
        /\ req'[r].phase = "notify" /\ req'[r].wrote /\ req'[r].logged
    BY <1>1, <1>2, <2>1, AwaitFields
  <2>3. NoticeOf(req'[r].op) = "RESUBMITTED"
    BY <2>1, <2>2 DEF NoticeOf, Verdict
  <2>4. LogsLate(r, x)
    BY <1>1, <2>1, <2>2, <2>3 DEF LogsLate
  <2>5. QED
    BY <1>2, <2>1, <2>2, <2>4 DEF Move, Kind, ContractRevision
<1>14. CASE Notify(r)
  <2>1. /\ Respond(r, "ok", TRUE, TRUE) /\ UNCHANGED <<expenses, auditLog, unlogged>>
        /\ req[r].phase = "notify"
        /\ notices' = [notices EXCEPT ![x][NoticeOf(req[r].op)] = @ + 1] \/ UNCHANGED notices
    BY <1>2, <1>14 DEF Notify
  <2>2. /\ Others(r) /\ req'[r].op = req[r].op /\ req'[r].expense = x
        /\ req'[r].phase = "done" /\ req'[r].answer = "ok"
    BY <1>1, <1>2, <2>1, RespondFields
  <2>3. Notifies(r, x)
    BY <1>1, <2>1, <2>2 DEF Notifies
  <2>4. QED
    BY <1>2, <2>1, <2>2, <2>3 DEF Move, Kind, ContractRevision
<1>15. CASE Fail(r)
  <2>1. /\ Respond(r, "error", req[r].wrote, req[r].logged)
        /\ UNCHANGED <<expenses, auditLog, notices>>
        /\ IF req[r].wrote /\ ~req[r].logged
           THEN unlogged' = [unlogged EXCEPT ![x] = @ + 1] ELSE UNCHANGED unlogged
    BY <1>2, <1>15 DEF Fail
  <2>2. /\ Others(r) /\ req'[r].op = req[r].op /\ req'[r].expense = x
        /\ req'[r].phase = "done" /\ req'[r].answer = "error"
        /\ req'[r].wrote <=> req[r].wrote
    BY <1>1, <1>2, <2>1, RespondFields
  <2>3. GivesUp(r, x) \/ Ends(r, x)
    BY <1>1, <2>1, <2>2 DEF GivesUp, Ends
  <2>4. QED
    BY <1>2, <2>1, <2>2, <2>3 DEF Move, Kind, ContractRevision
<1>16. QED
  BY <1>2, <1>6, <1>7, <1>8, <1>9, <1>10, <1>11, <1>12, <1>13, <1>14, <1>15 DEF Continue

-----------------------------------------------------------------------------
(* Each balance is kept by every kind of step. *)

\* The ghosts go with the phase.
LEMMA SessionInvStep ==
    ASSUME SessionInv, NEW r \in Request, NEW x \in Expense, Move(r, x)
    PROVE  SessionInv'
<1>1. ASSUME NEW q \in Request \ {r}
      PROVE  (Busy(q) => /\ Holding(req[q]) => ~req[q].wrote
                         /\ req[q].phase \in {"reread", "audit"} => req[q].wrote /\ ~req[q].logged
                         /\ req[q].phase = "notify" => req[q].wrote /\ req[q].logged)'
  BY DEF SessionInv, Move, Others, Busy, Holding
<1>2. Busy(r)' => /\ Holding(req'[r]) => ~req'[r].wrote
                  /\ req'[r].phase \in {"reread", "audit"} => req'[r].wrote /\ ~req'[r].logged
                  /\ req'[r].phase = "notify" => req'[r].wrote /\ req'[r].logged
  BY DEF Move, Kind, Busy, Holding, Enters, Creates, Writes, LogsLate, GoesOn, GivesUp, Ends, Notifies
<1>3. QED
  BY <1>1, <1>2 DEF SessionInv, Busy, Holding

\* Whether r is one of those that count is all that changes in Open.
LEMMA OpenStep ==
    ASSUME NEW r \in Request, NEW x \in Expense, Move(r, x)
    PROVE  /\ \A e : Open(e)' \ {r} = Open(e) \ {r}
           /\ \A e \in Expense \ {x} : Open(e)' = Open(e)
<1>1. \A e : Open(e)' \ {r} = Open(e) \ {r}
  BY DEF Open, Move, Others, Busy
<1>2. \A e \in Expense \ {x} : r \notin Open(e)' /\ r \notin Open(e)
  BY DEF Open, Move
<1>3. QED
  BY <1>1, <1>2

\* One version more is one audit row more, now or owed; an owed row is written or given up.
LEMMA BooksStep ==
    ASSUME TypeOK, SessionInv, Books, NEW r \in Request, NEW x \in Expense, Move(r, x)
    PROVE  Books'
<1> DEFINE rows == Cardinality(RowsOf(x))
           open == Cardinality(Open(x))
           version == ContractRevision(x)
<1>1. /\ IsFiniteSet(Open(x)) /\ version = rows + unlogged[x] + open
      /\ rows \in Nat /\ unlogged[x] \in Nat /\ open \in Nat
  BY RowsAreFinite, FS_CardinalityType DEF Books, TypeOK
<1>2. Open(x)' \ {r} = Open(x) \ {r}
  BY OpenStep
<1>3. /\ IsFiniteSet(Open(x)')
      /\ (r \in Open(x)' <=> r \in Open(x)) => Cardinality(Open(x)') = open
      /\ r \in Open(x)' /\ r \notin Open(x) => Cardinality(Open(x)') = open + 1
      /\ r \notin Open(x)' /\ r \in Open(x) =>
            open = Cardinality(Open(x)') + 1 /\ Cardinality(Open(x)') \in Nat
  BY <1>1, <1>2, OneElement
<1>4. r \in Open(x) <=> Busy(r) /\ req[r].wrote /\ ~req[r].logged
  BY DEF Open, Move
<1>5. r \in Open(x)' <=> req'[r].phase \notin {"idle", "done"} /\ req'[r].wrote /\ ~req'[r].logged
  BY DEF Open, Move, Busy
<1>6. ASSUME NEW action, NEW u, NEW v, Log(x, action, u, v)
      PROVE  Cardinality(RowsOf(x)') = rows + 1 /\ \A e \in Expense \ {x} : RowsOf(e)' = RowsOf(e)
  BY <1>6, LogCounts
<1>7. UNCHANGED auditLog => \A e \in Expense : RowsOf(e)' = RowsOf(e)
  BY DEF RowsOf
<1>8. UNCHANGED expenses => ContractRevision(x)' = version
  BY DEF ContractRevision
<1> DEFINE Balanced == ContractRevision(x)' = Cardinality(RowsOf(x)') + unlogged'[x] + Cardinality(Open(x)')
           Rest == \A e \in Expense \ {x} : RowsOf(e)' = RowsOf(e) /\ unlogged'[e] = unlogged[e]
<1> HIDE DEF rows, open, version
<1>9. Balanced /\ Rest
  <2>1. CASE Enters(r, x) \/ Ends(r, x) \/ Notifies(r, x) \/ GoesOn(r, x)
    <3>1. r \in Open(x)' <=> r \in Open(x)
      BY <1>4, <1>5, <2>1 DEF Enters, Ends, Notifies, GoesOn, SessionInv, Busy, Holding
    <3>2. UNCHANGED <<expenses, auditLog, unlogged>>
      BY <2>1 DEF Enters, Ends, Notifies, GoesOn
    <3>3. Cardinality(RowsOf(x)') = rows /\ Cardinality(Open(x)') = open /\ ContractRevision(x)' = version
      BY <1>3, <1>7, <1>8, <3>1, <3>2 DEF rows
    <3>4. QED
      BY <1>1, <1>7, <3>2, <3>3
  <2>2. CASE Creates(r, x)
    <3>1. r \notin Open(x)' /\ r \notin Open(x)
      BY <1>4, <1>5, <2>2 DEF Creates
    <3>2. Cardinality(RowsOf(x)') = rows + 1 /\ \A e \in Expense \ {x} : RowsOf(e)' = RowsOf(e)
      BY <1>6, <2>2 DEF Creates
    <3>3. ContractRevision(x)' = version + 1 /\ unlogged' = unlogged
      BY <2>2 DEF Creates, version
    <3>4. QED
      BY <1>1, <1>3, <3>1, <3>2, <3>3
  <2>3. CASE Writes(r, x)
    <3>1. r \notin Open(x)
      BY <1>4, <2>3 DEF Writes, SessionInv
    <3>2. ContractRevision(x)' = version + 1 /\ unlogged' = unlogged
      BY <2>3 DEF Writes, version
    <3>3. CASE ~req'[r].logged
      <4>1. r \in Open(x)' /\ UNCHANGED auditLog
        BY <1>5, <2>3, <3>3 DEF Writes
      <4>2. Cardinality(RowsOf(x)') = rows /\ Cardinality(Open(x)') = open + 1
        BY <1>3, <1>7, <3>1, <4>1 DEF rows
      <4>3. QED
        BY <1>1, <1>7, <3>2, <4>1, <4>2
    <3>4. CASE req'[r].logged
      <4>1. r \notin Open(x)' /\ \E action, u, v : Log(x, action, u, v)
        BY <1>5, <2>3, <3>4 DEF Writes
      <4>2. Cardinality(RowsOf(x)') = rows + 1 /\ \A e \in Expense \ {x} : RowsOf(e)' = RowsOf(e)
        BY <1>6, <4>1
      <4>3. Cardinality(Open(x)') = open
        BY <1>3, <3>1, <4>1
      <4>4. QED
        BY <1>1, <3>2, <4>2, <4>3
    <3>5. QED
      BY <3>3, <3>4
  <2>4. CASE LogsLate(r, x)
    <3>1. r \in Open(x) /\ r \notin Open(x)'
      BY <1>4, <1>5, <2>4 DEF LogsLate, SessionInv
    <3>2. \E action, u, v : Log(x, action, u, v)
      BY <2>4 DEF LogsLate
    <3>3. Cardinality(RowsOf(x)') = rows + 1 /\ \A e \in Expense \ {x} : RowsOf(e)' = RowsOf(e)
      BY <1>6, <3>2
    <3>4. ContractRevision(x)' = version /\ unlogged' = unlogged
      BY <1>8, <2>4 DEF LogsLate
    <3>5. QED
      BY <1>1, <1>3, <3>1, <3>3, <3>4
  <2>5. CASE GivesUp(r, x)
    <3>1. r \in Open(x) /\ r \notin Open(x)'
      BY <1>4, <1>5, <2>5 DEF GivesUp
    <3>2. /\ unlogged'[x] = unlogged[x] + 1
          /\ \A e \in Expense \ {x} : unlogged'[e] = unlogged[e]
      BY <2>5 DEF GivesUp, TypeOK
    <3>3. Cardinality(RowsOf(x)') = rows /\ ContractRevision(x)' = version
      BY <1>7, <1>8, <2>5 DEF GivesUp, rows
    <3>4. Rest
      BY <1>7, <2>5, <3>2 DEF GivesUp
    <3>5. QED
      BY <1>1, <1>3, <3>1, <3>2, <3>3, <3>4
  <2>6. QED
    BY <2>1, <2>2, <2>3, <2>4, <2>5 DEF Move, Kind
<1>10. ASSUME NEW e \in Expense \ {x}
       PROVE  /\ IsFiniteSet(Open(e)')
              /\ ContractRevision(e)' = Cardinality(RowsOf(e)') + unlogged'[e] + Cardinality(Open(e)')
  <2>1. /\ Open(e)' = Open(e) /\ RowsOf(e)' = RowsOf(e) /\ unlogged'[e] = unlogged[e]
        /\ ContractRevision(e)' = ContractRevision(e)
    BY <1>9, OpenStep DEF Move
  <2>2. QED
    BY <2>1 DEF Books
<1>11. QED
  BY <1>3, <1>9, <1>10 DEF Books

\* As for Open: of those that tell of x, only r may come or go.
LEMMA TellingStep ==
    ASSUME NEW r \in Request, NEW x \in Expense, Move(r, x)
    PROVE  /\ \A e, t : Telling(e, t)' \ {r} = Telling(e, t) \ {r}
           /\ \A e \in Expense \ {x} : \A t : Telling(e, t)' = Telling(e, t)
<1>1. \A e, t : Telling(e, t)' \ {r} = Telling(e, t) \ {r}
  BY DEF Telling, Move, Others, Busy
<1>2. \A e \in Expense \ {x} : \A t : r \notin Telling(e, t)' /\ r \notin Telling(e, t)
  BY DEF Telling, Move
<1>3. QED
  BY <1>1, <1>2

\* Who is about to tell has written, or found, an audit row of his own to tell of.
LEMMA NoticeBooksStep ==
    ASSUME TypeOK, NoticeBooks, NEW r \in Request, NEW x \in Expense, Move(r, x)
    PROVE  NoticeBooks'
<1> SUFFICES ASSUME NEW e \in Expense, NEW t \in NoticeType
             PROVE  /\ IsFiniteSet(Telling(e, t)')
                    /\ notices'[e][t] + Cardinality(Telling(e, t)') <= Cardinality(RowsOfAction(e, t)')
  BY DEF NoticeBooks
<1> DEFINE rows == Cardinality(RowsOfAction(e, t))
           telling == Cardinality(Telling(e, t))
<1>1. /\ IsFiniteSet(Telling(e, t)) /\ notices[e][t] + telling <= rows
      /\ rows \in Nat /\ notices[e][t] \in Nat /\ telling \in Nat
  BY RowsAreFinite, FS_CardinalityType DEF NoticeBooks, TypeOK
<1>2. Telling(e, t)' \ {r} = Telling(e, t) \ {r}
  BY TellingStep
<1>3. /\ IsFiniteSet(Telling(e, t)')
      /\ (r \in Telling(e, t)' <=> r \in Telling(e, t)) => Cardinality(Telling(e, t)') = telling
      /\ r \in Telling(e, t)' /\ r \notin Telling(e, t) => Cardinality(Telling(e, t)') = telling + 1
      /\ r \notin Telling(e, t)' /\ r \in Telling(e, t) =>
            telling = Cardinality(Telling(e, t)') + 1 /\ Cardinality(Telling(e, t)') \in Nat
  BY <1>1, <1>2, OneElement
<1>4. r \in Telling(e, t) <=> Busy(r) /\ req[r].phase = "notify" /\ e = x /\ NoticeOf(req[r].op) = t
  BY DEF Telling, Move
<1>5. r \in Telling(e, t)' <=> req'[r].phase = "notify" /\ e = x /\ NoticeOf(req'[r].op) = t
  BY DEF Telling, Move, Busy
<1>6. ASSUME NEW action, NEW u, NEW v, Log(x, action, u, v)
      PROVE  Cardinality(RowsOfAction(e, t)') = IF e = x /\ t = action THEN rows + 1 ELSE rows
  BY <1>6, LogCounts
<1>7. UNCHANGED auditLog => Cardinality(RowsOfAction(e, t)') = rows
  BY DEF RowsOfAction, RowsOf
<1> HIDE DEF rows, telling
<1>8. notices'[e][t] + Cardinality(Telling(e, t)') <= Cardinality(RowsOfAction(e, t)')
  <2>1. CASE Enters(r, x) \/ GoesOn(r, x) \/ GivesUp(r, x) \/ Ends(r, x)
    <3>1. r \notin Telling(e, t)' /\ UNCHANGED <<auditLog, notices>>
      BY <1>5, <2>1 DEF Enters, GoesOn, GivesUp, Ends, Holding
    <3>2. Cardinality(RowsOfAction(e, t)') = rows
      BY <1>7, <3>1
    <3>3. QED
      BY <1>1, <1>3, <3>1, <3>2
  <2>2. ASSUME UNCHANGED notices, r \notin Telling(e, t),
               \/ /\ req'[r].phase = "notify"
                  /\ \E u, v : Log(x, NoticeOf(req'[r].op), u, v)
               \/ /\ req'[r].phase # "notify"
                  /\ UNCHANGED auditLog \/ \E action, u, v : Log(x, action, u, v)
        PROVE  notices'[e][t] + Cardinality(Telling(e, t)') <= Cardinality(RowsOfAction(e, t)')
    <3>1. CASE req'[r].phase = "notify"
      <4>1. Cardinality(RowsOfAction(e, t)') = IF e = x /\ t = NoticeOf(req'[r].op)
                                               THEN rows + 1 ELSE rows
        BY <1>6, <2>2, <3>1
      <4>2. CASE e = x /\ t = NoticeOf(req'[r].op)
        <5>1. Cardinality(RowsOfAction(e, t)') = rows + 1
          BY <4>1, <4>2
        <5>2. Cardinality(Telling(e, t)') = telling + 1
          BY <1>3, <1>5, <2>2, <3>1, <4>2
        <5>3. QED
          BY <1>1, <2>2, <5>1, <5>2
      <4>3. CASE ~(e = x /\ t = NoticeOf(req'[r].op))
        <5>1. Cardinality(RowsOfAction(e, t)') = rows
          BY <4>1, <4>3
        <5>2. Cardinality(Telling(e, t)') = telling
          BY <1>3, <1>5, <2>2, <4>3
        <5>3. QED
          BY <1>1, <2>2, <5>1, <5>2
      <4>4. QED
        BY <4>2, <4>3
    <3>2. CASE req'[r].phase # "notify"
      <4>1. Cardinality(RowsOfAction(e, t)') \in {rows, rows + 1}
        BY <1>6, <1>7, <2>2, <3>2
      <4>2. Cardinality(Telling(e, t)') = telling
        BY <1>3, <1>5, <2>2, <3>2
      <4>3. QED
        BY <1>1, <2>2, <4>1, <4>2
    <3>3. QED
      BY <3>1, <3>2
  <2>3. CASE Creates(r, x) \/ Writes(r, x) \/ LogsLate(r, x)
    <3>1. UNCHANGED notices /\ r \notin Telling(e, t)
      BY <1>4, <2>3 DEF Creates, Writes, LogsLate, Holding
    <3>2. \/ /\ req'[r].phase = "notify"
             /\ \E u, v : Log(x, NoticeOf(req'[r].op), u, v)
          \/ /\ req'[r].phase # "notify"
             /\ UNCHANGED auditLog \/ \E action, u, v : Log(x, action, u, v)
      BY <2>3 DEF Creates, Writes, LogsLate
    <3>3. QED
      BY <2>2, <3>1, <3>2
  <2>4. CASE Notifies(r, x)
    <3>1. Cardinality(RowsOfAction(e, t)') = rows /\ r \notin Telling(e, t)'
      BY <1>5, <1>7, <2>4 DEF Notifies
    <3>2. CASE r \in Telling(e, t)
      <4>1. notices'[e][t] \in {notices[e][t], notices[e][t] + 1}
        BY <1>4, <2>4, <3>2 DEF Notifies, TypeOK
      <4>2. QED
        BY <1>1, <1>3, <3>1, <3>2, <4>1
    <3>3. CASE r \notin Telling(e, t)
      <4>1. notices'[e][t] = notices[e][t]
        BY <1>4, <2>4, <3>3 DEF Notifies, TypeOK
      <4>2. QED
        BY <1>1, <1>3, <3>1, <3>3, <4>1
    <3>4. QED
      BY <3>2, <3>3
  <2>5. QED
    BY <2>1, <2>3, <2>4 DEF Move, Kind
<1>9. QED
  BY <1>3, <1>8

\* The refused requests that wrote are edits of an expense that is there, and deleted.
Refusals ==
    \A r \in Request :
        /\ req[r].phase = "done"
        /\ req[r].answer \in {"notFound", "forbidden", "conflict"}
        /\ req[r].wrote
        => /\ req[r].op = "update"
           /\ expenses[req[r].expense] # NoRow /\ expenses[req[r].expense].deleted

\* A soft-deleted row is never written again.
LEMMA DeletedStays ==
    ASSUME TypeOK, [Next]_vars, NEW e \in Expense, expenses[e] # NoRow, expenses[e].deleted
    PROVE  expenses'[e] = expenses[e]
<1>1. \A f \in Expense, u \in User, c \in Content : Submission(f, u, c) => expenses'[e] = expenses[e]
  BY DEF Submission, TypeOK
<1>2. ASSUME NEW r \in Request, NEW f \in Expense, GuardedWrite(r, f)
      PROVE  expenses'[e] = expenses[e]
  <2>1. f # e
    BY <1>2 DEF GuardedWrite, Visible
  <2>2. \E row : expenses' = [expenses EXCEPT ![f] = row]
    BY <1>2 DEF GuardedWrite
  <2>3. QED
    BY <2>1, <2>2 DEF TypeOK
<1>3. QED
  BY <1>1, <1>2, TableSteps DEF LateEntry

\* Only the re-read of an edited row refuses after the write.
LEMMA RefusalsStep ==
    ASSUME TypeOK, VersionStandsForRow, Refusals, [Next]_vars,
           NEW r \in Request, NEW x \in Expense, Move(r, x)
    PROVE  Refusals'
<1> DEFINE Refused(s) == /\ s.phase = "done"
                         /\ s.answer \in {"notFound", "forbidden", "conflict"}
                         /\ s.wrote
<1>1. ASSUME NEW q \in Request \ {r}, Refused(req'[q])
      PROVE  /\ req'[q].op = "update"
             /\ expenses'[req'[q].expense] # NoRow /\ expenses'[req'[q].expense].deleted
  <2>1. req'[q] = req[q]
    BY DEF Move, Others
  <2>2. /\ req[q].op = "update"
        /\ expenses[req[q].expense] # NoRow /\ expenses[req[q].expense].deleted
    BY <1>1, <2>1 DEF Refusals
  <2>3. req[q].expense \in Expense
    <3>1. req[q] \in Session
      BY <1>1, <2>1 DEF TypeOK, Idle
    <3>2. QED
      BY <3>1 DEF Session
  <2>4. QED
    BY <2>1, <2>2, <2>3, DeletedStays
<1>2. ASSUME Refused(req'[r])
      PROVE  /\ req'[r].op = "update"
             /\ expenses'[req'[r].expense] # NoRow /\ expenses'[req'[r].expense].deleted
  <2>1. GivesUp(r, x)
    BY <1>2 DEF Move, Kind, Enters, Creates, Writes, LogsLate, GoesOn, Ends, Notifies, Holding
  <2>2. /\ Busy(r) /\ req'[r].op = "update" /\ ~Visible(x) /\ expenses' = expenses
        /\ req'[r].expense = x /\ req[r].expense = x
    BY <1>2, <2>1 DEF GivesUp, Move
  <2>3. expenses[x] # NoRow /\ expenses[x].deleted
    BY <2>2 DEF VersionStandsForRow, Visible
  <2>4. QED
    BY <2>2, <2>3
<1>3. QED
  BY <1>1, <1>2 DEF Refusals

-----------------------------------------------------------------------------
(* The theorems. *)

CountInv ==
    /\ SessionInv
    /\ Books
    /\ NoticeBooks
    /\ Refusals

\* The balances hold in every behaviour.
THEOREM BooksBalance == Spec => []CountInv
<1>1. Init => CountInv
  <2> SUFFICES ASSUME Init PROVE CountInv
    OBVIOUS
  <2>1. /\ \A e \in Expense : expenses[e] = NoRow /\ unlogged[e] = 0
        /\ auditLog = <<>>
        /\ \A r \in Request : req[r].phase = "idle"
        /\ \A e \in Expense, t \in NoticeType : notices[e][t] = 0
    BY DEF Init, Idle
  <2>2. /\ \A e : RowsOf(e) = {} /\ Open(e) = {}
        /\ \A e, t : RowsOfAction(e, t) = {} /\ Telling(e, t) = {}
    BY <2>1 DEF RowsOf, RowsOfAction, Open, Telling, Busy
  <2>3. IsFiniteSet({}) /\ Cardinality({}) = 0
    BY FS_EmptySet
  <2>4. Books /\ NoticeBooks
    <3>1. ASSUME NEW e \in Expense
          PROVE  /\ ContractRevision(e) = 0 /\ unlogged[e] = 0
                 /\ Cardinality(RowsOf(e)) = 0
                 /\ IsFiniteSet(Open(e)) /\ Cardinality(Open(e)) = 0
      BY <2>1, <2>2, <2>3 DEF ContractRevision
    <3>2. ASSUME NEW e \in Expense, NEW t \in NoticeType
          PROVE  /\ notices[e][t] = 0 /\ Cardinality(RowsOfAction(e, t)) = 0
                 /\ IsFiniteSet(Telling(e, t)) /\ Cardinality(Telling(e, t)) = 0
      BY <2>1, <2>2, <2>3
    <3>3. Books
      BY <3>1 DEF Books
    <3>4. NoticeBooks
      BY <3>2 DEF NoticeBooks
    <3>5. QED
      BY <3>3, <3>4
  <2>5. SessionInv /\ Refusals
    BY <2>1 DEF SessionInv, Refusals, Busy
  <2>6. QED
    BY <2>4, <2>5 DEF CountInv
<1>2. IInv /\ CountInv /\ [Next]_vars => CountInv'
  <2> SUFFICES ASSUME IInv, CountInv, [Next]_vars PROVE CountInv'
    OBVIOUS
  <2>1. TypeOK /\ VersionStandsForRow /\ SessionInv /\ Books /\ NoticeBooks /\ Refusals
    BY DEF IInv, CountInv
  <2>2. CASE UNCHANGED vars
    BY <2>1, <2>2 DEF CountInv, SessionInv, Books, NoticeBooks, Refusals, vars, Busy, Holding, Open,
                      Telling, RowsOf, RowsOfAction, ContractRevision
  <2>3. CASE Next
    <3>1. PICK r \in Request : Start(r) \/ Continue(r) \/ Fail(r)
      BY <2>3 DEF Next
    <3>2. PICK x \in Expense : Move(r, x)
      BY <2>1, <3>1, StartMoves, ContinueMoves
    <3>3. SessionInv' /\ Books' /\ NoticeBooks' /\ Refusals'
      BY <2>1, <3>2, SessionInvStep, BooksStep, NoticeBooksStep, RefusalsStep
    <3>4. QED
      BY <3>3 DEF CountInv
  <2>4. QED
    BY <2>2, <2>3
<1>3. QED
  BY <1>1, <1>2, Invariance, PTL DEF Spec

\* Every version of an expense has its audit row, or a handler on its way to write it,
\* or is one of those whose handler ended too early.
THEOREM AuditComplete == Spec => []AuditAccountsForEveryVersion
<1>1. CountInv => AuditAccountsForEveryVersion
  BY DEF CountInv, Books, AuditAccountsForEveryVersion, ContractRevision, Open
<1>2. QED
  BY <1>1, BooksBalance, PTL

\* A 403, 404 or 409 means that nothing was written, but for an edit whose expense was
\* deleted before its handler read it again.
THEOREM HonestRefusals == Spec => []RefusalsWroteNothing
<1>1. CountInv => RefusalsWroteNothing
  BY DEF CountInv, Refusals, RefusalsWroteNothing
<1>2. QED
  BY <1>1, BooksBalance, PTL

\* Nobody is told of a decision or a submission that is not in the audit trail, nor
\* told twice.
THEOREM NoticesAfterTheFact == Spec => []NoticesFollowTheTrail
<1>1. TypeOK /\ CountInv => NoticesFollowTheTrail
  <2> SUFFICES ASSUME TypeOK, CountInv, NEW e \in Expense, NEW t \in NoticeType
               PROVE  notices[e][t] <= Cardinality(RowsOfAction(e, t))
    BY DEF NoticesFollowTheTrail
  <2>1. /\ IsFiniteSet(Telling(e, t))
        /\ notices[e][t] + Cardinality(Telling(e, t)) <= Cardinality(RowsOfAction(e, t))
    BY DEF CountInv, NoticeBooks
  <2>2. Cardinality(Telling(e, t)) \in Nat /\ notices[e][t] \in Nat
        /\ Cardinality(RowsOfAction(e, t)) \in Nat
    BY <2>1, FS_CardinalityType, RowsAreFinite DEF TypeOK
  <2>3. QED
    BY <2>1, <2>2
<1>2. QED
  BY <1>1, BooksBalance, TypeCorrect, PTL
=============================================================================
