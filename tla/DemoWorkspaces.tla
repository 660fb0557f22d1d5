--------------------------- MODULE DemoWorkspaces ---------------------------
(***************************************************************************)
(* The public demo: launches, the sessions they start, and the reaper.     *)
(*                                                                         *)
(* A workspace is all rows that carry one demo_session_id: its users,      *)
(* their expenses and audit entries.  A place is a workspace, or Real for  *)
(* the rows of real users.  Expenses and audit entries are kept per place: *)
(* <<p, q>> in auditLog says that somebody of q acted on an expense of p.  *)
(* Launches, requests and reaper ticks interleave at their awaits; each    *)
(* transaction is atomic and can fail as a whole.                          *)
(*                                                                         *)
(* Definitions named Lax... or Blind... are broken on purpose and take no  *)
(* part in Spec.                                                           *)
(***************************************************************************)
EXTENDS Naturals, FiniteSets

CONSTANTS Workspace,   \* session ids that can be drawn
          Real,        \* the place of every real user
          Launch,      \* demo-login requests in flight
          Request,     \* authenticated requests in flight
          Reaper,      \* ticks of the reaper that can overlap
          Cap,         \* DEMO_MAX_ACTIVE
          Batch,       \* sessions per tick (200 in the code)
          AdminReach   \* places whose expense ids real admins use

ASSUME DemoAssumption ==
    /\ Real \notin Workspace
    /\ Cap \in Nat \ {0} /\ Batch \in Nat \ {0}
    /\ AdminReach \subseteq Workspace \cup {Real}
    /\ IsFiniteSet(Launch)

Place == Workspace \cup {Real}

VARIABLES age,        \* [Workspace -> demo_expires_at against the clock]
          users,      \* workspaces whose user rows exist
          expenses,   \* places with expense rows
          auditLog,   \* <<place of the expense, place of the performer>>
          launching,  \* [Launch -> where demoLogin is]
          req,        \* [Request -> request handler]
          reaping     \* [Reaper -> sessions its transaction has selected]

vars == <<age, users, expenses, auditLog, launching, req, reaping>>

Idle == [phase |-> "idle", by |-> Real, op |-> "submit", on |-> Real]

Init ==
    /\ age = [w \in Workspace |-> "unborn"]
    /\ users = {}
    /\ expenses = {Real}
    /\ auditLog = {<<Real, Real>>}
    /\ launching = [l \in Launch |-> "idle"]
    /\ req = [r \in Request |-> Idle]
    /\ reaping = [t \in Reaper |-> {}]

-----------------------------------------------------------------------------
(* The clock.  "edge" is the second in which demo_expires_at equals now: the *)
(* cap no longer counts the workspace, authentication still lets it in, the  *)
(* reaper does not take it yet.                                              *)

Age(w) ==
    /\ age[w] \in {"live", "edge"}
    /\ age' = [age EXCEPT ![w] = IF @ = "live" THEN "edge" ELSE "expired"]
    /\ UNCHANGED <<users, expenses, auditLog, launching, req, reaping>>

Active == {w \in users : age[w] = "live"}
Expired == {w \in users : age[w] = "expired"}

-----------------------------------------------------------------------------
(* POST /auth/demo-login *)

LaxHasRoom == Cardinality(Active) <= Cap

\* canCreateDemoWorkspace
HasRoom == Cardinality(Active) < Cap

LaunchGoes(l, phase) == launching' = [launching EXCEPT ![l] = phase]

\* The count, on a connection of its own: 503, or on to the creation.
CheckCapacity(l) ==
    /\ launching[l] = "idle"
    /\ HasRoom
    /\ LaunchGoes(l, "creating")
    /\ UNCHANGED <<age, users, expenses, auditLog, req, reaping>>

\* One transaction seeds users, expenses and their audit entries, or nothing.
CreateWorkspace(l, w) ==
    /\ launching[l] = "creating"
    /\ age[w] = "unborn"
    /\ LaunchGoes(l, "idle")
    /\ \/ /\ age' = [age EXCEPT ![w] = "live"]
          /\ users' = users \cup {w}
          /\ expenses' = expenses \cup {w}
          /\ auditLog' = auditLog \cup {<<w, w>>}
       \/ UNCHANGED <<age, users, expenses, auditLog>>
    /\ UNCHANGED <<req, reaping>>

-----------------------------------------------------------------------------
(* Authenticated requests.  ExpenseLifecycle has them in full; here counts   *)
(* only whose rows they touch.                                               *)

Moves(r, phase) == req' = [req EXCEPT ![r].phase = phase]
Ends(r) == req' = [req EXCEPT ![r] = Idle]

\* handleDemoAuth for a demo token: the user row exists and has not expired.
Authenticated(q) == q = Real \/ (q \in users /\ age[q] \in {"live", "edge"})

Arrive(r, q, op, p) ==
    /\ req[r].phase = "idle"
    /\ Authenticated(q)
    /\ op = "submit" => p = q
    /\ q = Real => p \in AdminReach
    /\ req' = [req EXCEPT ![r] =
                 [phase |-> IF op = "submit" THEN "write" ELSE "load",
                  by |-> q, op |-> op, on |-> p]]
    /\ UNCHANGED <<age, users, expenses, auditLog, launching, reaping>>

\* approveExpense, rejectExpense: findById, 404 when the row is gone.
Load(r) ==
    /\ req[r].phase = "load"
    /\ \/ req[r].on \in expenses /\ Moves(r, "check")
       \/ req[r].on \notin expenses /\ Ends(r)
    /\ UNCHANGED <<age, users, expenses, auditLog, launching, reaping>>

\* The ADMIN bypass tested before the workspace.
LaxMayDecide(q, p) == TRUE

\* verifyManagerRelationship: a demo caller, admin or not, may only act on an
\* expense whose submitter has the same demo_session_id; the row of the submitter
\* is read anew.  A real admin bypasses every check.
MayDecide(q, p) == q \in Workspace => p = q /\ p \in users

Check(r) ==
    /\ req[r].phase = "check"
    /\ \/ MayDecide(req[r].by, req[r].on) /\ Moves(r, "write")
       \/ Ends(r)
    /\ UNCHANGED <<age, users, expenses, auditLog, launching, reaping>>

\* A child row needs its parent rows; there is no such test for a real user.
BlindForeignKeysHold(q, p, op) == TRUE

\* fk_expenses_submitted_by, fk_audit_performed_by, fk_audit_expense
ForeignKeysHold(q, p, op) ==
    /\ q \in users \cup {Real}
    /\ op = "decide" => p \in expenses

\* createSubmission, or a decision's stored procedure, with its audit entry.  It
\* fails when the reaper has taken the rows it refers to, or for its own reasons.
Write(r) ==
    LET q == req[r].by
        p == req[r].on
    IN  /\ req[r].phase = "write"
        /\ Ends(r)
        /\ \/ /\ ForeignKeysHold(q, p, req[r].op)
              /\ expenses' = expenses \cup {p}
              /\ auditLog' = auditLog \cup {<<p, q>>}
           \/ UNCHANGED <<expenses, auditLog>>
        /\ UNCHANGED <<age, users, launching, reaping>>

-----------------------------------------------------------------------------
(* reapExpiredDemoWorkspaces *)

\* Whole sessions, at most Batch of them, in no particular order.
Reapable(B) ==
    /\ B \subseteq Expired
    /\ \/ Cardinality(B) = Batch
       \/ Cardinality(B) < Batch /\ B = Expired

\* startDemoCleanup's tick, at boot and on the timer; ticks may overlap.
ReaperSelect(t) ==
    /\ reaping[t] = {}
    /\ \E B \in SUBSET users :
          /\ B # {}
          /\ Reapable(B)
          /\ reaping' = [reaping EXCEPT ![t] = B]
    /\ UNCHANGED <<age, users, expenses, auditLog, launching, req>>

\* The audit entries of these performers, then their expenses, then the users.
\* fk_audit_expense refuses an expense somebody else still has an entry on.
ReaperCommit(t) ==
    LET B == reaping[t]
        left == {row \in auditLog : row[2] \notin B}
    IN  /\ B # {}
        /\ \A row \in left : row[1] \notin B
        /\ auditLog' = left
        /\ expenses' = expenses \ B
        /\ users' = users \ B
        /\ reaping' = [reaping EXCEPT ![t] = {}]
        /\ UNCHANGED <<age, launching, req>>

\* A constraint, a deadlock or a stop of the process rolls the tick back; the next
\* tick starts over.
ReaperFails(t) ==
    /\ reaping[t] # {}
    /\ reaping' = [reaping EXCEPT ![t] = {}]
    /\ UNCHANGED <<age, users, expenses, auditLog, launching, req>>

Next ==
    \/ \E w \in Workspace : Age(w)
    \/ \E l \in Launch : CheckCapacity(l) \/ \E w \in Workspace : CreateWorkspace(l, w)
    \/ \E r \in Request :
          \/ \E q, p \in Place, op \in {"submit", "decide"} : Arrive(r, q, op, p)
          \/ Load(r) \/ Check(r) \/ Write(r)
    \/ \E t \in Reaper : ReaperSelect(t) \/ ReaperCommit(t) \/ ReaperFails(t)

\* Time passes, the timer keeps ticking, and a transaction that can commit again
\* and again does not meet a deadlock every time.
Fairness ==
    /\ \A w \in Workspace : WF_vars(Age(w))
    /\ \A t \in Reaper : WF_vars(ReaperSelect(t)) /\ SF_vars(ReaperCommit(t))

Spec == Init /\ [][Next]_vars /\ Fairness

-----------------------------------------------------------------------------
(* Properties. *)

TypeOK ==
    /\ age \in [Workspace -> {"unborn", "live", "edge", "expired"}]
    /\ users \subseteq Workspace
    /\ expenses \subseteq Place
    /\ auditLog \subseteq Place \X Place
    /\ launching \in [Launch -> {"idle", "creating"}]
    /\ req \in [Request -> [phase : {"idle", "load", "check", "write"}, by : Place,
                            op : {"submit", "decide"}, on : Place]]
    /\ reaping \in [Reaper -> SUBSET Workspace]

\* demoLogin counts and creates in two transactions without a lock, so launches can
\* pass DEMO_MAX_ACTIVE together; what the code does give is that the cap is overshot
\* by at most the launches that were between count and creation.
OvershootBounded ==
    Cardinality(Active) + Cardinality({l \in Launch : launching[l] = "creating"})
        <= Cap - 1 + Cardinality(Launch)

\* verifyManagerRelationship's boundary: a demo session leaves its mark on no
\* expense but its own, whatever ids it asks for.
SessionsStayInside ==
    \A row \in auditLog : row[2] \in Workspace => row[1] = row[2]

\* Nothing is left of a workspace: no user, no expense, no audit entry by or on it.
Gone(w) ==
    /\ w \notin users \cup expenses
    /\ \A row \in auditLog : row[1] # w /\ row[2] # w

\* An administrator who is no demo user has acted on an expense of an expired
\* workspace: an entry that no tick takes, on a row that cannot go before it.
Pinned == \E v \in Expired : <<v, Real>> \in auditLog

\* "Workspaces auto-expire ... are reaped on a timer", but for one case, in which the
\* ticks that take the workspace roll back for ever, and those of everybody else in
\* its batch with them: that of a pinned workspace.  Short of that, whoever acted where,
\* each expired workspace is gone in the end, and for good: a request that was let in
\* before its workspace was reaped writes nothing that outlives it.
ExpiredWorkspacesGo ==
    \A w \in Workspace : age[w] = "expired" ~> ([]Gone(w) \/ Pinned)
=============================================================================
