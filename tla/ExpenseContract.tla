-------------------------- MODULE ExpenseContract --------------------------
(***************************************************************************)
(* What the expense component promises, whatever its request handlers do   *)
(* in between: every expense is a small state machine whose revisions are  *)
(* numbered one by one, and nobody decides an expense of their own.        *)
(* ExpenseLifecycle is shown to implement this module.                     *)
(***************************************************************************)
EXTENDS Naturals

CONSTANTS Expense,   \* expense ids
          User,      \* user ids
          Nobody     \* the NULL of a user column

VARIABLES state,     \* "none" before submission, then the status, or "DELETED"
          owner,     \* submitted_by
          decider,   \* approved_by
          revision   \* version

vars == <<state, owner, decider, revision>>

State == {"none", "PENDING", "APPROVED", "REJECTED", "DELETED"}

Init ==
    /\ state = [e \in Expense |-> "none"]
    /\ owner = [e \in Expense |-> Nobody]
    /\ decider = [e \in Expense |-> Nobody]
    /\ revision = [e \in Expense |-> 0]

\* Every committed write makes exactly one new revision.
Revise(e) == revision' = [revision EXCEPT ![e] = @ + 1]

Submit(e, u) ==
    /\ state[e] = "none"
    /\ state' = [state EXCEPT ![e] = "PENDING"]
    /\ owner' = [owner EXCEPT ![e] = u]
    /\ Revise(e)
    /\ UNCHANGED decider

Edit(e) ==
    /\ state[e] = "PENDING"
    /\ Revise(e)
    /\ UNCHANGED <<state, owner, decider>>

Decide(e, u, verdict) ==
    /\ state[e] = "PENDING"
    /\ owner[e] # u
    /\ state' = [state EXCEPT ![e] = verdict]
    /\ decider' = [decider EXCEPT ![e] = u]
    /\ Revise(e)
    /\ UNCHANGED owner

Resubmit(e) ==
    /\ state[e] = "REJECTED"
    /\ state' = [state EXCEPT ![e] = "PENDING"]
    /\ decider' = [decider EXCEPT ![e] = Nobody]
    /\ Revise(e)
    /\ UNCHANGED owner

Withdraw(e) ==
    /\ state[e] = "PENDING"
    /\ state' = [state EXCEPT ![e] = "DELETED"]
    /\ Revise(e)
    /\ UNCHANGED <<owner, decider>>

Next ==
    \E e \in Expense :
        \/ Edit(e)
        \/ Resubmit(e)
        \/ Withdraw(e)
        \/ \E u \in User :
              \/ Submit(e, u)
              \/ \E verdict \in {"APPROVED", "REJECTED"} : Decide(e, u, verdict)

Spec == Init /\ [][Next]_vars
=============================================================================
