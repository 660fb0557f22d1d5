------------------------- MODULE MCExpenseLifecycle -------------------------
(* Model values, symmetry and bounds for checking ExpenseLifecycle. *)
EXTENDS ExpenseLifecycle, TLC

Symmetry == Permutations(Request) \cup Permutations(Approver) \cup Permutations(Content)
=============================================================================
