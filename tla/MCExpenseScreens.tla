-------------------------- MODULE MCExpenseScreens --------------------------
(* Values for checking ExpenseScreens. *)
EXTENDS ExpenseScreens
=============================================================================
