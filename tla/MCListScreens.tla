--------------------------- MODULE MCListScreens ---------------------------
(* Values for checking ListScreens. *)
EXTENDS ListScreens

TwoExpenses == {1, 2}
=============================================================================
