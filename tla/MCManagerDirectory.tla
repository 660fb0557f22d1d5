------------------------- MODULE MCManagerDirectory -------------------------
(* Values for checking ManagerDirectory: one employee, two managers.  No     *)
(* symmetry, because HealsEventually is a liveness property.                 *)
EXTENDS ManagerDirectory

AllUnderOne == [e \in Employee |-> CHOOSE m \in Manager : TRUE]
=============================================================================
