----------------------------- MODULE MCOrgChart -----------------------------
(* Bounds for checking OrgChart: see the configuration. *)
EXTENDS OrgChart
=============================================================================
