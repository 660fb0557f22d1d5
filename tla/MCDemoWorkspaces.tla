-------------------------- MODULE MCDemoWorkspaces --------------------------
(* Bounds for checking DemoWorkspaces: see the configuration.  Administrators who are *)
(* no demo users have come by the ids of one workspace.                              *)
EXTENDS DemoWorkspaces
=============================================================================
