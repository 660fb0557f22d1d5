---------------------------- MODULE MCNoticeBell ----------------------------
(* Values for checking NoticeBell. *)
EXTENDS NoticeBell
=============================================================================
