--------------------------- MODULE MCLogTransport ---------------------------
(* LogTransport with a buffer of three lines and batches of two: see the    *)
(* configurations.                                                          *)
EXTENDS LogTransport
=============================================================================
