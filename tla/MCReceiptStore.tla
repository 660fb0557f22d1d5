--------------------------- MODULE MCReceiptStore ---------------------------
(* Model values and bounds for checking ReceiptStore; no symmetry, because   *)
(* two of its properties are liveness properties.                            *)
EXTENDS ReceiptStore
=============================================================================
