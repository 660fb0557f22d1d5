------------------------------ MODULE MCSignIn ------------------------------
(* Model values and bounds for checking SignIn. *)
EXTENDS SignIn

CONSTANTS o1, o2, a, b, c

People == {o1, o2}
Addresses == {a, b, c}
FirstAddress == [o \in People |-> IF o = o1 THEN a ELSE b]
=============================================================================
