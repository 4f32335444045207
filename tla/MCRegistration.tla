--------------------------- MODULE MCRegistration ---------------------------
(***************************************************************************)
(* An instance of Registration for TLC: the records of two users are       *)
(* independent of each other, so there is one.                             *)
(***************************************************************************)
EXTENDS Registration

CONSTANT u1

=============================================================================
