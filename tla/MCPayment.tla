----------------------------- MODULE MCPayment ------------------------------
(***************************************************************************)
(* An instance of Payment for TLC: three sends of one charge, as the three *)
(* attempts of ChargeActivity are, under the order's id as the key.        *)
(***************************************************************************)
EXTENDS Payment

CONSTANTS c1, c2, c3, o1

MCBody == [c \in Calls |-> [key |-> o1, order |-> o1, amount |-> 1]]
=============================================================================
