--------------------------- MODULE MCOrderPayment ---------------------------
(***************************************************************************)
(* An instance of OrderPayment for TLC: one order of one product.          *)
(***************************************************************************)
EXTENDS OrderPayment

CONSTANTS c1, k1, u1, org1, p1

MCBody == [c \in Calls |->
  [key |-> k1, user |-> u1, org |-> org1, product |-> p1, qty |-> 1]]
=============================================================================
