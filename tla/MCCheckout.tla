----------------------------- MODULE MCCheckout -----------------------------
(***************************************************************************)
(* An instance of Checkout for TLC: c1 and c2 are two sends of one         *)
(* purchase under one Idempotency-Key, by one buyer acting for one org.    *)
(***************************************************************************)
EXTENDS Checkout

CONSTANTS c1, c2, k1, u1, org1, p1

MCBody == [c \in Calls |->
  [key |-> k1, user |-> u1, org |-> org1, product |-> p1, qty |-> 2]]
=============================================================================
