------------------------- MODULE OrderPaymentProofs -------------------------
(***************************************************************************)
(* Proofs about the orders and payment services together, for any orders,  *)
(* prices, operators, attempts and refund runs.                            *)
(***************************************************************************)
EXTENDS OrderPayment, CheckoutProofs

\* What PaymentProofs proves of payment, for the requests of the sagas.
Paym == INSTANCE PaymentProofs
  WITH Calls <- Requests,
       Body <- [r \in Requests |-> [key |-> RequestKey(r), order |-> Order(r), amount |-> 1]],
       Operators <- Refunders,
       at <- pat, handle <- phandle, step <- pstep, tries <- ptries, status <- pstatus

\* What CheckoutProofs proves of a saga, for the money it knows of.
Known == INSTANCE CheckoutProofs
  WITH charge <- [c \in Calls |-> IF Accepted(c) THEN due[c] ELSE 0]

\* The two instances meet the assumptions of their modules.
LEMMA PaymAssumptions ==
  /\ Paym!BodyAssumption
  /\ Paym!NobodyAssumption
  /\ Paym!MaxRefundRunsAssumption
  BY RequestsAssumption, MaxRefundRunsAssumption
     DEF Paym!BodyAssumption, Paym!NobodyAssumption, Paym!MaxRefundRunsAssumption,
         RequestKey, Order

\* A step of payment keeps what PaymentProofs proves of it.
LEMMA PaymStep == Paym!IInv /\ [Paym!Next]_(Paym!vars) => Paym!IInv'
  BY Paym!TypeStep, Paym!ChargeStep, PaymAssumptions, MaxAttemptsAssumption
     DEF Paym!BodyAssumption, Paym!NobodyAssumption, Paym!MaxRefundRunsAssumption, Paym!IInv

\* A step of a saga keeps what CheckoutProofs proves of it.
LEMMA KnownStep == Known!IInv /\ [Known!Next]_(Known!vars) => Known!IInv'
  BY Known!TypeStep, Known!SagaStep, BodyAssumption, PricesAssumption, NobodyAssumption,
     MaxAttemptsAssumption DEF Known!IInv

\* The proofs' instances and the model's say the same of a step.
LEMMA PaymSame == [P!Next]_(P!vars) <=> [Paym!Next]_(Paym!vars)
  BY DEF P!Next, Paym!Next, P!Lookup, Paym!Lookup, P!InsertCharge, Paym!InsertCharge,
         P!StartCharge, Paym!StartCharge, P!ChargeWorkflow, Paym!ChargeWorkflow,
         P!RefundWorkflow, Paym!RefundWorkflow, P!GrantChargeAccess, Paym!GrantChargeAccess,
         P!Settle, Paym!Settle, P!MarkSettled, Paym!MarkSettled, P!MarkFailed,
         Paym!MarkFailed, P!CheckRefund, Paym!CheckRefund, P!StartRefund, Paym!StartRefund,
         P!Refund, Paym!Refund, P!MarkRefunded, Paym!MarkRefunded, P!Attempt, Paym!Attempt,
         P!AttemptRefund, Paym!AttemptRefund, P!MarkChargeStatus, Paym!MarkChargeStatus,
         P!Refuse, Paym!Refuse, P!Answer, Paym!Answer, P!Acceptable, Paym!Acceptable,
         P!RowsOfKey, Paym!RowsOfKey, P!handlerVars, Paym!handlerVars, P!chargeVars,
         Paym!chargeVars, P!storeVars, Paym!storeVars, P!refundVars, Paym!refundVars,
         P!vars, Paym!vars, P!Outcomes, Paym!Outcomes, P!TakesEffect, Paym!TakesEffect,
         P!Reported, Paym!Reported, P!StepAfter, Paym!StepAfter, P!TriesAfter,
         Paym!TriesAfter

\* The same of a saga's steps.
LEMMA KnownSame == [Saga!Next]_(Saga!vars) <=> [Known!Next]_(Known!vars)
  BY DEF Saga!Next, Known!Next, Saga!Workflow, Known!Workflow, Saga!Lookup, Known!Lookup,
         Saga!Start, Known!Start, Saga!CreateOrder, Known!CreateOrder,
         Saga!GrantOrderAccess, Known!GrantOrderAccess, Saga!LookupProduct,
         Known!LookupProduct, Saga!SetOrderTotal, Known!SetOrderTotal, Saga!Charge,
         Known!Charge, Saga!Confirm, Known!Confirm, Saga!Fail, Known!Fail, Saga!CheckCancel,
         Known!CheckCancel, Saga!StartCancel, Known!StartCancel, Saga!Cancel, Known!Cancel,
         Saga!Catalog, Known!Catalog, Saga!CreateProduct, Known!CreateProduct,
         Saga!UpdateProduct, Known!UpdateProduct, Saga!DeleteProduct, Known!DeleteProduct,
         Saga!SetPrice, Known!SetPrice, Saga!Attempt, Known!Attempt, Saga!MarkOrderStatus,
         Known!MarkOrderStatus, Saga!Refuse, Known!Refuse, Saga!Answer, Known!Answer,
         Saga!Acceptable, Known!Acceptable, Saga!RowsOfKey, Known!RowsOfKey,
         Saga!OwnerTuple, Known!OwnerTuple, Saga!OrgTuple, Known!OrgTuple, Saga!handlerVars,
         Known!handlerVars, Saga!workflowVars, Known!workflowVars, Saga!storeVars,
         Known!storeVars, Saga!cancelVars, Known!cancelVars, Saga!vars, Known!vars,
         Saga!Outcomes, Known!Outcomes, Saga!TakesEffect, Known!TakesEffect, Saga!Reported,
         Known!Reported, Saga!StepAfter, Known!StepAfter, Saga!TriesAfter, Known!TriesAfter

-----------------------------------------------------------------------------
(* The inductive invariant: what ties a request to its order. *)

HasRow(c) == \E r \in Requests : Order(r) = c /\ pstatus[r] # "absent"

SentOnly == sent \subseteq Requests /\ \A r \in Requests \ sent : pat[r] = "new"

\* A request carries what the order shows, and the order will not change it.
SentAfterTotal ==
  \A r \in sent : /\ step[Order(r)] \in Paying \cup Paid \cup Failing
                 /\ total[Order(r)] = due[Order(r)]

\* Payment goes on only with an amount that is positive.
ServedIsPositive ==
  \A r \in Requests : pat[r] \in {"missed", "inserted", "answered"} \/ pstatus[r] # "absent"
                        => due[Order(r)] > 0

ChargeIsRow ==
  /\ charge \in [Calls -> Nat]
  /\ \A c \in Calls : /\ HasRow(c) => charge[c] = due[c]
                      /\ ~HasRow(c) => charge[c] = 0

AcceptedHasRow == \A c \in Calls : step[c] \in Paid => HasRow(c)

Tied == SentOnly /\ SentAfterTotal /\ ServedIsPositive /\ ChargeIsRow /\ AcceptedHasRow

JInv == Known!IInv /\ Paym!IInv /\ Tied

\* What is used of the two components' invariants.
LEMMA Parts ==
  ASSUME JInv
  PROVE  /\ step \in [Calls -> {"none"} \cup Running \cup Closed]
         /\ due \in [Calls -> Nat] /\ total \in [Calls -> Nat]
         /\ TypeOK
         /\ \A c \in Calls : step[c] = "charge" => total[c] = due[c]
         /\ \A c \in Calls : at[c] = "missed" => step[c] = "none"
         /\ pat \in [Requests -> {"new", "missed", "inserted", "answered", "error"}]
         /\ pstatus \in [Requests -> P!Status]
         /\ \A r \in Requests : pat[r] = "new" => pstatus[r] = "absent"
         /\ \A r \in Requests : pat[r] = "answered" =>
              phandle[r] \in Requests /\ pstatus[phandle[r]] # "absent"
              /\ Order(phandle[r]) = Order(r)
<1>1. TypeOK
  BY DEF JInv, Tied, ChargeIsRow, Known!IInv, Known!TypeOK, TypeOK, Known!Running, Running,
         Known!Closed, Closed, Known!GaveUp, GaveUp, Known!Status, Status,
         Known!OwnerTuple, OwnerTuple, Known!OrgTuple, OrgTuple
<1>2. /\ \A c \in Calls : step[c] = "charge" => total[c] = due[c]
      /\ \A c \in Calls : at[c] = "missed" => step[c] = "none"
  BY DEF JInv, Known!IInv, Known!SagaInv, Known!TotalBeforeCharge, Known!Paying, Known!NotStarted
<1>3. /\ pat \in [Requests -> {"new", "missed", "inserted", "answered", "error"}]
      /\ pstatus \in [Requests -> P!Status]
  BY DEF JInv, Paym!IInv, Paym!TypeOK, Paym!Status, P!Status
<1>4. /\ \A r \in Requests : pat[r] = "new" => pstatus[r] = "absent"
      /\ \A r \in Requests : pat[r] = "answered" =>
           phandle[r] \in Requests /\ pstatus[phandle[r]] # "absent"
           /\ Order(phandle[r]) = Order(r)
  BY DEF JInv, Paym!IInv, Paym!ChargeInv, Paym!RowBeforeStart, Paym!HandleHoldsKey, RequestKey
<1> QED
  BY <1>1, <1>2, <1>3, <1>4 DEF TypeOK

-----------------------------------------------------------------------------
(* Steps of orders *)

\* A step of one saga that sends nothing: it is either not yet paying and will
\* not be taken for accepted, or past paying on the side it was on.
LEMMA SagaFrame ==
  ASSUME JInv, NEW c \in Calls, UNCHANGED <<charge, sent, payVars>>,
         due' \in [Calls -> Nat], step' \in [Calls -> {"none"} \cup Running \cup Closed],
         \A d \in Calls \ {c} : step'[d] = step[d] /\ due'[d] = due[d] /\ total'[d] = total[d],
         \/ /\ step[c] \notin Paying \cup Paid \cup Failing
            /\ step'[c] \notin Paid
         \/ /\ {step[c], step'[c]} \subseteq Paid \/ {step[c], step'[c]} \subseteq Failing
            /\ due'[c] = due[c] /\ total'[c] = total[c]
  PROVE  /\ Tied'
         /\ UNCHANGED [d \in Calls |-> IF Accepted(d) THEN due[d] ELSE 0]
<1> USE DEF payVars, Order
<1>1. CASE step[c] \notin Paying \cup Paid \cup Failing /\ step'[c] \notin Paid
  <2>1. \A r \in sent : Order(r) \in Calls \ {c}
    BY <1>1 DEF JInv, Tied, SentOnly, SentAfterTotal, Requests
  <2>2. \A r \in Requests : Order(r) = c => pat[r] = "new" /\ pstatus[r] = "absent"
    BY <2>1, Parts DEF JInv, Tied, SentOnly
  <2>3. SentOnly' /\ SentAfterTotal'
    BY <2>1 DEF JInv, Tied, SentOnly, SentAfterTotal
  <2>4. ServedIsPositive'
    BY <2>2 DEF JInv, Tied, ServedIsPositive, Requests
  <2>5. ChargeIsRow' /\ AcceptedHasRow'
    BY <1>1, <2>2 DEF JInv, Tied, ChargeIsRow, AcceptedHasRow, HasRow
  <2>6. \A d \in Calls : Accepted(d)' = Accepted(d) /\ (Accepted(d) => due'[d] = due[d])
    BY <1>1 DEF Accepted, Paid
  <2> QED
    BY <2>3, <2>4, <2>5, <2>6 DEF Tied
<1>2. CASE /\ {step[c], step'[c]} \subseteq Paid \/ {step[c], step'[c]} \subseteq Failing
           /\ due'[c] = due[c] /\ total'[c] = total[c]
  <2>1. \A d \in Calls : /\ due'[d] = due[d] /\ total'[d] = total[d]
                         /\ step[d] \in Paying \cup Paid \cup Failing =>
                              step'[d] \in Paying \cup Paid \cup Failing
                         /\ step'[d] \in Paid <=> step[d] \in Paid
    BY <1>2 DEF Paid, Failing, Paying
  <2>2. SentOnly' /\ SentAfterTotal'
    BY <2>1 DEF JInv, Tied, SentOnly, SentAfterTotal, Requests
  <2>3. ServedIsPositive' /\ ChargeIsRow' /\ AcceptedHasRow'
    BY <2>1 DEF JInv, Tied, ServedIsPositive, ChargeIsRow, AcceptedHasRow, HasRow, Requests
  <2>4. \A d \in Calls : Accepted(d)' = Accepted(d)
    BY <2>1 DEF Accepted, Paid
  <2> QED
    BY <2>1, <2>2, <2>3, <2>4 DEF Tied
<1> QED
  BY <1>1, <1>2

\* A step of the saga's handler or workflow that neither asks payment nor hears
\* from it is the same step of Checkout, and keeps every request tied.
LEMMA OrdersStep ==
  ASSUME JInv, NEW c \in Calls, UNCHANGED <<sent, payVars>>,
         \/ Lookup(c) \/ Start(c) \/ CreateOrder(c) \/ GrantOrderAccess(c)
         \/ LookupProduct(c) \/ SetOrderTotal(c) \/ Confirm(c) \/ Fail(c)
  PROVE  Tied' /\ Saga!Next
<1> USE DEF handlerVars, workflowVars, storeVars, cancelVars
<1>1. TypeOK /\ TypeOK'
  BY Parts, TypeStep DEF Next, Workflow
<1>2. /\ step' \in [Calls -> {"none"} \cup Running \cup Closed]
      /\ due' \in [Calls -> Nat]
  BY <1>1 DEF TypeOK
<1>3. CASE Lookup(c)
  <2>1. Tied'
    BY <1>3 DEF JInv, Tied, SentOnly, SentAfterTotal, ServedIsPositive, ChargeIsRow,
                AcceptedHasRow, HasRow, Lookup, payVars
  <2>2. Saga!Lookup(c)
    BY <1>3 DEF Lookup, Saga!Lookup, Refuse, Saga!Refuse, Answer, Saga!Answer, Acceptable,
                Saga!Acceptable, RowsOfKey, Saga!RowsOfKey, Saga!workflowVars,
                Saga!storeVars, Saga!cancelVars, Accepted
  <2> QED
    BY <2>1, <2>2 DEF Saga!Next
<1>4. CASE Start(c)
  <2>1. step[c] = "none" /\ step'[c] \in {"none", "create"}
        /\ \A d \in Calls \ {c} : step'[d] = step[d]
    BY <1>4, Parts DEF Start
  <2>2. Tied' /\ UNCHANGED [d \in Calls |-> IF Accepted(d) THEN due[d] ELSE 0]
    BY <1>2, <1>4, <2>1, SagaFrame DEF Start, Paying, Paid, Failing
  <2>3. Saga!Start(c)
    BY <1>4, <2>2 DEF Start, Saga!Start, Refuse, Saga!Refuse, Answer, Saga!Answer, Outcomes,
                      Saga!Outcomes, Reported, Saga!Reported, TakesEffect, Saga!TakesEffect,
                      Saga!storeVars, Saga!cancelVars
  <2> QED
    BY <2>2, <2>3 DEF Saga!Next
<1>5. CASE CreateOrder(c)
  <2>1. PICK out \in Outcomes : Attempt(c, Reported(out), "grant", "notCreated")
    BY <1>5 DEF CreateOrder
  <2>2. step[c] = "create" /\ step'[c] \in {"create", "grant", "notCreated"}
        /\ \A d \in Calls \ {c} : step'[d] = step[d]
    BY <1>1, <1>5, <2>1, AttemptMoves DEF CreateOrder, Reported
  <2>3. Tied' /\ UNCHANGED [d \in Calls |-> IF Accepted(d) THEN due[d] ELSE 0]
    BY <1>2, <1>5, <2>2, SagaFrame DEF CreateOrder, Paying, Paid, Failing
  <2>4. Saga!CreateOrder(c)
    BY <1>5, <2>3 DEF CreateOrder, Saga!CreateOrder, Attempt, Saga!Attempt, RowsOfKey,
                      Saga!RowsOfKey, Outcomes, Saga!Outcomes, Reported, Saga!Reported,
                      TakesEffect, Saga!TakesEffect, StepAfter, Saga!StepAfter, TriesAfter,
                      Saga!TriesAfter, Saga!handlerVars, Saga!cancelVars
  <2> QED
    BY <2>3, <2>4 DEF Saga!Next, Saga!Workflow
<1>6. CASE GrantOrderAccess(c)
  <2>1. PICK ok \in BOOLEAN : Attempt(c, ok, "lookup", "notGranted")
    BY <1>6 DEF GrantOrderAccess
  <2>2. step[c] = "grant" /\ step'[c] \in {"grant", "lookup", "notGranted"}
        /\ \A d \in Calls \ {c} : step'[d] = step[d]
    BY <1>1, <1>6, <2>1, AttemptMoves DEF GrantOrderAccess
  <2>3. Tied' /\ UNCHANGED [d \in Calls |-> IF Accepted(d) THEN due[d] ELSE 0]
    BY <1>2, <1>6, <2>2, SagaFrame DEF GrantOrderAccess, Paying, Paid, Failing
  <2>4. Saga!GrantOrderAccess(c)
    BY <1>6, <2>3 DEF GrantOrderAccess, Saga!GrantOrderAccess, Attempt, Saga!Attempt,
                      OwnerTuple, Saga!OwnerTuple, OrgTuple, Saga!OrgTuple, StepAfter,
                      Saga!StepAfter, TriesAfter, Saga!TriesAfter, Saga!handlerVars,
                      Saga!cancelVars
  <2> QED
    BY <2>3, <2>4 DEF Saga!Next, Saga!Workflow
<1>7. CASE LookupProduct(c)
  <2>1. PICK ok \in BOOLEAN :
          /\ due' = IF ok THEN [due EXCEPT ![c] = price[Body[c].product] * Body[c].qty] ELSE due
          /\ Attempt(c, ok, "setTotal", "fail")
    BY <1>7 DEF LookupProduct
  <2>2. step[c] = "lookup" /\ step'[c] \in {"lookup", "setTotal", "fail"}
        /\ \A d \in Calls \ {c} : step'[d] = step[d]
    BY <1>1, <1>7, <2>1, AttemptMoves DEF LookupProduct
  <2>3. \A d \in Calls \ {c} : due'[d] = due[d]
    BY <2>1, Parts
  <2>4. Tied' /\ UNCHANGED [d \in Calls |-> IF Accepted(d) THEN due[d] ELSE 0]
    BY <1>2, <1>7, <2>2, <2>3, SagaFrame DEF LookupProduct, Paying, Paid, Failing
  <2>5. Saga!LookupProduct(c)
    BY <1>7, <2>4 DEF LookupProduct, Saga!LookupProduct, Attempt, Saga!Attempt, StepAfter,
                      Saga!StepAfter, TriesAfter, Saga!TriesAfter, Saga!handlerVars,
                      Saga!storeVars, Saga!cancelVars
  <2> QED
    BY <2>4, <2>5 DEF Saga!Next, Saga!Workflow
<1>8. CASE SetOrderTotal(c)
  <2>1. PICK out \in Outcomes :
          /\ total' = IF TakesEffect(out) THEN [total EXCEPT ![c] = due[c]] ELSE total
          /\ Attempt(c, Reported(out), "charge", "fail")
    BY <1>8 DEF SetOrderTotal
  <2>2. step[c] = "setTotal" /\ step'[c] \in {"setTotal", "charge", "fail"}
        /\ \A d \in Calls \ {c} : step'[d] = step[d]
    BY <1>1, <1>8, <2>1, AttemptMoves DEF SetOrderTotal, Reported
  <2>3. \A d \in Calls \ {c} : total'[d] = total[d]
    BY <2>1, Parts
  <2>4. Tied' /\ UNCHANGED [d \in Calls |-> IF Accepted(d) THEN due[d] ELSE 0]
    BY <1>2, <1>8, <2>2, <2>3, SagaFrame DEF SetOrderTotal, Paying, Paid, Failing
  <2>5. Saga!SetOrderTotal(c)
    BY <1>8, <2>4 DEF SetOrderTotal, Saga!SetOrderTotal, Attempt, Saga!Attempt, Outcomes,
                      Saga!Outcomes, Reported, Saga!Reported, TakesEffect,
                      Saga!TakesEffect, StepAfter, Saga!StepAfter, TriesAfter,
                      Saga!TriesAfter, Saga!handlerVars, Saga!cancelVars
  <2> QED
    BY <2>4, <2>5 DEF Saga!Next, Saga!Workflow
<1>9. CASE Confirm(c)
  <2>1. PICK out \in Outcomes : Attempt(c, Reported(out), "confirmed", "notConfirmed")
    BY <1>9 DEF Confirm
  <2>2. step[c] = "confirm" /\ step'[c] \in Paid
        /\ \A d \in Calls \ {c} : step'[d] = step[d]
    BY <1>1, <1>9, <2>1, AttemptMoves DEF Confirm, Reported, Paid
  <2>3. Tied' /\ UNCHANGED [d \in Calls |-> IF Accepted(d) THEN due[d] ELSE 0]
    BY <1>2, <1>9, <2>2, SagaFrame DEF Confirm, Paid, Failing
  <2>4. Saga!Confirm(c)
    BY <1>9, <2>3 DEF Confirm, Saga!Confirm, Attempt, Saga!Attempt, MarkOrderStatus,
                      Saga!MarkOrderStatus, Outcomes, Saga!Outcomes, Reported,
                      Saga!Reported, TakesEffect, Saga!TakesEffect, StepAfter,
                      Saga!StepAfter, TriesAfter, Saga!TriesAfter, Saga!handlerVars,
                      Saga!cancelVars
  <2> QED
    BY <2>3, <2>4 DEF Saga!Next, Saga!Workflow
<1>10. CASE Fail(c)
  <2>1. PICK out \in Outcomes : Attempt(c, Reported(out), "failed", "notFailed")
    BY <1>10 DEF Fail
  <2>2. step[c] = "fail" /\ step'[c] \in Failing
        /\ \A d \in Calls \ {c} : step'[d] = step[d]
    BY <1>1, <1>10, <2>1, AttemptMoves DEF Fail, Reported, Failing
  <2>3. Tied' /\ UNCHANGED [d \in Calls |-> IF Accepted(d) THEN due[d] ELSE 0]
    BY <1>2, <1>10, <2>2, SagaFrame DEF Fail, Paid, Failing
  <2>4. Saga!Fail(c)
    BY <1>10, <2>3 DEF Fail, Saga!Fail, Attempt, Saga!Attempt, MarkOrderStatus,
                      Saga!MarkOrderStatus, Outcomes, Saga!Outcomes, Reported,
                      Saga!Reported, TakesEffect, Saga!TakesEffect, StepAfter,
                      Saga!StepAfter, TriesAfter, Saga!TriesAfter, Saga!handlerVars,
                      Saga!cancelVars
  <2> QED
    BY <2>3, <2>4 DEF Saga!Next, Saga!Workflow
<1> QED
  BY <1>3, <1>4, <1>5, <1>6, <1>7, <1>8, <1>9, <1>10

\* What operators do to a product disturbs no request.
LEMMA CatalogStep ==
  ASSUME JInv, NEW p \in Products, Catalog(p), UNCHANGED <<sent, payVars>>
  PROVE  Tied' /\ Saga!Next
<1> USE DEF handlerVars, workflowVars, cancelVars
<1>1. Tied'
  BY DEF JInv, Tied, SentOnly, SentAfterTotal, ServedIsPositive, ChargeIsRow, AcceptedHasRow,
         HasRow, Catalog, CreateProduct, UpdateProduct, DeleteProduct, SetPrice, payVars
<1>2. Saga!Catalog(p)
  BY DEF Catalog, CreateProduct, UpdateProduct, DeleteProduct, SetPrice, Saga!Catalog,
         Saga!CreateProduct, Saga!UpdateProduct, Saga!DeleteProduct, Saga!SetPrice,
         Saga!handlerVars, Saga!workflowVars, Saga!cancelVars, Accepted
<1> QED
  BY <1>1, <1>2 DEF Saga!Next

\* A request is sent for the recorded total, and the saga waits where it was.
LEMMA RequestStep ==
  ASSUME JInv, NEW c \in Calls, Request(c)
  PROVE  Tied' /\ UNCHANGED Saga!vars
<1> USE DEF handlerVars, workflowVars, storeVars, cancelVars, vars
<1>1. Current(c) \in Requests /\ Order(Current(c)) = c
  BY Parts, MaxAttemptsAssumption DEF TypeOK, Current, Requests, Order
<1>2. SentOnly' /\ SentAfterTotal'
  BY <1>1, Parts DEF JInv, Tied, SentOnly, SentAfterTotal, Request, Paying, payVars
<1>3. ServedIsPositive' /\ ChargeIsRow' /\ AcceptedHasRow'
  BY DEF JInv, Tied, ServedIsPositive, ChargeIsRow, AcceptedHasRow, HasRow, Request, payVars
<1>4. UNCHANGED Saga!vars
  BY DEF Request, Saga!vars, Saga!handlerVars, Saga!workflowVars, Saga!storeVars,
         Saga!cancelVars, Accepted
<1> QED
  BY <1>2, <1>3, <1>4 DEF Tied

\* The end of an attempt is the one-step charge of Checkout: accepted means that
\* the order has its row and the amount was positive.
LEMMA RespondStep ==
  ASSUME JInv, NEW c \in Calls, Respond(c)
  PROVE  Tied' /\ Saga!Next
<1> USE DEF handlerVars, storeVars, cancelVars, payVars
<1>1. PICK ok \in BOOLEAN : /\ ok => pat[Current(c)] = "answered"
                            /\ Attempt(c, ok, "confirm", "fail")
  BY DEF Respond
<1>2. /\ step[c] = "charge"
      /\ step'[c] \in {"charge", "confirm", "fail"} /\ (step'[c] = "confirm" <=> ok)
      /\ \A d \in Calls \ {c} : step'[d] = step[d]
      /\ UNCHANGED <<at, handle, due, status, total, tuples, price, charge, sent, pat, pstatus>>
  BY <1>1, Parts, AttemptMoves DEF Respond
<1>3. Current(c) \in Requests /\ Order(Current(c)) = c
  BY Parts, MaxAttemptsAssumption DEF TypeOK, Current, Requests, Order
<1>4. ok => HasRow(c) /\ due[c] > 0
  BY <1>1, <1>3, Parts DEF HasRow, JInv, Tied, ServedIsPositive
<1>5. SentOnly' /\ SentAfterTotal'
  BY <1>2 DEF JInv, Tied, SentOnly, SentAfterTotal, Paying, Paid, Failing, Requests, Order
<1>6. ServedIsPositive' /\ ChargeIsRow' /\ AcceptedHasRow'
  BY <1>2, <1>4 DEF JInv, Tied, ServedIsPositive, ChargeIsRow, AcceptedHasRow, HasRow, Paid
<1>7. Tied'
  BY <1>5, <1>6 DEF Tied
<1> DEFINE out == IF ok THEN "done" ELSE "failed"
           known == [d \in Calls |-> IF Accepted(d) THEN due[d] ELSE 0]
<1>8. out \in Outcomes /\ (TakesEffect(out) <=> ok) /\ (Reported(out) <=> ok)
  BY DEF Outcomes, TakesEffect, Reported
<1>9. known' = IF ok /\ known[c] = 0 THEN [known EXCEPT ![c] = due[c]] ELSE known
  BY <1>2 DEF Accepted
<1>10. Saga!Charge(c)
  BY <1>1, <1>2, <1>4, <1>8, <1>9
     DEF Respond, Saga!Charge, Attempt, Saga!Attempt, Outcomes, Saga!Outcomes, Reported,
         Saga!Reported, TakesEffect, Saga!TakesEffect, StepAfter, Saga!StepAfter,
         TriesAfter, Saga!TriesAfter, Saga!handlerVars, Saga!cancelVars
<1> QED
  BY <1>7, <1>10 DEF Saga!Next, Saga!Workflow

-----------------------------------------------------------------------------
(* Steps of payment *)

\* The saga sees nothing of what payment does.
LEMMA Unseen ==
  ASSUME UNCHANGED <<handlerVars, workflowVars, status, total, tuples, price, cancelVars>>
  PROVE  UNCHANGED Saga!vars
  BY DEF handlerVars, workflowVars, cancelVars, Saga!vars, Saga!handlerVars,
         Saga!workflowVars, Saga!storeVars, Saga!cancelVars, Accepted

\* A step of payment that inserts no row, and serves only requests that were
\* sent and carry a positive amount.
LEMMA PaymentFrame ==
  ASSUME JInv, UNCHANGED <<vars, sent>>,
         \A r \in Requests : pstatus'[r] = "absent" <=> pstatus[r] = "absent",
         \A r \in Requests : \/ pat'[r] = pat[r]
                             \/ /\ r \in sent
                                /\ pat'[r] = "error" \/ due[Order(r)] > 0
  PROVE  Tied' /\ UNCHANGED Saga!vars
<1> USE DEF vars, handlerVars, workflowVars, storeVars, cancelVars
<1>1. SentOnly' /\ SentAfterTotal'
  BY DEF JInv, Tied, SentOnly, SentAfterTotal
<1>2. ServedIsPositive'
  BY DEF JInv, Tied, ServedIsPositive
<1>3. ChargeIsRow' /\ AcceptedHasRow'
  BY DEF JInv, Tied, ChargeIsRow, AcceptedHasRow, HasRow
<1>4. UNCHANGED Saga!vars
  BY Unseen
<1> QED
  BY <1>1, <1>2, <1>3, <1>4 DEF Tied

\* The row is the first of its order, and carries the order's total.
LEMMA InsertStep ==
  ASSUME JInv, NEW r \in Requests, ServeInsert(r)
  PROVE  Tied' /\ UNCHANGED Saga!vars
<1> USE DEF handlerVars, workflowVars, cancelVars
<1>1. PICK out \in Outcomes :
        /\ TakesEffect(out) => P!RowsOfKey(r) = {}
        /\ pstatus' = IF TakesEffect(out) THEN [pstatus EXCEPT ![r] = "pending"] ELSE pstatus
        /\ pat' = [pat EXCEPT ![r] = IF Reported(out) THEN "inserted" ELSE "error"]
  BY DEF ServeInsert, P!InsertCharge, P!Outcomes, Outcomes, P!TakesEffect, TakesEffect,
         P!Reported, Reported
<1>2. /\ r \in sent /\ pat[r] = "missed" /\ Order(r) \in Calls
      /\ UNCHANGED <<step, due, total, sent>>
  BY DEF ServeInsert, P!InsertCharge, Requests, Order
<1>3. due[Order(r)] > 0
  BY <1>2 DEF JInv, Tied, ServedIsPositive
<1>4. SentOnly' /\ SentAfterTotal'
  BY <1>1, <1>2, Parts DEF JInv, Tied, SentOnly, SentAfterTotal
<1>5. ServedIsPositive'
  BY <1>1, <1>2, <1>3, Parts DEF JInv, Tied, ServedIsPositive
<1>6. ChargeIsRow' /\ AcceptedHasRow'
  <2>1. CASE TakesEffect(out)
    <3>1. \A s \in Requests : Order(s) = Order(r) => pstatus[s] = "absent"
      BY <1>1, <2>1 DEF P!RowsOfKey, RequestKey
    <3>2. pstatus[r] = "absent" /\ ~HasRow(Order(r)) /\ charge[Order(r)] = 0
      BY <1>2, <3>1 DEF HasRow, JInv, Tied, ChargeIsRow
    <3>3. pstatus' = [pstatus EXCEPT ![r] = "pending"] /\ pstatus'[r] # pstatus[r]
      BY <1>1, <2>1, <3>2, Parts
    <3>4. charge' = [charge EXCEPT ![Order(r)] = due[Order(r)]]
      <4>1. 0 + due[Order(r)] = due[Order(r)]
        BY <1>2, Parts
      <4> QED
        BY <3>2, <3>3, <4>1 DEF ServeInsert
    <3>5. \A c \in Calls : HasRow(c)' <=> HasRow(c) \/ c = Order(r)
      BY <3>3, Parts DEF HasRow
    <3> QED
      BY <1>2, <3>4, <3>5, Parts DEF JInv, Tied, ChargeIsRow, AcceptedHasRow
  <2>2. CASE ~TakesEffect(out)
    <3>1. UNCHANGED <<pstatus, charge>>
      BY <1>1, <2>2 DEF ServeInsert
    <3> QED
      BY <1>2, <3>1 DEF JInv, Tied, ChargeIsRow, AcceptedHasRow, HasRow
  <2> QED
    BY <2>1, <2>2
<1>7. UNCHANGED Saga!vars
  BY Unseen DEF ServeInsert
<1> QED
  BY <1>4, <1>5, <1>6, <1>7 DEF Tied

\* Every step of payment keeps the requests tied and is hidden from the saga.
LEMMA PaymentStep ==
  ASSUME JInv, PaymentNext
  PROVE  Tied' /\ UNCHANGED Saga!vars
<1> USE DEF P!handlerVars, P!chargeVars, P!storeVars, P!refundVars
<1>1. ASSUME NEW r \in Requests, ServeLookup(r) PROVE Tied' /\ UNCHANGED Saga!vars
  <2>1. pat' = [pat EXCEPT ![r] = pat'[r]] /\ UNCHANGED pstatus
    BY <1>1, Parts DEF ServeLookup, P!Lookup, P!Refuse, P!Answer
  <2>2. pat'[r] = "error" \/ due[Order(r)] > 0
    BY <1>1, Parts DEF ServeLookup, Requests, Order
  <2> QED
    BY <1>1, <2>1, <2>2, PaymentFrame, Parts DEF ServeLookup
<1>2. ASSUME NEW r \in Requests, ServeStart(r) PROVE Tied' /\ UNCHANGED Saga!vars
  <2>1. pat[r] = "inserted" /\ pat' = [pat EXCEPT ![r] = pat'[r]] /\ UNCHANGED pstatus
    BY <1>2, Parts DEF ServeStart, P!StartCharge, P!Refuse, P!Answer
  <2>2. due[Order(r)] > 0
    BY <2>1 DEF JInv, Tied, ServedIsPositive
  <2> QED
    BY <1>2, <2>1, <2>2, PaymentFrame, Parts DEF ServeStart
<1>3. ASSUME NEW r \in Requests, PayWorkflow(r) \/ (P!RefundWorkflow(r) /\ UNCHANGED <<vars, sent>>)
      PROVE  Tied' /\ UNCHANGED Saga!vars
  <2>1. UNCHANGED <<pat, vars, sent>>
    BY <1>3 DEF PayWorkflow, P!ChargeWorkflow, P!RefundWorkflow, P!GrantChargeAccess, P!Settle,
                P!MarkSettled, P!MarkFailed, P!Refund, P!MarkRefunded
  <2>2. \A s \in Requests : pstatus'[s] = "absent" <=> pstatus[s] = "absent"
    BY <1>3, Parts DEF PayWorkflow, P!ChargeWorkflow, P!RefundWorkflow, P!GrantChargeAccess,
                P!Settle, P!MarkSettled, P!MarkFailed, P!Refund, P!MarkRefunded,
                P!MarkChargeStatus
  <2> QED
    BY <2>1, <2>2, PaymentFrame
<1>4. ASSUME NEW a \in Refunders, UNCHANGED <<vars, sent>>,
             P!StartRefund(a) \/ \E r \in Requests : P!CheckRefund(a, r)
      PROVE  Tied' /\ UNCHANGED Saga!vars
  <2>1. UNCHANGED <<pat, pstatus>>
    BY <1>4 DEF P!StartRefund, P!CheckRefund
  <2> QED
    BY <1>4, <2>1, PaymentFrame
<1> QED
  BY <1>1, <1>2, <1>3, <1>4, InsertStep DEF PaymentNext

-----------------------------------------------------------------------------
(* The two services together *)

\* To the saga, a step of the two services is a step of Checkout or nothing.
LEMMA SagaSees ==
  ASSUME JInv, [JointNext]_jointVars
  PROVE  Tied' /\ [Saga!Next]_(Saga!vars)
<1>1. CASE UNCHANGED jointVars
  <2>1. UNCHANGED Saga!vars
    BY <1>1, Unseen DEF jointVars, vars, storeVars
  <2>2. Tied'
    BY <1>1 DEF jointVars, vars, workflowVars, storeVars, payVars, JInv, Tied, SentOnly,
                SentAfterTotal, ServedIsPositive, ChargeIsRow, AcceptedHasRow, HasRow
  <2> QED
    BY <2>1, <2>2
<1>2. CASE OrdersNext
  BY <1>2, OrdersStep, CatalogStep, RequestStep, RespondStep DEF OrdersNext, JointWorkflow
<1>3. CASE PaymentNext
  BY <1>3, PaymentStep
<1> QED
  BY <1>1, <1>2, <1>3 DEF JointNext

\* To payment, it is a step of payment or nothing.
LEMMA PaymentSees ==
  ASSUME [JointNext]_jointVars
  PROVE  [P!Next]_(P!vars)
<1>1. CASE UNCHANGED payVars
  BY <1>1 DEF payVars, P!vars, P!handlerVars, P!chargeVars, P!storeVars, P!refundVars
<1>2. CASE PaymentNext
  BY <1>2 DEF PaymentNext, ServeLookup, ServeInsert, ServeStart, PayWorkflow, P!Next
<1> QED
  BY <1>1, <1>2 DEF JointNext, OrdersNext, JointWorkflow, Request, Respond, jointVars

\* Every step keeps the joint invariant.
LEMMA JointStep == JInv /\ [JointNext]_jointVars => JInv'
<1> SUFFICES ASSUME JInv, [JointNext]_jointVars PROVE JInv'
  OBVIOUS
<1>1. Known!IInv'
  BY SagaSees, KnownSame, KnownStep DEF JInv
<1>2. Paym!IInv'
  BY PaymentSees, PaymSame, PaymStep DEF JInv
<1> QED
  BY <1>1, <1>2, SagaSees DEF JInv

\* At the start no saga runs and nothing was sent.
LEMMA JointStart == JointInit => JInv /\ Saga!Init
<1> SUFFICES ASSUME JointInit PROVE JInv /\ Saga!Init
  OBVIOUS
<1>1. Saga!Init /\ Known!Init
  BY DEF JointInit, Init, Saga!Init, Known!Init, Accepted
<1>2. Known!IInv
  BY <1>1, Known!TypeInit, Known!SagaInit, BodyAssumption, PricesAssumption, NobodyAssumption,
     MaxAttemptsAssumption DEF Known!IInv
<1>3. Paym!Init
  BY DEF JointInit, P!Init, Paym!Init
<1>4. Paym!IInv
  BY <1>3, Paym!TypeInit, Paym!ChargeInit, PaymAssumptions, MaxAttemptsAssumption
     DEF Paym!BodyAssumption, Paym!NobodyAssumption, Paym!MaxRefundRunsAssumption, Paym!IInv
<1>5. Tied
  BY DEF JointInit, Init, P!Init, Tied, SentOnly, SentAfterTotal, ServedIsPositive,
         ChargeIsRow, AcceptedHasRow, HasRow, Paid
<1> QED
  BY <1>1, <1>2, <1>4, <1>5 DEF JInv

\* What the proofs of the two components say of each holds of the two together,
\* with what ties the requests to their orders.
THEOREM JointInvariant == JointSpec => []JInv
  BY JointStart, JointStep, PTL DEF JointSpec

\* Run against payment, the orders service is the saga of Checkout with its
\* one-step charge (workflows/checkout.go, workflows/charge.go).
THEOREM Refines == JointSpec => ChargeIsOneStep
<1>1. JointInit => Saga!Init
  BY JointStart
<1>2. JInv /\ [JointNext]_jointVars => [Saga!Next]_(Saga!vars)
  BY SagaSees
<1> QED
  BY <1>1, <1>2, JointInvariant, PTL DEF JointSpec, ChargeIsOneStep, Saga!Spec

\* Types, and no request is served that was not sent.
THEOREM JointTypeCorrect == JointSpec => []JointTypeOK
<1>1. JInv => JointTypeOK
  <2> SUFFICES ASSUME JInv PROVE JointTypeOK
    OBVIOUS
  <2>1. P!TypeOK
    BY DEF JInv, Paym!IInv, Paym!TypeOK, P!TypeOK, Paym!Running, P!Running, Paym!Closed,
           P!Closed, Paym!GaveUp, P!GaveUp, Paym!Status, P!Status
  <2> QED
    BY <2>1, Parts DEF JInv, Tied, SentOnly, JointTypeOK
<1> QED
  BY <1>1, JointInvariant, PTL

\* An order has one charge row however often its activity is retried, and it
\* carries the order's total (payment: the Idempotency-Key is the order's id).
THEOREM OneCharge == JointSpec => []OneChargePerOrder
<1>1. JInv => OneChargePerOrder
  <2> SUFFICES ASSUME JInv PROVE OneChargePerOrder
    OBVIOUS
  <2>1. \A r, s \in Requests :
          pstatus[r] # "absent" /\ pstatus[s] # "absent" /\ Order(r) = Order(s) => r = s
    BY DEF JInv, Paym!IInv, Paym!ChargeInv, Paym!OneRowPerKey, RequestKey
  <2>2. \A c \in Calls : charge[c] \in {0, due[c]}
    BY DEF JInv, Tied, ChargeIsRow
  <2> QED
    BY <2>1, <2>2 DEF OneChargePerOrder
<1> QED
  BY <1>1, JointInvariant, PTL

\* The processor only takes money for an order that exists, shows that amount
\* and whose readers can read the charge.
THEOREM Captured == JointSpec => []CapturedForOrder
<1>1. JInv => CapturedForOrder
  <2> SUFFICES ASSUME JInv, NEW r \in captured
               PROVE  /\ r \in granted /\ Readable(Order(r))
                      /\ total[Order(r)] > 0 /\ total[Order(r)] = charge[Order(r)]
    BY DEF CapturedForOrder
  <2>1. r \in Requests /\ Order(r) \in Calls
    BY DEF JInv, Paym!IInv, Paym!TypeOK, Requests, Order
  <2>2. r \in granted /\ pstatus[r] # "absent"
    BY <2>1 DEF JInv, Paym!IInv, Paym!ChargeInv, Paym!RowBeforeStart, Paym!CapturedAtStep,
                Paym!GrantBeforeSettle, Paym!Asked, Paym!Taken, Paym!Declined
  <2>3. charge[Order(r)] = due[Order(r)] /\ due[Order(r)] > 0
    BY <2>1, <2>2 DEF JInv, Tied, ChargeIsRow, HasRow, ServedIsPositive
  <2>4. r \in sent
    BY <2>1, <2>2, Parts DEF JInv, Tied, SentOnly
  <2>5. /\ step[Order(r)] \in Paying \cup Paid \cup Failing
        /\ total[Order(r)] = due[Order(r)]
    BY <2>4 DEF JInv, Tied, SentAfterTotal
  <2>6. Readable(Order(r))
    BY <2>1, <2>5 DEF JInv, Known!IInv, Known!SagaInv, Known!RowBeforeGrant, Known!GrantBeforePrice,
                Known!Granted, Known!OwnerTuple, Known!OrgTuple, Known!Paying, Known!Paid,
                Known!Failing, Paying, Paid, Failing, Readable, Granted, OwnerTuple, OrgTuple
  <2> QED
    BY <2>2, <2>3, <2>5, <2>6
<1> QED
  BY <1>1, JointInvariant, PTL

-----------------------------------------------------------------------------
(* The promise of the saga, with payment's rows for its charges *)

\* A row carries the total of an order that got as far as paying.
LEMMA RowIsTotal ==
  ASSUME JInv, NEW c \in Calls, HasRow(c)
  PROVE  /\ charge[c] = due[c] /\ due[c] > 0 /\ total[c] = due[c]
         /\ step[c] \in Paying \cup Paid \cup Failing
<1>1. PICK r \in Requests : Order(r) = c /\ pstatus[r] # "absent"
  BY DEF HasRow
<1>2. r \in sent
  BY <1>1, Parts DEF JInv, Tied, SentOnly
<1> QED
  BY <1>1, <1>2 DEF JInv, Tied, ChargeIsRow, ServedIsPositive, SentAfterTotal

\* What CheckoutProofs proves of the saga holds with the charges payment records,
\* early or late, as it does with those the saga knows of.
LEMMA SagaHolds == JInv => IInv
<1> SUFFICES ASSUME JInv PROVE IInv
  OBVIOUS
<1> USE DEF Known!IInv, Known!SagaInv, JInv
<1>1. NotStarted /\ RowBeforeGrant /\ GrantBeforePrice
  BY DEF Known!NotStarted, NotStarted, Known!RowBeforeGrant, RowBeforeGrant,
         Known!GrantBeforePrice, GrantBeforePrice, Known!Granted, Granted, Known!OwnerTuple,
         OwnerTuple, Known!OrgTuple, OrgTuple, Known!Inserted, Inserted, Known!Shared, Shared,
         Known!Paying, Paying, Known!Paid, Paid, Known!Failing, Failing
<1>2. TotalBeforeCharge /\ StatusAtStep
  BY DEF Known!TotalBeforeCharge, TotalBeforeCharge, Known!StatusAtStep, StatusAtStep,
         Known!Paying, Paying, Known!Paid, Paid, Known!Failing, Failing
<1>3. OneRowPerKey /\ HandleHoldsKey
  BY DEF Known!OneRowPerKey, OneRowPerKey, Known!HandleHoldsKey, HandleHoldsKey
<1>4. ChargeIsTotal
  BY RowIsTotal DEF Tied, ChargeIsRow, ChargeIsTotal
<1>5. PaidWasCharged
  BY RowIsTotal DEF Tied, AcceptedHasRow, PaidWasCharged
<1> QED
  BY <1>1, <1>2, <1>3, <1>4, <1>5, Parts DEF IInv, SagaInv

\* Payment's insert is the abstract effect, whenever it comes; the end of an
\* attempt decides the order or leaves it open.
LEMMA JointPromiseStep == JInv /\ [JointNext]_jointVars => [Promise!Next]_(Promise!abstract)
<1> SUFFICES ASSUME JInv, [JointNext]_jointVars
             PROVE  Promise!Next \/ UNCHANGED Promise!abstract
  OBVIOUS
<1> USE DEF handlerVars, workflowVars, storeVars, cancelVars
<1>1. IInv
  BY SagaHolds
<1>2. CASE [Next]_vars
  BY <1>1, <1>2, PromiseStep
<1>3. ASSUME NEW c \in Calls, Respond(c) PROVE Promise!Next \/ UNCHANGED Promise!abstract
  <2>1. PICK ok \in BOOLEAN : /\ ok => pat[Current(c)] = "answered"
                              /\ Attempt(c, ok, "confirm", "fail")
    BY <1>3 DEF Respond
  <2>2. /\ step[c] = "charge"
        /\ step'[c] \in {"charge", "confirm", "fail"} /\ (step'[c] = "confirm" <=> ok)
        /\ \A d \in Calls \ {c} : step'[d] = step[d]
        /\ UNCHANGED <<status, charge>> /\ Charged' = Charged
    BY <1>3, <2>1, Parts, AttemptMoves DEF Respond, Charged
  <2>3. status[c] # "absent"
    BY <1>1, <2>2 DEF IInv, SagaInv, RowBeforeGrant, Paying
  <2>4. CASE step'[c] = "fail"
    BY <2>2, <2>3, <2>4, Rejects DEF Promise!Next
  <2>5. CASE step'[c] = "confirm"
    <3>1. Verdict[c] = "open" /\ Verdict' = [Verdict EXCEPT ![c] = "done"]
      BY <2>2, <2>5 DEF Verdict
    <3>2. c \in Charged
      <4>1. AcceptedHasRow'
        BY SagaSees DEF Tied
      <4>2. UNCHANGED pstatus
        BY <1>3 DEF Respond, payVars
      <4>3. HasRow(c)
        BY <2>2, <2>5, <4>1, <4>2 DEF AcceptedHasRow, HasRow, Paid
      <4> QED
        BY <4>3, RowIsTotal DEF Charged
    <3> QED
      BY <2>2, <2>3, <3>1, <3>2 DEF Promise!Accept, Promise!Next, Charged
  <2>6. CASE step'[c] = "charge"
    <3>1. Verdict' = Verdict
      BY <2>2, <2>6 DEF Verdict
    <3> QED
      BY <2>2, <3>1, Stutters
  <2> QED
    BY <2>2, <2>4, <2>5, <2>6
<1>4. ASSUME NEW r \in Requests, ServeInsert(r)
      PROVE  Promise!Next \/ UNCHANGED Promise!abstract
  <2>1. Order(r) \in Calls /\ r \in sent /\ UNCHANGED <<step, status, due>>
    BY <1>4 DEF ServeInsert, Requests, Order
  <2>2. Verdict' = Verdict
    BY <2>1 DEF Verdict
  <2>3. status[Order(r)] # "absent"
    BY <1>1, <2>1 DEF JInv, Tied, SentAfterTotal, IInv, SagaInv, RowBeforeGrant
  <2>4. CASE charge' = charge
    BY <2>1, <2>2, <2>4, Stutters
  <2>5. CASE charge' # charge
    <3>1. charge' = [charge EXCEPT ![Order(r)] = charge[Order(r)] + due[Order(r)]]
      BY <1>4, <2>5 DEF ServeInsert
    <3>2. due[Order(r)] > 0
      BY <1>4 DEF ServeInsert, P!InsertCharge, JInv, Tied, ServedIsPositive
    <3>3. charge[Order(r)] \in Nat /\ due[Order(r)] \in Nat
      BY <2>1, Parts DEF TypeOK
    <3>4. charge[Order(r)] + due[Order(r)] > 0
      BY <3>2, <3>3
    <3>5. Charged' = Charged \cup {Order(r)}
      BY <2>1, <3>1, <3>4, Parts DEF TypeOK, Charged
    <3> QED
      BY <2>1, <2>2, <2>3, <3>5 DEF Promise!Take, Promise!Next, Charged
  <2> QED
    BY <2>4, <2>5
<1> QED
  BY <1>2, <1>3, <1>4
     DEF JointNext, OrdersNext, JointWorkflow, PaymentNext, Next, Workflow, Request,
         ServeLookup, ServeStart, PayWorkflow, jointVars, vars

\* With payment in the place of the one-step charge the saga still implements
\* OncePerKey, its effect being the charge row, late requests included.
THEOREM JointImplements == JointSpec => KeepsPromise
<1>1. JointInit => Promise!Init
  BY DEF JointInit, Init, Promise!Init, Verdict
<1> QED
  BY <1>1, JointPromiseStep, JointInvariant, PTL DEF JointSpec, KeepsPromise, Promise!Spec
=============================================================================
