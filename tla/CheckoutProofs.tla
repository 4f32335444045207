--------------------------- MODULE CheckoutProofs ---------------------------
(***************************************************************************)
(* Proofs about Checkout, for any set of calls, prices and operators and   *)
(* any number of attempts.                                                 *)
(***************************************************************************)
EXTENDS Checkout, TLAPS

-----------------------------------------------------------------------------
(* The inductive invariant: what each point of the saga has already done. *)

\* No workflow is running for an order id before its handler starts one, and a
\* row is only ever written by the workflow.
NotStarted ==
  \A c \in Calls : /\ at[c] \in {"new", "missed"} => step[c] = "none"
                   /\ step[c] = "none" => status[c] = "absent"

Inserted == {"grant", "notGranted"}
Shared   == {"lookup", "setTotal"}
Paying   == {"charge"}
Paid     == {"confirm", "confirmed", "notConfirmed"}
Failing  == {"fail", "failed", "notFailed"}

RowBeforeGrant ==
  \A c \in Calls : step[c] \in Inserted \cup Shared \cup Paying \cup Paid \cup Failing =>
    status[c] # "absent"

GrantBeforePrice ==
  \A c \in Calls : step[c] \in Shared \cup Paying \cup Paid \cup Failing => Granted(c)

TotalBeforeCharge ==
  \A c \in Calls : step[c] \in Paying \cup Paid => total[c] = due[c]

ChargeIsTotal ==
  \A c \in Calls : charge[c] > 0 =>
    step[c] \in Paying \cup Paid \cup Failing /\ total[c] = charge[c]

PaidWasCharged ==
  \A c \in Calls : step[c] \in Paid => charge[c] > 0

\* Which mark the row can carry at which point, cancellations aside.
StatusAtStep ==
  \A c \in Calls : /\ status[c] = "confirmed" => step[c] \in Paid
                   /\ status[c] = "failed" => step[c] \in Failing
                   /\ status[c] = "pending" => step[c] \notin {"confirmed", "failed"}

\* The unique index on idempotency_key.
OneRowPerKey ==
  \A c, d \in Calls :
    status[c] # "absent" /\ status[d] # "absent" /\ Body[c].key = Body[d].key => c = d

\* An answer names the order the call minted or the row that holds its key.
HandleHoldsKey ==
  \A c \in Calls : at[c] = "answered" /\ handle[c] # c =>
    /\ handle[c] \in Calls
    /\ status[handle[c]] # "absent"
    /\ Body[handle[c]].key = Body[c].key

SagaInv ==
  /\ NotStarted
  /\ RowBeforeGrant
  /\ GrantBeforePrice
  /\ TotalBeforeCharge
  /\ ChargeIsTotal
  /\ PaidWasCharged
  /\ StatusAtStep
  /\ OneRowPerKey
  /\ HandleHoldsKey

IInv == TypeOK /\ SagaInv

-----------------------------------------------------------------------------
(* Attempts and totals *)

\* An attempt only moves the workflow it belongs to, one step along or to the
\* step it gives up at.
LEMMA AttemptMoves ==
  ASSUME TypeOK, NEW c \in Calls, NEW ok \in BOOLEAN, NEW next, NEW giveUp,
         Attempt(c, ok, next, giveUp)
  PROVE  /\ step' = [step EXCEPT ![c] = step'[c]]
         /\ \A d \in Calls \ {c} : step'[d] = step[d]
         /\ ok => step'[c] = next
         /\ ~ok => step'[c] \in {step[c], giveUp}
         /\ tries' \in [Calls -> 0 .. MaxAttempts - 1]
<1>1. tries[c] \in 0 .. MaxAttempts - 1 /\ step[c] = step[c]
  BY DEF TypeOK
<1>2. step'[c] = StepAfter(ok, tries[c], step[c], next, giveUp)
  BY DEF Attempt, TypeOK
<1>3. TriesAfter(ok, tries[c]) \in 0 .. MaxAttempts - 1
  BY <1>1, MaxAttemptsAssumption DEF TriesAfter
<1> QED
  BY <1>1, <1>2, <1>3, MaxAttemptsAssumption DEF StepAfter, Attempt, TypeOK

\* Total prices are naturals.
LEMMA DueType ==
  ASSUME TypeOK, NEW c \in Calls, price[Body[c].product] \in Prices
  PROVE  price[Body[c].product] * Body[c].qty \in Nat
<1>1. price[Body[c].product] \in Nat /\ Body[c].qty \in Nat
  BY BodyAssumption, PricesAssumption DEF TypeOK
<1> QED
  BY <1>1, SMT

-----------------------------------------------------------------------------
(* Type correctness *)

LEMMA TypeInit == Init => TypeOK
  BY MaxAttemptsAssumption, NobodyAssumption, SMT DEF Init, TypeOK, Status, Running, Closed, GaveUp

LEMMA TypeStep == TypeOK /\ [Next]_vars => TypeOK'
<1> SUFFICES ASSUME TypeOK, [Next]_vars PROVE TypeOK'
  OBVIOUS
<1> USE DEF handlerVars, workflowVars, storeVars, cancelVars
<1>1. ASSUME NEW c \in Calls, Lookup(c) PROVE TypeOK'
  BY <1>1, NobodyAssumption DEF Lookup, Answer, Refuse, RowsOfKey, TypeOK
<1>2. ASSUME NEW c \in Calls, Start(c) PROVE TypeOK'
  BY <1>2 DEF Start, Answer, Refuse, TypeOK, Running
<1>3. ASSUME NEW c \in Calls, CreateOrder(c) PROVE TypeOK'
  <2>1. PICK out \in Outcomes : Attempt(c, Reported(out), "grant", "notCreated")
    BY <1>3 DEF CreateOrder
  <2>2. step'[c] \in {"grant", "create", "notCreated"} /\ step' = [step EXCEPT ![c] = step'[c]]
        /\ tries' \in [Calls -> 0 .. MaxAttempts - 1]
    BY <1>3, <2>1, AttemptMoves DEF CreateOrder, Reported
  <2> QED
    BY <1>3, <2>2 DEF CreateOrder, TypeOK, Running, Closed, GaveUp, Status
<1>4. ASSUME NEW c \in Calls, GrantOrderAccess(c) PROVE TypeOK'
  <2>1. PICK ok \in BOOLEAN : Attempt(c, ok, "lookup", "notGranted")
    BY <1>4 DEF GrantOrderAccess
  <2>2. step'[c] \in {"grant", "lookup", "notGranted"} /\ step' = [step EXCEPT ![c] = step'[c]]
        /\ tries' \in [Calls -> 0 .. MaxAttempts - 1]
    BY <1>4, <2>1, AttemptMoves DEF GrantOrderAccess
  <2> QED
    BY <1>4, <2>2 DEF GrantOrderAccess, TypeOK, Running, Closed, GaveUp
<1>5. ASSUME NEW c \in Calls, LookupProduct(c) PROVE TypeOK'
  <2>1. PICK ok \in BOOLEAN :
          /\ ok => price[Body[c].product] \in Prices
          /\ due' = IF ok THEN [due EXCEPT ![c] = price[Body[c].product] * Body[c].qty] ELSE due
          /\ Attempt(c, ok, "setTotal", "fail")
    BY <1>5 DEF LookupProduct
  <2>2. step'[c] \in {"lookup", "setTotal", "fail"} /\ step' = [step EXCEPT ![c] = step'[c]]
        /\ tries' \in [Calls -> 0 .. MaxAttempts - 1]
    BY <1>5, <2>1, AttemptMoves DEF LookupProduct
  <2>3. due' \in [Calls -> Nat]
    BY <2>1, DueType DEF TypeOK
  <2> QED
    BY <1>5, <2>2, <2>3 DEF LookupProduct, TypeOK, Running, Closed, GaveUp
<1>6. ASSUME NEW c \in Calls, SetOrderTotal(c) PROVE TypeOK'
  <2>1. PICK out \in Outcomes : Attempt(c, Reported(out), "charge", "fail")
    BY <1>6 DEF SetOrderTotal
  <2>2. step'[c] \in {"setTotal", "charge", "fail"} /\ step' = [step EXCEPT ![c] = step'[c]]
        /\ tries' \in [Calls -> 0 .. MaxAttempts - 1]
    BY <1>6, <2>1, AttemptMoves DEF SetOrderTotal, Reported
  <2> QED
    BY <1>6, <2>2 DEF SetOrderTotal, TypeOK, Running, Closed, GaveUp
<1>7. ASSUME NEW c \in Calls, Charge(c) PROVE TypeOK'
  <2>1. PICK out \in Outcomes : Attempt(c, Reported(out), "confirm", "fail")
    BY <1>7 DEF Charge
  <2>2. step'[c] \in {"charge", "confirm", "fail"} /\ step' = [step EXCEPT ![c] = step'[c]]
        /\ tries' \in [Calls -> 0 .. MaxAttempts - 1]
    BY <1>7, <2>1, AttemptMoves DEF Charge, Reported
  <2> QED
    BY <1>7, <2>2 DEF Charge, TypeOK, Running, Closed, GaveUp
<1>8. ASSUME NEW c \in Calls, Confirm(c) PROVE TypeOK'
  <2>1. PICK out \in Outcomes : Attempt(c, Reported(out), "confirmed", "notConfirmed")
    BY <1>8 DEF Confirm
  <2>2. step'[c] \in {"confirm", "confirmed", "notConfirmed"}
        /\ step' = [step EXCEPT ![c] = step'[c]] /\ tries' \in [Calls -> 0 .. MaxAttempts - 1]
    BY <1>8, <2>1, AttemptMoves DEF Confirm, Reported
  <2> QED
    BY <1>8, <2>2 DEF Confirm, MarkOrderStatus, TypeOK, Running, Closed, GaveUp, Status
<1>9. ASSUME NEW c \in Calls, Fail(c) PROVE TypeOK'
  <2>1. PICK out \in Outcomes : Attempt(c, Reported(out), "failed", "notFailed")
    BY <1>9 DEF Fail
  <2>2. step'[c] \in {"fail", "failed", "notFailed"}
        /\ step' = [step EXCEPT ![c] = step'[c]] /\ tries' \in [Calls -> 0 .. MaxAttempts - 1]
    BY <1>9, <2>1, AttemptMoves DEF Fail, Reported
  <2> QED
    BY <1>9, <2>2 DEF Fail, MarkOrderStatus, TypeOK, Running, Closed, GaveUp, Status
<1>10. ASSUME NEW c \in Calls, Cancel(c) PROVE TypeOK'
  <2>1. PICK out \in Outcomes :
          /\ cstep' = [cstep EXCEPT ![c] =
               StepAfter(Reported(out), ctries[c], "mark", "cancelled", "gaveUp")]
          /\ ctries' = [ctries EXCEPT ![c] = TriesAfter(Reported(out), ctries[c])]
    BY <1>10 DEF Cancel
  <2>2. /\ StepAfter(Reported(out), ctries[c], "mark", "cancelled", "gaveUp")
             \in {"mark", "cancelled", "gaveUp"}
        /\ TriesAfter(Reported(out), ctries[c]) \in 0 .. MaxAttempts - 1
    <3>1. ctries[c] \in 0 .. MaxAttempts - 1 /\ Reported(out) \in BOOLEAN
      BY DEF Reported, TypeOK
    <3> QED
      BY <3>1, MaxAttemptsAssumption DEF StepAfter, TriesAfter
  <2> QED
    BY <1>10, <2>1, <2>2 DEF Cancel, MarkOrderStatus, TypeOK, Status
<1>11. ASSUME NEW a \in Operators, StartCancel(a) PROVE TypeOK'
  BY <1>11, MaxAttemptsAssumption DEF StartCancel, TypeOK
<1>12. ASSUME NEW a \in Operators, NEW c \in Calls, CheckCancel(a, c) PROVE TypeOK'
  BY <1>12 DEF CheckCancel, TypeOK
<1>13. ASSUME NEW p \in Products, Catalog(p) PROVE TypeOK'
  BY <1>13 DEF Catalog, CreateProduct, UpdateProduct, DeleteProduct, SetPrice, TypeOK
<1>14. CASE UNCHANGED vars
  BY <1>14 DEF vars, TypeOK
<1> QED
  BY <1>1, <1>2, <1>3, <1>4, <1>5, <1>6, <1>7, <1>8, <1>9, <1>10, <1>11, <1>12, <1>13, <1>14
     DEF Next, Workflow

\* Every variable keeps its type, for any number of calls, operators, products
\* and attempts.
THEOREM TypeCorrect == Spec => []TypeOK
  BY TypeInit, TypeStep, PTL DEF Spec

-----------------------------------------------------------------------------
(* The inductive invariant *)

LEMMA SagaInit == Init => SagaInv
  BY NobodyAssumption, SMT
     DEF Init, SagaInv, NotStarted, RowBeforeGrant, GrantBeforePrice, TotalBeforeCharge,
         ChargeIsTotal, PaidWasCharged, StatusAtStep, OneRowPerKey, HandleHoldsKey,
         Inserted, Shared, Paying, Paid, Failing

LEMMA SagaStep == IInv /\ [Next]_vars => SagaInv'
<1> SUFFICES ASSUME TypeOK, SagaInv, [Next]_vars PROVE SagaInv'
  BY DEF IInv
<1> USE DEF handlerVars, workflowVars, storeVars, cancelVars
<1> USE DEF Inserted, Shared, Paying, Paid, Failing, Granted
<1>1. ASSUME NEW c \in Calls, Lookup(c) PROVE SagaInv'
  <2>1. HandleHoldsKey'
    BY <1>1 DEF Lookup, Answer, Refuse, RowsOfKey, SagaInv, HandleHoldsKey, TypeOK
  <2> QED
    BY <1>1, <2>1 DEF Lookup, Answer, Refuse, TypeOK, SagaInv, NotStarted, RowBeforeGrant,
       GrantBeforePrice, TotalBeforeCharge, ChargeIsTotal, PaidWasCharged, StatusAtStep,
       OneRowPerKey
<1>2. ASSUME NEW c \in Calls, Start(c) PROVE SagaInv'
  <2>1. /\ step[c] = "none" /\ status[c] = "absent"
       
        /\ step'[c] \in {"none", "create"} /\ \A d \in Calls \ {c} : step'[d] = step[d]
        /\ at' \in [Calls -> {"new", "missed", "answered", "error"}]
        /\ at'[c] \in {"answered", "error"} /\ \A d \in Calls \ {c} : at'[d] = at[d]
    BY <1>2 DEF Start, Answer, Refuse, TypeOK, SagaInv, NotStarted, Running
  <2>2. HandleHoldsKey'
    BY <1>2 DEF Start, Answer, Refuse, SagaInv, HandleHoldsKey, TypeOK
  <2> QED
    BY <1>2, <2>1, <2>2 DEF Start, TypeOK, SagaInv, NotStarted, RowBeforeGrant,
       GrantBeforePrice, TotalBeforeCharge, ChargeIsTotal, PaidWasCharged, StatusAtStep,
       OneRowPerKey
<1>3. ASSUME NEW c \in Calls, CreateOrder(c) PROVE SagaInv'
  <2>1. PICK out \in Outcomes :
          /\ TakesEffect(out) => RowsOfKey(c) \subseteq {c}
          /\ status' = IF TakesEffect(out) /\ status[c] = "absent"
                         THEN [status EXCEPT ![c] = "pending"] ELSE status
          /\ Attempt(c, Reported(out), "grant", "notCreated")
    BY <1>3 DEF CreateOrder
  <2>2. /\ step[c] = "create"
        /\ step'[c] \in {"create", "grant", "notCreated"}
        /\ step'[c] = "grant" => Reported(out)
        /\ \A d \in Calls \ {c} : step'[d] = step[d]
    <3>1. Reported(out) \in BOOLEAN
      BY DEF Reported
    <3> QED
      BY <1>3, <2>1, <3>1, AttemptMoves DEF CreateOrder
  <2>3. /\ status' \in [Calls -> Status]
        /\ Reported(out) => status'[c] # "absent"
        /\ status'[c] \in {status[c], "pending"} /\ \A d \in Calls \ {c} : status'[d] = status[d]
        /\ status[c] # "absent" => status'[c] = status[c]
    BY <2>1 DEF TypeOK, Status, Reported, TakesEffect
  <2>4. OneRowPerKey'
    BY <2>1, <2>3 DEF SagaInv, OneRowPerKey, RowsOfKey, TakesEffect, TypeOK
  <2>5. HandleHoldsKey'
    BY <1>3, <2>3 DEF CreateOrder, SagaInv, HandleHoldsKey
  <2> QED
    BY <1>3, <2>2, <2>3, <2>4, <2>5 DEF CreateOrder, TypeOK, SagaInv, NotStarted, RowBeforeGrant,
       GrantBeforePrice, TotalBeforeCharge, ChargeIsTotal, PaidWasCharged, StatusAtStep
<1>4. ASSUME NEW c \in Calls, GrantOrderAccess(c) PROVE SagaInv'
  <2>1. PICK written \in {{}, {OwnerTuple(c)}, {OwnerTuple(c), OrgTuple(c)}}, ok \in BOOLEAN :
          /\ ok => written = {OwnerTuple(c), OrgTuple(c)}
          /\ tuples' = tuples \cup written
          /\ Attempt(c, ok, "lookup", "notGranted")
    BY <1>4 DEF GrantOrderAccess
  <2>2. /\ step[c] = "grant"
        /\ step'[c] \in {"grant", "lookup", "notGranted"}
        /\ step'[c] = "lookup" => ok
        /\ \A d \in Calls \ {c} : step'[d] = step[d]
    BY <1>4, <2>1, AttemptMoves DEF GrantOrderAccess
  <2>3. \A d \in Calls : Granted(d) => {OwnerTuple(d), OrgTuple(d)} \subseteq tuples'
    BY <2>1
  <2>4. GrantBeforePrice'
    BY <2>1, <2>2, <2>3 DEF SagaInv, GrantBeforePrice, OwnerTuple, OrgTuple
  <2> QED
    BY <1>4, <2>2, <2>4 DEF GrantOrderAccess, TypeOK, SagaInv, NotStarted, RowBeforeGrant,
       TotalBeforeCharge, ChargeIsTotal, PaidWasCharged, StatusAtStep, OneRowPerKey,
       HandleHoldsKey
<1>5. ASSUME NEW c \in Calls, LookupProduct(c) PROVE SagaInv'
  <2>1. PICK ok \in BOOLEAN :
          /\ due' = IF ok THEN [due EXCEPT ![c] = price[Body[c].product] * Body[c].qty] ELSE due
          /\ Attempt(c, ok, "setTotal", "fail")
    BY <1>5 DEF LookupProduct
  <2>2. /\ step[c] = "lookup"
        /\ step'[c] \in {"lookup", "setTotal", "fail"}
        /\ \A d \in Calls \ {c} : step'[d] = step[d]
    BY <1>5, <2>1, AttemptMoves DEF LookupProduct
  <2>3. \A d \in Calls \ {c} : due'[d] = due[d]
    BY <2>1 DEF TypeOK
  <2> QED
    BY <1>5, <2>2, <2>3 DEF LookupProduct, TypeOK, SagaInv, NotStarted, RowBeforeGrant,
       GrantBeforePrice, TotalBeforeCharge, ChargeIsTotal, PaidWasCharged, StatusAtStep,
       OneRowPerKey, HandleHoldsKey, OwnerTuple, OrgTuple
<1>6. ASSUME NEW c \in Calls, SetOrderTotal(c) PROVE SagaInv'
  <2>1. PICK out \in Outcomes :
          /\ total' = IF TakesEffect(out) THEN [total EXCEPT ![c] = due[c]] ELSE total
          /\ Attempt(c, Reported(out), "charge", "fail")
    BY <1>6 DEF SetOrderTotal
  <2>2. /\ step[c] = "setTotal"
        /\ step'[c] \in {"setTotal", "charge", "fail"}
        /\ step'[c] = "charge" => Reported(out)
        /\ \A d \in Calls \ {c} : step'[d] = step[d]
    <3>1. Reported(out) \in BOOLEAN
      BY DEF Reported
    <3> QED
      BY <1>6, <2>1, <3>1, AttemptMoves DEF SetOrderTotal
  <2>3. /\ \A d \in Calls \ {c} : total'[d] = total[d]
        /\ Reported(out) => total'[c] = due[c]
    BY <2>1 DEF TypeOK, Reported, TakesEffect
  <2>4. ~(charge[c] > 0)
    BY <2>2 DEF SagaInv, ChargeIsTotal
  <2> QED
    BY <1>6, <2>2, <2>3, <2>4 DEF SetOrderTotal, TypeOK, SagaInv, NotStarted, RowBeforeGrant,
       GrantBeforePrice, TotalBeforeCharge, ChargeIsTotal, PaidWasCharged, StatusAtStep,
       OneRowPerKey, HandleHoldsKey, OwnerTuple, OrgTuple
<1>7. ASSUME NEW c \in Calls, Charge(c) PROVE SagaInv'
  <2>1. PICK out \in Outcomes :
          /\ TakesEffect(out) => due[c] > 0
          /\ charge' = IF TakesEffect(out) /\ charge[c] = 0
                         THEN [charge EXCEPT ![c] = due[c]] ELSE charge
          /\ Attempt(c, Reported(out), "confirm", "fail")
    BY <1>7 DEF Charge
  <2>2. /\ step[c] = "charge"
        /\ step'[c] \in {"charge", "confirm", "fail"}
        /\ step'[c] = "confirm" => Reported(out)
        /\ \A d \in Calls \ {c} : step'[d] = step[d]
    <3>1. Reported(out) \in BOOLEAN
      BY DEF Reported
    <3> QED
      BY <1>7, <2>1, <3>1, AttemptMoves DEF Charge
  <2>3. total[c] = due[c]
    BY <2>2 DEF SagaInv, TotalBeforeCharge
  <2>4. /\ \A d \in Calls \ {c} : charge'[d] = charge[d]
        /\ charge'[c] \in {charge[c], due[c]} /\ charge'[c] \in Nat
        /\ Reported(out) => charge'[c] > 0
    BY <2>1 DEF TypeOK, Reported, TakesEffect
  <2> QED
    BY <1>7, <2>2, <2>3, <2>4 DEF Charge, TypeOK, SagaInv, NotStarted, RowBeforeGrant,
       GrantBeforePrice, TotalBeforeCharge, ChargeIsTotal, PaidWasCharged, StatusAtStep,
       OneRowPerKey, HandleHoldsKey, OwnerTuple, OrgTuple
<1>8. ASSUME NEW c \in Calls, Confirm(c) PROVE SagaInv'
  <2>1. PICK out \in Outcomes :
          /\ MarkOrderStatus(c, "confirmed", out)
          /\ Attempt(c, Reported(out), "confirmed", "notConfirmed")
    BY <1>8 DEF Confirm
  <2>2. /\ step[c] = "confirm"
        /\ step'[c] \in {"confirm", "confirmed", "notConfirmed"}
        /\ step'[c] = "confirmed" => Reported(out)
        /\ \A d \in Calls \ {c} : step'[d] = step[d]
    <3>1. Reported(out) \in BOOLEAN
      BY DEF Reported
    <3> QED
      BY <1>8, <2>1, <3>1, AttemptMoves DEF Confirm
  <2>3. status[c] # "absent" /\ charge[c] > 0
    BY <2>2 DEF SagaInv, RowBeforeGrant, PaidWasCharged
  <2>4. /\ \A d \in Calls \ {c} : status'[d] = status[d]
        /\ status'[c] \in {status[c], "confirmed"} /\ status'[c] # "absent"
        /\ Reported(out) => status'[c] = "confirmed"
    BY <2>1, <2>3 DEF MarkOrderStatus, TypeOK, Reported, TakesEffect
  <2> QED
    BY <1>8, <2>2, <2>3, <2>4 DEF Confirm, TypeOK, SagaInv, NotStarted, RowBeforeGrant,
       GrantBeforePrice, TotalBeforeCharge, ChargeIsTotal, PaidWasCharged, StatusAtStep,
       OneRowPerKey, HandleHoldsKey, OwnerTuple, OrgTuple
<1>9. ASSUME NEW c \in Calls, Fail(c) PROVE SagaInv'
  <2>1. PICK out \in Outcomes :
          /\ MarkOrderStatus(c, "failed", out)
          /\ Attempt(c, Reported(out), "failed", "notFailed")
    BY <1>9 DEF Fail
  <2>2. /\ step[c] = "fail"
        /\ step'[c] \in {"fail", "failed", "notFailed"}
        /\ step'[c] = "failed" => Reported(out)
        /\ \A d \in Calls \ {c} : step'[d] = step[d]
    <3>1. Reported(out) \in BOOLEAN
      BY DEF Reported
    <3> QED
      BY <1>9, <2>1, <3>1, AttemptMoves DEF Fail
  <2>3. status[c] # "absent"
    BY <2>2 DEF SagaInv, RowBeforeGrant
  <2>4. /\ \A d \in Calls \ {c} : status'[d] = status[d]
        /\ status'[c] \in {status[c], "failed"} /\ status'[c] # "absent"
        /\ Reported(out) => status'[c] = "failed"
    BY <2>1, <2>3 DEF MarkOrderStatus, TypeOK, Reported, TakesEffect
  <2> QED
    BY <1>9, <2>2, <2>3, <2>4 DEF Fail, TypeOK, SagaInv, NotStarted, RowBeforeGrant,
       GrantBeforePrice, TotalBeforeCharge, ChargeIsTotal, PaidWasCharged, StatusAtStep,
       OneRowPerKey, HandleHoldsKey, OwnerTuple, OrgTuple
<1>10. ASSUME NEW c \in Calls, Cancel(c) PROVE SagaInv'
  <2>1. /\ \A d \in Calls \ {c} : status'[d] = status[d]
        /\ status'[c] \in {status[c], "cancelled"}
        /\ status[c] = "absent" <=> status'[c] = "absent"
    BY <1>10 DEF Cancel, MarkOrderStatus, TypeOK
  <2> QED
    BY <1>10, <2>1 DEF Cancel, TypeOK, SagaInv, NotStarted, RowBeforeGrant,
       GrantBeforePrice, TotalBeforeCharge, ChargeIsTotal, PaidWasCharged, StatusAtStep,
       OneRowPerKey, HandleHoldsKey, OwnerTuple, OrgTuple
<1>11. CASE /\ UNCHANGED <<handlerVars, workflowVars, status, total, tuples, charge>>
  BY <1>11 DEF SagaInv, NotStarted, RowBeforeGrant,
     GrantBeforePrice, TotalBeforeCharge, ChargeIsTotal, PaidWasCharged, StatusAtStep,
     OneRowPerKey, HandleHoldsKey, OwnerTuple, OrgTuple
<1>12. ASSUME NEW a \in Operators, StartCancel(a) PROVE SagaInv'
  BY <1>11, <1>12 DEF StartCancel
<1>13. ASSUME NEW a \in Operators, NEW c \in Calls, CheckCancel(a, c) PROVE SagaInv'
  BY <1>11, <1>13 DEF CheckCancel
<1>14. ASSUME NEW p \in Products, Catalog(p) PROVE SagaInv'
  BY <1>11, <1>14 DEF Catalog, CreateProduct, UpdateProduct, DeleteProduct, SetPrice
<1>15. CASE UNCHANGED vars
  BY <1>11, <1>15 DEF vars
<1> QED
  BY <1>1, <1>2, <1>3, <1>4, <1>5, <1>6, <1>7, <1>8, <1>9, <1>10, <1>12, <1>13, <1>14, <1>15
     DEF Next, Workflow

\* The saga keeps its invariant in every reachable state.
THEOREM SagaInvariant == Spec => []IInv
<1>1. Init => IInv
  BY TypeInit, SagaInit DEF IInv
<1>2. IInv /\ [Next]_vars => IInv'
  BY TypeStep, SagaStep DEF IInv
<1> QED
  BY <1>1, <1>2, PTL DEF Spec

-----------------------------------------------------------------------------
(* What the invariant gives *)

\* Money is only taken for an order that exists, is readable by its buyer and
\* org, and has exactly the charged amount as its total.
THEOREM ChargeMatches == Spec => []ChargeMatchesOrder
<1>1. IInv => ChargeMatchesOrder
  BY DEF IInv, SagaInv, RowBeforeGrant, GrantBeforePrice, ChargeIsTotal, ChargeMatchesOrder,
     Readable, Inserted, Shared, Paying, Paid, Failing
<1> QED
  BY <1>1, SagaInvariant, PTL

\* One Idempotency-Key is charged at most once, however many retries race.
THEOREM ChargedOnce == Spec => []ChargedOncePerKey
<1>1. IInv => ChargedOncePerKey
  BY DEF IInv, SagaInv, RowBeforeGrant, ChargeIsTotal, OneRowPerKey, ChargedOncePerKey,
     Inserted, Shared, Paying, Paid, Failing
<1> QED
  BY <1>1, SagaInvariant, PTL

\* An order the saga confirmed or failed is readable, and a confirmed one was
\* charged.
THEOREM DecidedOrders == Spec => []DecidedOrderHolds
<1>1. IInv => DecidedOrderHolds
  BY DEF IInv, SagaInv, StatusAtStep, GrantBeforePrice, PaidWasCharged, DecidedOrderHolds, Readable,
     Inserted, Shared, Paying, Paid, Failing
<1> QED
  BY <1>1, SagaInvariant, PTL

\* Only a saga that ran out of attempts leaves its order pending.
THEOREM PendingGaveUp == Spec => []PendingOnlyIfGaveUp
<1>1. IInv => PendingOnlyIfGaveUp
  BY DEF IInv, SagaInv, StatusAtStep, PendingOnlyIfGaveUp, Closed
<1> QED
  BY <1>1, SagaInvariant, PTL

\* Retries answered from the table agree, and name the holder of their key.
THEOREM Replays == Spec => []ReplaysAgree
<1>1. IInv => ReplaysAgree
  BY DEF IInv, SagaInv, OneRowPerKey, HandleHoldsKey, ReplaysAgree
<1> QED
  BY <1>1, SagaInvariant, PTL

\* A status the saga decided changes by a cancellation alone, and a cancelled
\* order only changes again while its saga has a mark to write.
THEOREM Statuses == Spec => StatusHistory
<1> DEFINE Changes ==
      \A c \in Calls : status'[c] # status[c] =>
        \/ status[c] \in {"absent", "pending"}
        \/ status'[c] = "cancelled"
        \/ status[c] = "cancelled" /\ step[c] \in {"confirm", "fail"}
<1>1. IInv /\ [Next]_vars => [Changes]_vars
  <2> SUFFICES ASSUME IInv, [Next]_vars, NEW d \in Calls, status'[d] # status[d]
               PROVE  \/ status[d] \in {"absent", "pending"}
                      \/ status'[d] = "cancelled"
                      \/ status[d] = "cancelled" /\ step[d] \in {"confirm", "fail"}
    OBVIOUS
  <2> USE DEF handlerVars, workflowVars, storeVars, cancelVars
  <2>1. status[d] \in Status /\ status \in [Calls -> Status]
    BY DEF IInv, TypeOK
  <2>2. PICK c \in Calls : CreateOrder(c) \/ Confirm(c) \/ Fail(c) \/ Cancel(c)
    BY DEF Next, Workflow, Lookup, Start, GrantOrderAccess, LookupProduct, SetOrderTotal,
       Charge, StartCancel, CheckCancel, Catalog, CreateProduct, UpdateProduct,
         DeleteProduct, SetPrice, vars
  <2>3. CASE CreateOrder(c)
    BY <2>1, <2>3 DEF CreateOrder
  <2>4. CASE Confirm(c)
    BY <2>1, <2>4 DEF Confirm, MarkOrderStatus, IInv, SagaInv, StatusAtStep, Status, Paid, Failing
  <2>5. CASE Fail(c)
    BY <2>1, <2>5 DEF Fail, MarkOrderStatus, IInv, SagaInv, StatusAtStep, Status, Paid, Failing
  <2>6. CASE Cancel(c)
    BY <2>1, <2>6 DEF Cancel, MarkOrderStatus
  <2> QED
    BY <2>2, <2>3, <2>4, <2>5, <2>6
<1> QED
  BY <1>1, SagaInvariant, PTL DEF Spec, StatusHistory

-----------------------------------------------------------------------------
(* The saga implements OncePerKey *)

Placed == {c \in Calls : status[c] # "absent"}
Charged == {c \in Calls : charge[c] > 0}

\* Steps that leave the abstract state alone.
LEMMA Stutters ==
  ASSUME UNCHANGED <<status, charge>>, Verdict' = Verdict
  PROVE  UNCHANGED Promise!abstract
  BY DEF Promise!abstract

\* A saga that takes the failure path decides its order against it.
LEMMA Rejects ==
  ASSUME NEW c \in Calls, status[c] # "absent",
         step[c] \in {"lookup", "setTotal", "charge"}, step'[c] = "fail",
         \A d \in Calls \ {c} : step'[d] = step[d],
         Charged' \in {Charged, Charged \cup {c}}, status' = status
  PROVE  Promise!Reject(c)
<1>1. Verdict[c] = "open" /\ Verdict' = [Verdict EXCEPT ![c] = "failed"]
  BY DEF Verdict
<1> QED
  BY <1>1 DEF Promise!Reject, Charged

\* Every step of the saga places, takes, decides, shows or undoes one order of
\* the abstract specification, or leaves its state alone.
LEMMA PromiseStep == IInv /\ [Next]_vars => [Promise!Next]_(Promise!abstract)
<1> SUFFICES ASSUME IInv, [Next]_vars
             PROVE  Promise!Next \/ UNCHANGED Promise!abstract
  OBVIOUS
<1> USE DEF handlerVars, workflowVars, storeVars, cancelVars
<1>0. TypeOK /\ SagaInv
  BY DEF IInv
<1>1. ASSUME UNCHANGED <<step, status, charge>> PROVE UNCHANGED Promise!abstract
  BY <1>1, Stutters DEF Verdict
<1>2. ASSUME NEW c \in Calls, Start(c) PROVE UNCHANGED Promise!abstract
  <2>1. step[c] = "none"
    BY <1>0, <1>2 DEF Start, SagaInv, NotStarted
  <2>2. Verdict' = Verdict
    BY <1>0, <1>2, <2>1 DEF Start, Verdict, TypeOK
  <2> QED
    BY <1>2, <2>2, Stutters DEF Start
<1>3. ASSUME NEW c \in Calls, CreateOrder(c)
      PROVE  Promise!Place(c) \/ UNCHANGED Promise!abstract
  <2>1. PICK out \in Outcomes :
          /\ TakesEffect(out) => RowsOfKey(c) \subseteq {c}
          /\ status' = IF TakesEffect(out) /\ status[c] = "absent"
                         THEN [status EXCEPT ![c] = "pending"] ELSE status
          /\ Attempt(c, Reported(out), "grant", "notCreated")
    BY <1>3 DEF CreateOrder
  <2>2. /\ step[c] = "create" /\ step'[c] \in {"create", "grant", "notCreated"}
        /\ \A d \in Calls \ {c} : step'[d] = step[d]
    BY <1>0, <1>3, <2>1, AttemptMoves DEF CreateOrder, Reported
  <2>3. Verdict' = Verdict
    BY <2>2 DEF Verdict
  <2>4. CASE TakesEffect(out) /\ status[c] = "absent"
    <3>1. /\ \A d \in Placed : Body[d].key # Body[c].key
          /\ Placed' = Placed \cup {c}
          /\ status' = [status EXCEPT ![c] = "pending"]
      BY <1>0, <2>1, <2>4 DEF RowsOfKey, Placed, TypeOK
    <3> QED
      BY <1>3, <2>3, <3>1 DEF CreateOrder, Placed, Promise!Place
  <2>5. CASE ~(TakesEffect(out) /\ status[c] = "absent")
    BY <1>3, <2>1, <2>3, <2>5, Stutters DEF CreateOrder
  <2> QED
    BY <2>4, <2>5
<1>4. ASSUME NEW c \in Calls, GrantOrderAccess(c) PROVE UNCHANGED Promise!abstract
  <2>1. PICK ok \in BOOLEAN : Attempt(c, ok, "lookup", "notGranted")
    BY <1>4 DEF GrantOrderAccess
  <2>2. /\ step[c] = "grant" /\ step'[c] \in {"grant", "lookup", "notGranted"}
        /\ \A d \in Calls \ {c} : step'[d] = step[d]
    BY <1>0, <1>4, <2>1, AttemptMoves DEF GrantOrderAccess
  <2>3. Verdict' = Verdict
    BY <2>2 DEF Verdict
  <2> QED
    BY <1>4, <2>3, Stutters DEF GrantOrderAccess
<1>5. ASSUME NEW c \in Calls, LookupProduct(c)
      PROVE  Promise!Reject(c) \/ UNCHANGED Promise!abstract
  <2>1. PICK ok \in BOOLEAN : Attempt(c, ok, "setTotal", "fail")
    BY <1>5 DEF LookupProduct
  <2>2. /\ step[c] = "lookup" /\ step'[c] \in {"lookup", "setTotal", "fail"}
        /\ \A d \in Calls \ {c} : step'[d] = step[d]
        /\ status[c] # "absent"
    BY <1>0, <1>5, <2>1, AttemptMoves DEF LookupProduct, SagaInv, RowBeforeGrant, Shared
  <2>3. CASE step'[c] = "fail"
    BY <1>5, <2>2, <2>3, Rejects DEF LookupProduct, Charged
  <2>4. CASE step'[c] # "fail"
    <3>1. Verdict' = Verdict
      BY <2>2, <2>4 DEF Verdict
    <3> QED
      BY <1>5, <3>1, Stutters DEF LookupProduct
  <2> QED
    BY <2>3, <2>4
<1>6. ASSUME NEW c \in Calls, SetOrderTotal(c)
      PROVE  Promise!Reject(c) \/ UNCHANGED Promise!abstract
  <2>1. PICK out \in Outcomes : Attempt(c, Reported(out), "charge", "fail")
    BY <1>6 DEF SetOrderTotal
  <2>2. /\ step[c] = "setTotal" /\ step'[c] \in {"setTotal", "charge", "fail"}
        /\ \A d \in Calls \ {c} : step'[d] = step[d]
        /\ status[c] # "absent"
    BY <1>0, <1>6, <2>1, AttemptMoves DEF SetOrderTotal, SagaInv, RowBeforeGrant, Shared, Reported
  <2>3. CASE step'[c] = "fail"
    BY <1>6, <2>2, <2>3, Rejects DEF SetOrderTotal, Charged
  <2>4. CASE step'[c] # "fail"
    <3>1. Verdict' = Verdict
      BY <2>2, <2>4 DEF Verdict
    <3> QED
      BY <1>6, <3>1, Stutters DEF SetOrderTotal
  <2> QED
    BY <2>3, <2>4
<1>7. ASSUME NEW c \in Calls, Charge(c)
      PROVE  \/ Promise!Take(c) \/ Promise!Accept(c) \/ Promise!Reject(c)
             \/ UNCHANGED Promise!abstract
  <2>1. PICK out \in Outcomes :
          /\ TakesEffect(out) => due[c] > 0
          /\ charge' = IF TakesEffect(out) /\ charge[c] = 0
                         THEN [charge EXCEPT ![c] = due[c]] ELSE charge
          /\ Attempt(c, Reported(out), "confirm", "fail")
    BY <1>7 DEF Charge
  <2>2. /\ step[c] = "charge" /\ step'[c] \in {"charge", "confirm", "fail"}
        /\ step'[c] = "confirm" => Reported(out)
        /\ \A d \in Calls \ {c} : step'[d] = step[d]
        /\ status[c] # "absent" /\ status' = status
    <3>1. Reported(out) \in BOOLEAN
      BY DEF Reported
    <3> QED
      BY <1>0, <1>7, <2>1, <3>1, AttemptMoves DEF Charge, SagaInv, RowBeforeGrant, Paying
  <2>3. Charged' = IF TakesEffect(out) THEN Charged \cup {c} ELSE Charged
    BY <1>0, <2>1 DEF Charged, TypeOK
  <2>4. CASE step'[c] = "fail"
    BY <2>2, <2>3, <2>4, Rejects
  <2>5. CASE step'[c] = "confirm"
    <3>1. Charged' = Charged \cup {c}
      BY <2>2, <2>3, <2>5 DEF Reported, TakesEffect
    <3>2. Verdict[c] = "open" /\ Verdict' = [Verdict EXCEPT ![c] = "done"]
      BY <2>2, <2>5 DEF Verdict
    <3> QED
      BY <2>2, <3>1, <3>2 DEF Promise!Accept, Charged
  <2>6. CASE step'[c] = "charge"
    <3>1. Verdict[c] = "open" /\ Verdict' = Verdict
      BY <2>2, <2>6 DEF Verdict
    <3> QED
      BY <2>2, <2>3, <3>1 DEF Promise!Take, Promise!abstract, Charged
  <2> QED
    BY <2>2, <2>4, <2>5, <2>6
<1>8. ASSUME NEW c \in Calls, Confirm(c)
      PROVE  Promise!Show(c) \/ UNCHANGED Promise!abstract
  <2>1. PICK out \in Outcomes :
          /\ MarkOrderStatus(c, "confirmed", out)
          /\ Attempt(c, Reported(out), "confirmed", "notConfirmed")
    BY <1>8 DEF Confirm
  <2>2. /\ step[c] \in Paid /\ step'[c] \in Paid
        /\ \A d \in Calls \ {c} : step'[d] = step[d]
    BY <1>0, <1>8, <2>1, AttemptMoves DEF Confirm, Reported, Paid
  <2>3. Verdict[c] = "done" /\ Verdict' = Verdict
    BY <2>2 DEF Verdict, Paid
  <2>4. \/ status' = status
        \/ status[c] # "absent" /\ status' = [status EXCEPT ![c] = "confirmed"]
    BY <2>1 DEF MarkOrderStatus
  <2>5. Placed' = Placed
    BY <1>0, <2>4 DEF Placed, TypeOK
  <2> QED
    BY <1>8, <2>3, <2>4, <2>5, Stutters DEF Confirm, Promise!Show, Placed
<1>9. ASSUME NEW c \in Calls, Fail(c)
      PROVE  Promise!Show(c) \/ UNCHANGED Promise!abstract
  <2>1. PICK out \in Outcomes :
          /\ MarkOrderStatus(c, "failed", out)
          /\ Attempt(c, Reported(out), "failed", "notFailed")
    BY <1>9 DEF Fail
  <2>2. /\ step[c] \in Failing /\ step'[c] \in Failing
        /\ \A d \in Calls \ {c} : step'[d] = step[d]
    BY <1>0, <1>9, <2>1, AttemptMoves DEF Fail, Reported, Failing
  <2>3. Verdict[c] = "failed" /\ Verdict' = Verdict
    BY <2>2 DEF Verdict, Failing
  <2>4. \/ status' = status
        \/ status[c] # "absent" /\ status' = [status EXCEPT ![c] = "failed"]
    BY <2>1 DEF MarkOrderStatus
  <2>5. Placed' = Placed
    BY <1>0, <2>4 DEF Placed, TypeOK
  <2> QED
    BY <1>9, <2>3, <2>4, <2>5, Stutters DEF Fail, Promise!Show, Placed
<1>10. ASSUME NEW c \in Calls, Cancel(c)
       PROVE  Promise!Undo(c) \/ UNCHANGED Promise!abstract
  <2>1. \/ status' = status
        \/ status[c] # "absent" /\ status' = [status EXCEPT ![c] = "cancelled"]
    BY <1>10 DEF Cancel, MarkOrderStatus
  <2>2. Placed' = Placed /\ Verdict' = Verdict
    BY <1>0, <1>10, <2>1 DEF Cancel, Placed, Verdict, TypeOK
  <2> QED
    BY <1>10, <2>1, <2>2, Stutters DEF Cancel, Promise!Undo, Placed
<1>11. ASSUME \/ \E c \in Calls : Lookup(c)
              \/ \E a \in Operators : StartCancel(a) \/ \E c \in Calls : CheckCancel(a, c)
              \/ \E p \in Products : Catalog(p)
              \/ UNCHANGED vars
       PROVE  UNCHANGED Promise!abstract
  BY <1>1, <1>11 DEF Lookup, StartCancel, CheckCancel, Catalog, CreateProduct, UpdateProduct,
         DeleteProduct, SetPrice, vars
<1> QED
  BY <1>2, <1>3, <1>4, <1>5, <1>6, <1>7, <1>8, <1>9, <1>10, <1>11
     DEF Next, Workflow, Promise!Next

\* The saga implements OncePerKey: it promises its clients no less.
THEOREM Implements == Spec => KeepsPromise
<1>1. Init => Promise!Init
  BY DEF Init, Promise!Init, Verdict
<1> QED
  BY <1>1, PromiseStep, SagaInvariant, PTL DEF Spec, KeepsPromise, Promise!Spec
=============================================================================
