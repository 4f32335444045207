---------------------------- MODULE PaymentProofs ----------------------------
(***************************************************************************)
(* Proofs about Payment, for any set of calls and operators, any number of *)
(* attempts and any number of refund runs.                                 *)
(***************************************************************************)
EXTENDS Payment, TLAPS

-----------------------------------------------------------------------------
(* The inductive invariant *)

\* The points of the Charge workflow after its grant, by how the PSP answered.
Taken    == {"markSettled", "settled", "notSettled"}
Declined == {"markFailed", "failed", "notFailed"}
Asked    == {"settle"} \cup Taken \cup Declined

\* The handler inserts the row, then starts the workflow.
RowBeforeStart ==
  \A c \in Calls : /\ at[c] \in {"new", "missed"} => step[c] = "none" /\ status[c] = "absent"
                   /\ at[c] = "inserted" => step[c] = "none" /\ status[c] # "absent"
                   /\ step[c] # "none" => status[c] # "absent"

\* The unique constraint on idempotency_key.
OneRowPerKey ==
  \A c, d \in Calls :
    status[c] # "absent" /\ status[d] # "absent" /\ Body[c].key = Body[d].key => c = d

\* Every answer names the row that holds the key.
HandleHoldsKey ==
  \A c \in Calls : at[c] = "answered" =>
    /\ handle[c] \in Calls
    /\ status[handle[c]] # "absent"
    /\ Body[handle[c]].key = Body[c].key

GrantBeforeSettle == \A c \in Calls : step[c] \in Asked => c \in granted

CapturedAtStep ==
  \A c \in Calls : /\ c \in captured => step[c] \in Asked
                   /\ step[c] \in Taken => c \in captured

StatusAtStep ==
  \A c \in Calls : /\ status[c] \in {"settled", "refunded"} => step[c] \in Taken
                   /\ status[c] = "failed" => step[c] \in Declined

\* A refund is only under way for a charge that was seen settled.
RefundOfSettled ==
  /\ \A a \in Operators : refunding[a] # Nobody =>
       status[refunding[a]] \in {"settled", "refunded"}
  /\ \A c \in Calls : rstep[c] # "none" => status[c] \in {"settled", "refunded"}

ReturnedAtStep ==
  \A c \in Calls : /\ rstep[c] \in {"mark", "refunded", "notMarked"} => returned[c] # {}
                   /\ returned[c] # {} => rstep[c] # "none"
                   /\ status[c] = "refunded" => returned[c] # {}

ChargeInv ==
  /\ RowBeforeStart
  /\ OneRowPerKey
  /\ HandleHoldsKey
  /\ GrantBeforeSettle
  /\ CapturedAtStep
  /\ StatusAtStep
  /\ RefundOfSettled
  /\ ReturnedAtStep

IInv == TypeOK /\ ChargeInv

-----------------------------------------------------------------------------
(* Attempts *)

\* An attempt only moves the workflow it belongs to, one step along or to the
\* step it gives up at.
LEMMA AttemptMoves ==
  ASSUME TypeOK, NEW c \in Calls, NEW ok \in BOOLEAN, NEW next, NEW giveUp,
         Attempt(c, ok, next, giveUp)
  PROVE  /\ step' = [step EXCEPT ![c] = step'[c]]
         /\ \A d \in Calls \ {c} : step'[d] = step[d]
         /\ ok => step'[c] = next
         /\ ~ok => step'[c] \in {step[c], giveUp}
         /\ tries' \in [Calls -> 0 .. MaxAttempts - 1]
<1>1. tries[c] \in 0 .. MaxAttempts - 1 /\ step[c] = step[c]
  BY DEF TypeOK
<1>2. step'[c] = StepAfter(ok, tries[c], step[c], next, giveUp)
  BY DEF Attempt, TypeOK
<1>3. TriesAfter(ok, tries[c]) \in 0 .. MaxAttempts - 1
  BY <1>1, MaxAttemptsAssumption DEF TriesAfter
<1> QED
  BY <1>1, <1>2, <1>3, MaxAttemptsAssumption DEF StepAfter, Attempt, TypeOK

\* The same of the refund workflow.
LEMMA AttemptRefundMoves ==
  ASSUME TypeOK, NEW c \in Calls, NEW ok \in BOOLEAN, NEW next, NEW giveUp,
         AttemptRefund(c, ok, next, giveUp)
  PROVE  /\ rstep' = [rstep EXCEPT ![c] = rstep'[c]]
         /\ \A d \in Calls \ {c} : rstep'[d] = rstep[d]
         /\ ok => rstep'[c] = next
         /\ ~ok => rstep'[c] \in {rstep[c], giveUp}
         /\ rtries' \in [Calls -> 0 .. MaxAttempts - 1]
<1>1. rtries[c] \in 0 .. MaxAttempts - 1 /\ rstep[c] = rstep[c]
  BY DEF TypeOK
<1>2. rstep'[c] = StepAfter(ok, rtries[c], rstep[c], next, giveUp)
  BY DEF AttemptRefund, TypeOK
<1>3. TriesAfter(ok, rtries[c]) \in 0 .. MaxAttempts - 1
  BY <1>1, MaxAttemptsAssumption DEF TriesAfter
<1> QED
  BY <1>1, <1>2, <1>3, MaxAttemptsAssumption DEF StepAfter, AttemptRefund, TypeOK

-----------------------------------------------------------------------------
(* Type correctness *)

LEMMA TypeInit == Init => TypeOK
  BY MaxAttemptsAssumption, NobodyAssumption, SMT DEF Init, TypeOK, Status, Running, Closed, GaveUp

LEMMA TypeStep == TypeOK /\ [Next]_vars => TypeOK'
<1> SUFFICES ASSUME TypeOK, [Next]_vars PROVE TypeOK'
  OBVIOUS
<1> USE DEF handlerVars, chargeVars, storeVars, refundVars
<1>1. ASSUME NEW c \in Calls, Lookup(c) PROVE TypeOK'
  BY <1>1, NobodyAssumption DEF Lookup, Answer, Refuse, RowsOfKey, TypeOK
<1>2. ASSUME NEW c \in Calls, InsertCharge(c) PROVE TypeOK'
  BY <1>2 DEF InsertCharge, TypeOK, Status
<1>3. ASSUME NEW c \in Calls, StartCharge(c) PROVE TypeOK'
  BY <1>3 DEF StartCharge, Answer, Refuse, TypeOK, Running
<1>4. ASSUME NEW c \in Calls, GrantChargeAccess(c) PROVE TypeOK'
  <2>1. PICK out \in Outcomes : Attempt(c, Reported(out), "settle", "notGranted")
    BY <1>4 DEF GrantChargeAccess
  <2>2. step'[c] \in {"grant", "settle", "notGranted"} /\ step' = [step EXCEPT ![c] = step'[c]]
        /\ tries' \in [Calls -> 0 .. MaxAttempts - 1]
    BY <1>4, <2>1, AttemptMoves DEF GrantChargeAccess, Reported
  <2> QED
    BY <1>4, <2>2 DEF GrantChargeAccess, TypeOK, Running, Closed, GaveUp
<1>5. ASSUME NEW c \in Calls, Settle(c) PROVE TypeOK'
  <2>1. PICK out \in Outcomes : Attempt(c, Reported(out), "markSettled", "markFailed")
    BY <1>5 DEF Settle
  <2>2. step'[c] \in {"settle", "markSettled", "markFailed"}
        /\ step' = [step EXCEPT ![c] = step'[c]] /\ tries' \in [Calls -> 0 .. MaxAttempts - 1]
    BY <1>5, <2>1, AttemptMoves DEF Settle, Reported
  <2> QED
    BY <1>5, <2>2 DEF Settle, TypeOK, Running, Closed, GaveUp
<1>6. ASSUME NEW c \in Calls, MarkSettled(c) PROVE TypeOK'
  <2>1. PICK out \in Outcomes : Attempt(c, Reported(out), "settled", "notSettled")
    BY <1>6 DEF MarkSettled
  <2>2. step'[c] \in {"markSettled", "settled", "notSettled"}
        /\ step' = [step EXCEPT ![c] = step'[c]] /\ tries' \in [Calls -> 0 .. MaxAttempts - 1]
    BY <1>6, <2>1, AttemptMoves DEF MarkSettled, Reported
  <2> QED
    BY <1>6, <2>2 DEF MarkSettled, MarkChargeStatus, TypeOK, Running, Closed, GaveUp, Status
<1>7. ASSUME NEW c \in Calls, MarkFailed(c) PROVE TypeOK'
  <2>1. PICK out \in Outcomes : Attempt(c, Reported(out), "failed", "notFailed")
    BY <1>7 DEF MarkFailed
  <2>2. step'[c] \in {"markFailed", "failed", "notFailed"}
        /\ step' = [step EXCEPT ![c] = step'[c]] /\ tries' \in [Calls -> 0 .. MaxAttempts - 1]
    BY <1>7, <2>1, AttemptMoves DEF MarkFailed, Reported
  <2> QED
    BY <1>7, <2>2 DEF MarkFailed, MarkChargeStatus, TypeOK, Running, Closed, GaveUp, Status
<1>8. ASSUME NEW a \in Operators, NEW c \in Calls, CheckRefund(a, c) PROVE TypeOK'
  BY <1>8 DEF CheckRefund, TypeOK
<1>9. ASSUME NEW a \in Operators, StartRefund(a) PROVE TypeOK'
  BY <1>9, MaxAttemptsAssumption, MaxRefundRunsAssumption DEF StartRefund, TypeOK
<1>10. ASSUME NEW c \in Calls, Refund(c) PROVE TypeOK'
  <2>1. PICK out \in Outcomes :
          /\ returned' = IF TakesEffect(out) THEN [returned EXCEPT ![c] = @ \cup {runs[c]}]
                                             ELSE returned
          /\ AttemptRefund(c, Reported(out), "mark", "notReturned")
    BY <1>10 DEF Refund
  <2>2. rstep'[c] \in {"psp", "mark", "notReturned"} /\ rstep' = [rstep EXCEPT ![c] = rstep'[c]]
        /\ rtries' \in [Calls -> 0 .. MaxAttempts - 1]
    BY <1>10, <2>1, AttemptRefundMoves DEF Refund, Reported
  <2>3. returned' \in [Calls -> SUBSET Nat]
    BY <2>1 DEF TypeOK
  <2> QED
    BY <1>10, <2>2, <2>3 DEF Refund, TypeOK
<1>11. ASSUME NEW c \in Calls, MarkRefunded(c) PROVE TypeOK'
  <2>1. PICK out \in Outcomes : AttemptRefund(c, Reported(out), "refunded", "notMarked")
    BY <1>11 DEF MarkRefunded
  <2>2. rstep'[c] \in {"mark", "refunded", "notMarked"}
        /\ rstep' = [rstep EXCEPT ![c] = rstep'[c]]
        /\ rtries' \in [Calls -> 0 .. MaxAttempts - 1]
    BY <1>11, <2>1, AttemptRefundMoves DEF MarkRefunded, Reported
  <2> QED
    BY <1>11, <2>2 DEF MarkRefunded, MarkChargeStatus, TypeOK, Status
<1>12. CASE UNCHANGED vars
  BY <1>12 DEF vars, TypeOK
<1> QED
  BY <1>1, <1>2, <1>3, <1>4, <1>5, <1>6, <1>7, <1>8, <1>9, <1>10, <1>11, <1>12
     DEF Next, ChargeWorkflow, RefundWorkflow

\* Every variable keeps its type, for any number of calls, operators, attempts
\* and refund runs.
THEOREM TypeCorrect == Spec => []TypeOK
  BY TypeInit, TypeStep, PTL DEF Spec

-----------------------------------------------------------------------------
(* The inductive invariant *)

LEMMA ChargeInit == Init => ChargeInv
  BY NobodyAssumption, SMT
     DEF Init, ChargeInv, RowBeforeStart, OneRowPerKey, HandleHoldsKey, GrantBeforeSettle,
         CapturedAtStep, StatusAtStep, RefundOfSettled, ReturnedAtStep, Asked, Taken, Declined

LEMMA ChargeStep == IInv /\ [Next]_vars => ChargeInv'
<1> SUFFICES ASSUME TypeOK, ChargeInv, [Next]_vars PROVE ChargeInv'
  BY DEF IInv
<1> USE DEF handlerVars, chargeVars, storeVars, refundVars, Asked, Taken, Declined
<1>1. ASSUME NEW c \in Calls, Lookup(c) PROVE ChargeInv'
  <2>1. HandleHoldsKey'
    BY <1>1 DEF Lookup, Answer, Refuse, RowsOfKey, ChargeInv, HandleHoldsKey, TypeOK
  <2> QED
    BY <1>1, <2>1 DEF Lookup, Answer, Refuse, TypeOK, ChargeInv, RowBeforeStart, OneRowPerKey,
       GrantBeforeSettle, CapturedAtStep, StatusAtStep, RefundOfSettled, ReturnedAtStep
<1>2. ASSUME NEW c \in Calls, InsertCharge(c) PROVE ChargeInv'
  <2>1. PICK out \in Outcomes :
          /\ TakesEffect(out) => RowsOfKey(c) = {}
          /\ status' = IF TakesEffect(out) THEN [status EXCEPT ![c] = "pending"] ELSE status
          /\ at' = [at EXCEPT ![c] = IF Reported(out) THEN "inserted" ELSE "error"]
    BY <1>2 DEF InsertCharge
  <2>2. /\ status[c] = "absent" /\ step[c] = "none"
        /\ status'[c] \in {"absent", "pending"} /\ \A d \in Calls \ {c} : status'[d] = status[d]
        /\ at'[c] \in {"inserted", "error"} /\ \A d \in Calls \ {c} : at'[d] = at[d]
        /\ at'[c] = "inserted" => status'[c] = "pending"
    BY <1>2, <2>1 DEF InsertCharge, TypeOK, ChargeInv, RowBeforeStart, TakesEffect, Reported
  <2>3. OneRowPerKey'
    BY <2>1, <2>2 DEF ChargeInv, OneRowPerKey, RowsOfKey, TakesEffect, TypeOK
  <2>4. HandleHoldsKey'
    BY <1>2, <2>2 DEF InsertCharge, ChargeInv, HandleHoldsKey
  <2>5. RefundOfSettled'
    BY <1>2, <2>2 DEF InsertCharge, ChargeInv, RefundOfSettled, TypeOK
  <2> QED
    BY <1>2, <2>2, <2>3, <2>4, <2>5 DEF InsertCharge, TypeOK, ChargeInv, RowBeforeStart,
       GrantBeforeSettle, CapturedAtStep, StatusAtStep, ReturnedAtStep
<1>3. ASSUME NEW c \in Calls, StartCharge(c) PROVE ChargeInv'
  <2>1. /\ step[c] = "none" /\ status[c] # "absent"
        /\ step'[c] \in {"none", "grant"} /\ \A d \in Calls \ {c} : step'[d] = step[d]
        /\ at'[c] \in {"answered", "error"} /\ \A d \in Calls \ {c} : at'[d] = at[d]
    BY <1>3 DEF StartCharge, Answer, Refuse, TypeOK, ChargeInv, RowBeforeStart
  <2>2. HandleHoldsKey'
    BY <1>3, <2>1 DEF StartCharge, Answer, Refuse, ChargeInv, HandleHoldsKey, TypeOK
  <2> QED
    BY <1>3, <2>1, <2>2 DEF StartCharge, TypeOK, ChargeInv, RowBeforeStart, OneRowPerKey,
       GrantBeforeSettle, CapturedAtStep, StatusAtStep, RefundOfSettled, ReturnedAtStep
<1>4. ASSUME NEW c \in Calls, GrantChargeAccess(c) PROVE ChargeInv'
  <2>1. PICK out \in Outcomes :
          /\ granted' = IF TakesEffect(out) THEN granted \cup {c} ELSE granted
          /\ Attempt(c, Reported(out), "settle", "notGranted")
    BY <1>4 DEF GrantChargeAccess
  <2>2. /\ step[c] = "grant" /\ step'[c] \in {"grant", "settle", "notGranted"}
        /\ step'[c] = "settle" => Reported(out)
        /\ \A d \in Calls \ {c} : step'[d] = step[d]
    <3>1. Reported(out) \in BOOLEAN
      BY DEF Reported
    <3> QED
      BY <1>4, <2>1, <3>1, AttemptMoves DEF GrantChargeAccess
  <2>3. /\ Reported(out) => c \in granted'
        /\ granted' \in {granted, granted \cup {c}}
    BY <2>1 DEF Reported, TakesEffect
  <2> QED
    BY <1>4, <2>2, <2>3 DEF GrantChargeAccess, TypeOK, ChargeInv, RowBeforeStart, OneRowPerKey,
       HandleHoldsKey, GrantBeforeSettle, CapturedAtStep, StatusAtStep, RefundOfSettled,
       ReturnedAtStep
<1>5. ASSUME NEW c \in Calls, Settle(c) PROVE ChargeInv'
  <2>1. PICK out \in Outcomes :
          /\ captured' = IF TakesEffect(out) THEN captured \cup {c} ELSE captured
          /\ Attempt(c, Reported(out), "markSettled", "markFailed")
    BY <1>5 DEF Settle
  <2>2. /\ step[c] = "settle" /\ step'[c] \in {"settle", "markSettled", "markFailed"}
        /\ step'[c] = "markSettled" => Reported(out)
        /\ \A d \in Calls \ {c} : step'[d] = step[d]
    <3>1. Reported(out) \in BOOLEAN
      BY DEF Reported
    <3> QED
      BY <1>5, <2>1, <3>1, AttemptMoves DEF Settle
  <2>3. /\ Reported(out) => c \in captured'
        /\ captured' \in {captured, captured \cup {c}}
    BY <2>1 DEF Reported, TakesEffect
  <2> QED
    BY <1>5, <2>2, <2>3 DEF Settle, TypeOK, ChargeInv, RowBeforeStart, OneRowPerKey,
       HandleHoldsKey, GrantBeforeSettle, CapturedAtStep, StatusAtStep, RefundOfSettled,
       ReturnedAtStep
<1>6. ASSUME NEW c \in Calls, MarkSettled(c) PROVE ChargeInv'
  <2>1. PICK out \in Outcomes :
          /\ MarkChargeStatus(c, "settled", out)
          /\ Attempt(c, Reported(out), "settled", "notSettled")
    BY <1>6 DEF MarkSettled
  <2>2. /\ step[c] = "markSettled" /\ step'[c] \in Taken
        /\ \A d \in Calls \ {c} : step'[d] = step[d]
    BY <1>6, <2>1, AttemptMoves DEF MarkSettled, Reported
  <2>3. /\ \A d \in Calls \ {c} : status'[d] = status[d]
        /\ status[c] # "absent" /\ status'[c] \in {status[c], "settled"}
    BY <2>1, <2>2 DEF MarkChargeStatus, TypeOK, ChargeInv, RowBeforeStart
  <2> QED
    BY <1>6, <2>2, <2>3 DEF MarkSettled, TypeOK, ChargeInv, RowBeforeStart, OneRowPerKey,
       HandleHoldsKey, GrantBeforeSettle, CapturedAtStep, StatusAtStep, RefundOfSettled,
       ReturnedAtStep
<1>7. ASSUME NEW c \in Calls, MarkFailed(c) PROVE ChargeInv'
  <2>1. PICK out \in Outcomes :
          /\ MarkChargeStatus(c, "failed", out)
          /\ Attempt(c, Reported(out), "failed", "notFailed")
    BY <1>7 DEF MarkFailed
  <2>2. /\ step[c] = "markFailed" /\ step'[c] \in Declined
        /\ \A d \in Calls \ {c} : step'[d] = step[d]
    BY <1>7, <2>1, AttemptMoves DEF MarkFailed, Reported
  <2>3. /\ \A d \in Calls \ {c} : status'[d] = status[d]
        /\ status[c] \notin {"absent", "settled", "refunded"} /\ status'[c] \in {status[c], "failed"}
    BY <2>1, <2>2 DEF MarkChargeStatus, TypeOK, ChargeInv, RowBeforeStart, StatusAtStep
  <2> QED
    BY <1>7, <2>2, <2>3 DEF MarkFailed, TypeOK, ChargeInv, RowBeforeStart, OneRowPerKey,
       HandleHoldsKey, GrantBeforeSettle, CapturedAtStep, StatusAtStep, RefundOfSettled,
       ReturnedAtStep
<1>8. ASSUME NEW a \in Operators, NEW c \in Calls, CheckRefund(a, c) PROVE ChargeInv'
  <2>1. RefundOfSettled'
    BY <1>8 DEF CheckRefund, TypeOK, ChargeInv, RefundOfSettled
  <2> QED
    BY <1>8, <2>1 DEF CheckRefund, ChargeInv, RowBeforeStart, OneRowPerKey, HandleHoldsKey,
       GrantBeforeSettle, CapturedAtStep, StatusAtStep, ReturnedAtStep
<1>9. ASSUME NEW a \in Operators, StartRefund(a) PROVE ChargeInv'
  <2>1. /\ refunding' \in [Operators -> Calls \cup {Nobody}]
        /\ \A b \in Operators : refunding'[b] \in {refunding[b], Nobody}
        /\ refunding[a] \in Calls
        /\ \A d \in Calls : rstep'[d] = rstep[d] \/ (d = refunding[a] /\ rstep'[d] = "psp")
    BY <1>9 DEF StartRefund, TypeOK
  <2>2. RefundOfSettled'
    BY <1>9, <2>1 DEF StartRefund, ChargeInv, RefundOfSettled
  <2> QED
    BY <1>9, <2>1, <2>2 DEF StartRefund, TypeOK, ChargeInv, RowBeforeStart, OneRowPerKey,
       HandleHoldsKey, GrantBeforeSettle, CapturedAtStep, StatusAtStep, ReturnedAtStep
<1>10. ASSUME NEW c \in Calls, Refund(c) PROVE ChargeInv'
  <2>1. PICK out \in Outcomes :
          /\ returned' = IF TakesEffect(out) THEN [returned EXCEPT ![c] = @ \cup {runs[c]}]
                                             ELSE returned
          /\ AttemptRefund(c, Reported(out), "mark", "notReturned")
    BY <1>10 DEF Refund
  <2>2. /\ rstep[c] = "psp" /\ rstep'[c] \in {"psp", "mark", "notReturned"}
        /\ rstep'[c] = "mark" => Reported(out)
        /\ \A d \in Calls \ {c} : rstep'[d] = rstep[d]
    <3>1. Reported(out) \in BOOLEAN
      BY DEF Reported
    <3> QED
      BY <1>10, <2>1, <3>1, AttemptRefundMoves DEF Refund
  <2>3. /\ \A d \in Calls \ {c} : returned'[d] = returned[d]
        /\ returned[c] # {} => returned'[c] # {}
        /\ Reported(out) => returned'[c] # {}
    BY <2>1 DEF TypeOK, Reported, TakesEffect
  <2>4. RefundOfSettled'
    BY <1>10, <2>2 DEF Refund, ChargeInv, RefundOfSettled
  <2>5. ReturnedAtStep'
    BY <1>10, <2>2, <2>3 DEF Refund, ChargeInv, ReturnedAtStep
  <2> QED
    BY <1>10, <2>4, <2>5 DEF Refund, ChargeInv, RowBeforeStart, OneRowPerKey,
       HandleHoldsKey, GrantBeforeSettle, CapturedAtStep, StatusAtStep
<1>11. ASSUME NEW c \in Calls, MarkRefunded(c) PROVE ChargeInv'
  <2>1. PICK out \in Outcomes :
          /\ MarkChargeStatus(c, "refunded", out)
          /\ AttemptRefund(c, Reported(out), "refunded", "notMarked")
    BY <1>11 DEF MarkRefunded
  <2>2. /\ rstep[c] = "mark" /\ rstep'[c] \in {"mark", "refunded", "notMarked"}
        /\ \A d \in Calls \ {c} : rstep'[d] = rstep[d]
    BY <1>11, <2>1, AttemptRefundMoves DEF MarkRefunded, Reported
  <2>3. /\ \A d \in Calls \ {c} : status'[d] = status[d]
        /\ status[c] \in {"settled", "refunded"} /\ status'[c] \in {status[c], "refunded"}
        /\ returned[c] # {}
    BY <2>1, <2>2 DEF MarkChargeStatus, TypeOK, ChargeInv, RefundOfSettled, ReturnedAtStep
  <2> QED
    BY <1>11, <2>2, <2>3 DEF MarkRefunded, TypeOK, ChargeInv, RowBeforeStart, OneRowPerKey,
       HandleHoldsKey, GrantBeforeSettle, CapturedAtStep, StatusAtStep, RefundOfSettled,
       ReturnedAtStep
<1>12. CASE UNCHANGED vars
  BY <1>12 DEF vars, ChargeInv, RowBeforeStart, OneRowPerKey, HandleHoldsKey,
     GrantBeforeSettle, CapturedAtStep, StatusAtStep, RefundOfSettled, ReturnedAtStep
<1> QED
  BY <1>1, <1>2, <1>3, <1>4, <1>5, <1>6, <1>7, <1>8, <1>9, <1>10, <1>11, <1>12
     DEF Next, ChargeWorkflow, RefundWorkflow

\* The charge and refund workflows keep the invariant in every reachable state.
THEOREM ChargeInvariant == Spec => []IInv
<1>1. Init => IInv
  BY TypeInit, ChargeInit DEF IInv
<1>2. IInv /\ [Next]_vars => IInv'
  BY TypeStep, ChargeStep DEF IInv
<1> QED
  BY <1>1, <1>2, PTL DEF Spec

-----------------------------------------------------------------------------
(* What the invariant gives *)

\* All answers under one Idempotency-Key name one charge.
THEOREM SameCharge == Spec => []SameKeySameCharge
<1>1. IInv => SameKeySameCharge
  BY DEF IInv, ChargeInv, OneRowPerKey, HandleHoldsKey, SameKeySameCharge
<1> QED
  BY <1>1, ChargeInvariant, PTL

\* The money of one key is taken once, for a charge with its row and its tuple.
THEOREM CapturedOnce == Spec => []CapturedOncePerKey
<1>1. IInv => CapturedOncePerKey
  <2> SUFFICES ASSUME IInv PROVE CapturedOncePerKey
    OBVIOUS
  <2>1. \A c \in captured : c \in Calls /\ c \in granted /\ status[c] # "absent"
    BY DEF IInv, TypeOK, ChargeInv, RowBeforeStart, GrantBeforeSettle, CapturedAtStep,
       Asked, Taken, Declined
  <2> QED
    BY <2>1 DEF IInv, ChargeInv, OneRowPerKey, CapturedOncePerKey
<1> QED
  BY <1>1, ChargeInvariant, PTL

\* What is shown as settled was taken, what is shown as refunded was returned,
\* and what was returned was taken and is not shown as failed.
THEOREM Covered == Spec => []StatusTellsMoney
<1>1. IInv => StatusTellsMoney
  BY DEF IInv, ChargeInv, StatusAtStep, CapturedAtStep, RefundOfSettled, ReturnedAtStep,
     StatusTellsMoney
<1> QED
  BY <1>1, ChargeInvariant, PTL

\* A charge settles or fails, never both, and only a repeated settled mark
\* undoes a refund.
THEOREM Statuses == Spec => StatusHistory
<1> DEFINE Moves(c) ==
       \/ status[c] = "absent" /\ status'[c] = "pending"
       \/ status[c] = "pending" /\ status'[c] \in {"settled", "failed"}
       \/ status[c] = "settled" /\ status'[c] = "refunded"
       \/ status[c] = "refunded" /\ status'[c] = "settled" /\ step[c] = "markSettled"
<1> DEFINE Changes == \A c \in Calls : status'[c] # status[c] => Moves(c)
<1>1. IInv /\ [Next]_vars => [Changes]_vars
  <2> SUFFICES ASSUME IInv, [Next]_vars, NEW d \in Calls, status'[d] # status[d]
               PROVE  Moves(d)
    OBVIOUS
  <2> USE DEF handlerVars, chargeVars, storeVars, refundVars
  <2>1. status[d] \in Status /\ status \in [Calls -> Status]
    BY DEF IInv, TypeOK
  <2>2. PICK c \in Calls : InsertCharge(c) \/ MarkSettled(c) \/ MarkFailed(c) \/ MarkRefunded(c)
    BY DEF Next, ChargeWorkflow, RefundWorkflow, Lookup, StartCharge, GrantChargeAccess, Settle,
       Refund, StartRefund, CheckRefund, vars
  <2>3. CASE InsertCharge(c)
    BY <2>1, <2>3 DEF InsertCharge, IInv, ChargeInv, RowBeforeStart
  <2>4. CASE MarkSettled(c)
    BY <2>1, <2>4 DEF MarkSettled, MarkChargeStatus, IInv, ChargeInv, StatusAtStep, Status,
       Taken, Declined
  <2>5. CASE MarkFailed(c)
    BY <2>1, <2>5 DEF MarkFailed, MarkChargeStatus, IInv, ChargeInv, StatusAtStep, Status,
       Taken, Declined
  <2>6. CASE MarkRefunded(c)
    BY <2>1, <2>6 DEF MarkRefunded, MarkChargeStatus, IInv, ChargeInv, RefundOfSettled
  <2> QED
    BY <2>2, <2>3, <2>4, <2>5, <2>6
<1> QED
  BY <1>1, ChargeInvariant, PTL DEF Spec, StatusHistory

-----------------------------------------------------------------------------
(* The service implements OncePerKey *)

Placed == {c \in Calls : status[c] # "absent"}

\* Steps that leave the abstract state alone.
LEMMA Stutters ==
  ASSUME UNCHANGED <<status, captured>>, Verdict' = Verdict
  PROVE  UNCHANGED Promise!abstract
  BY DEF Promise!abstract

\* Every step of the service places, takes, decides, shows or undoes one charge
\* of the abstract specification, or leaves its state alone.
LEMMA PromiseStep == IInv /\ [Next]_vars => [Promise!Next]_(Promise!abstract)
<1> SUFFICES ASSUME IInv, [Next]_vars
             PROVE  Promise!Next \/ UNCHANGED Promise!abstract
  OBVIOUS
<1> USE DEF handlerVars, chargeVars, storeVars, refundVars
<1>0. TypeOK /\ ChargeInv
  BY DEF IInv
<1>1. ASSUME UNCHANGED <<step, status, captured>> PROVE UNCHANGED Promise!abstract
  BY <1>1, Stutters DEF Verdict
<1>2. ASSUME NEW c \in Calls, InsertCharge(c)
      PROVE  Promise!Place(c) \/ UNCHANGED Promise!abstract
  <2>1. PICK out \in Outcomes :
          /\ TakesEffect(out) => RowsOfKey(c) = {}
          /\ status' = IF TakesEffect(out) THEN [status EXCEPT ![c] = "pending"] ELSE status
    BY <1>2 DEF InsertCharge
  <2>2. CASE TakesEffect(out)
    <3>1. /\ \A d \in Placed : Body[d].key # Body[c].key
          /\ Placed' = Placed \cup {c}
          /\ status' = [status EXCEPT ![c] = "pending"]
      BY <1>0, <2>1, <2>2 DEF RowsOfKey, Placed, TypeOK
    <3>2. Verdict' = Verdict
      BY <1>2 DEF InsertCharge, Verdict
    <3> QED
      BY <1>2, <3>1, <3>2 DEF InsertCharge, Placed, Promise!Place
  <2>3. CASE ~TakesEffect(out)
    BY <1>1, <1>2, <2>1, <2>3 DEF InsertCharge
  <2> QED
    BY <2>2, <2>3
<1>3. ASSUME NEW c \in Calls, StartCharge(c) PROVE UNCHANGED Promise!abstract
  <2>1. step[c] = "none"
    BY <1>0, <1>3 DEF StartCharge, ChargeInv, RowBeforeStart
  <2>2. Verdict' = Verdict
    BY <1>0, <1>3, <2>1 DEF StartCharge, Verdict, TypeOK
  <2> QED
    BY <1>3, <2>2, Stutters DEF StartCharge
<1>4. ASSUME NEW c \in Calls, GrantChargeAccess(c) PROVE UNCHANGED Promise!abstract
  <2>1. PICK out \in Outcomes : Attempt(c, Reported(out), "settle", "notGranted")
    BY <1>4 DEF GrantChargeAccess
  <2>2. /\ step[c] = "grant" /\ step'[c] \in {"grant", "settle", "notGranted"}
        /\ \A d \in Calls \ {c} : step'[d] = step[d]
    BY <1>0, <1>4, <2>1, AttemptMoves DEF GrantChargeAccess, Reported
  <2>3. Verdict' = Verdict
    BY <2>2 DEF Verdict
  <2> QED
    BY <1>4, <2>3, Stutters DEF GrantChargeAccess
<1>5. ASSUME NEW c \in Calls, Settle(c)
      PROVE  \/ Promise!Take(c) \/ Promise!Accept(c) \/ Promise!Reject(c)
             \/ UNCHANGED Promise!abstract
  <2>1. PICK out \in Outcomes :
          /\ captured' = IF TakesEffect(out) THEN captured \cup {c} ELSE captured
          /\ Attempt(c, Reported(out), "markSettled", "markFailed")
    BY <1>5 DEF Settle
  <2>2. /\ step[c] = "settle" /\ step'[c] \in {"settle", "markSettled", "markFailed"}
        /\ step'[c] = "markSettled" => Reported(out)
        /\ \A d \in Calls \ {c} : step'[d] = step[d]
        /\ status[c] # "absent" /\ status' = status
    <3>1. Reported(out) \in BOOLEAN
      BY DEF Reported
    <3> QED
      BY <1>0, <1>5, <2>1, <3>1, AttemptMoves DEF Settle, ChargeInv, RowBeforeStart
  <2>3. CASE step'[c] = "markFailed"
    <3>1. Verdict[c] = "open" /\ Verdict' = [Verdict EXCEPT ![c] = "failed"]
      BY <2>2, <2>3 DEF Verdict
    <3> QED
      BY <2>1, <2>2, <3>1 DEF Promise!Reject
  <2>4. CASE step'[c] = "markSettled"
    <3>1. captured' = captured \cup {c}
      BY <2>1, <2>2, <2>4 DEF Reported, TakesEffect
    <3>2. Verdict[c] = "open" /\ Verdict' = [Verdict EXCEPT ![c] = "done"]
      BY <2>2, <2>4 DEF Verdict
    <3> QED
      BY <2>2, <3>1, <3>2 DEF Promise!Accept
  <2>5. CASE step'[c] = "settle"
    <3>1. Verdict[c] = "open" /\ Verdict' = Verdict
      BY <2>2, <2>5 DEF Verdict
    <3> QED
      BY <2>1, <2>2, <3>1 DEF Promise!Take, Promise!abstract
  <2> QED
    BY <2>2, <2>3, <2>4, <2>5
<1>6. ASSUME NEW c \in Calls, MarkSettled(c)
      PROVE  Promise!Show(c) \/ UNCHANGED Promise!abstract
  <2>1. PICK out \in Outcomes :
          /\ MarkChargeStatus(c, "settled", out)
          /\ Attempt(c, Reported(out), "settled", "notSettled")
    BY <1>6 DEF MarkSettled
  <2>2. /\ step[c] \in Taken /\ step'[c] \in Taken
        /\ \A d \in Calls \ {c} : step'[d] = step[d]
    BY <1>0, <1>6, <2>1, AttemptMoves DEF MarkSettled, Reported, Taken
  <2>3. Verdict[c] = "done" /\ Verdict' = Verdict
    BY <2>2 DEF Verdict, Taken
  <2>4. \/ status' = status
        \/ status[c] # "absent" /\ status' = [status EXCEPT ![c] = "settled"]
    BY <2>1 DEF MarkChargeStatus
  <2>5. Placed' = Placed
    BY <1>0, <2>4 DEF Placed, TypeOK
  <2> QED
    BY <1>6, <2>3, <2>4, <2>5, Stutters DEF MarkSettled, Promise!Show, Placed
<1>7. ASSUME NEW c \in Calls, MarkFailed(c)
      PROVE  Promise!Show(c) \/ UNCHANGED Promise!abstract
  <2>1. PICK out \in Outcomes :
          /\ MarkChargeStatus(c, "failed", out)
          /\ Attempt(c, Reported(out), "failed", "notFailed")
    BY <1>7 DEF MarkFailed
  <2>2. /\ step[c] \in Declined /\ step'[c] \in Declined
        /\ \A d \in Calls \ {c} : step'[d] = step[d]
    BY <1>0, <1>7, <2>1, AttemptMoves DEF MarkFailed, Reported, Declined
  <2>3. Verdict[c] = "failed" /\ Verdict' = Verdict
    BY <2>2 DEF Verdict, Declined
  <2>4. \/ status' = status
        \/ status[c] # "absent" /\ status' = [status EXCEPT ![c] = "failed"]
    BY <2>1 DEF MarkChargeStatus
  <2>5. Placed' = Placed
    BY <1>0, <2>4 DEF Placed, TypeOK
  <2> QED
    BY <1>7, <2>3, <2>4, <2>5, Stutters DEF MarkFailed, Promise!Show, Placed
<1>8. ASSUME NEW c \in Calls, MarkRefunded(c)
      PROVE  Promise!Undo(c) \/ UNCHANGED Promise!abstract
  <2>1. \/ status' = status
        \/ status[c] # "absent" /\ status' = [status EXCEPT ![c] = "refunded"]
    BY <1>8 DEF MarkRefunded, MarkChargeStatus
  <2>2. Placed' = Placed /\ Verdict' = Verdict
    BY <1>0, <1>8, <2>1 DEF MarkRefunded, Placed, Verdict, TypeOK
  <2> QED
    BY <1>8, <2>1, <2>2, Stutters DEF MarkRefunded, Promise!Undo, Placed
<1>9. ASSUME \/ \E c \in Calls : Lookup(c) \/ Refund(c)
             \/ \E a \in Operators : StartRefund(a) \/ \E c \in Calls : CheckRefund(a, c)
             \/ UNCHANGED vars
      PROVE  UNCHANGED Promise!abstract
  BY <1>1, <1>9 DEF Lookup, Refund, StartRefund, CheckRefund, vars
<1> QED
  BY <1>2, <1>3, <1>4, <1>5, <1>6, <1>7, <1>8, <1>9
     DEF Next, ChargeWorkflow, RefundWorkflow, Promise!Next

\* The charge service implements OncePerKey: it promises its callers no less.
THEOREM Implements == Spec => KeepsPromise
<1>1. Init => Promise!Init
  BY DEF Init, Promise!Init, Verdict
<1> QED
  BY <1>1, PromiseStep, ChargeInvariant, PTL DEF Spec, KeepsPromise, Promise!Spec
=============================================================================
