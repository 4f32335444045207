---------------------------- MODULE OrderPayment ----------------------------
(***************************************************************************)
(* The orders and payment services together: the ChargeActivity of a       *)
(* checkout saga and the POST /charges requests its attempts send, in      *)
(* place of the one-step Charge of Checkout.                               *)
(*                                                                         *)
(* An attempt and its request end apart: the attempt may time out while    *)
(* payment still serves the request, so a request can take effect after    *)
(* the next attempt began, or after the saga gave the order up.            *)
(*                                                                         *)
(* Cancellations, which touch only the status column and never payment,    *)
(* are left to Checkout.                                                   *)
(***************************************************************************)
EXTENDS Checkout

CONSTANTS
  Refunders,      \* back-office users who may refund a charge
  MaxRefundRuns   \* bound: runs of the Refund workflow of one charge

VARIABLES
  sent,           \* the requests sent to payment
  \* payment's own state, a request being one of its calls
  pat, phandle, pstep, ptries, pstatus, granted, captured,
  refunding, rstep, rtries, returned, runs

payVars   == <<pat, phandle, pstep, ptries, pstatus, granted, captured,
               refunding, rstep, rtries, returned, runs>>
jointVars == <<vars, sent, payVars>>

-----------------------------------------------------------------------------
\* The request of attempt n at the ChargeActivity of order c is <<c, n>>.
Requests == Calls \X (1 .. MaxAttempts)
Order(r) == r[1]

\* Bug: a key of its own for every attempt.
AttemptKey(r) == r

\* The Idempotency-Key of a request: the order's id.
RequestKey(r) == Order(r)

P == INSTANCE Payment
  WITH Calls <- Requests,
       Body <- [r \in Requests |-> [key |-> RequestKey(r), order |-> Order(r), amount |-> 1]],
       Operators <- Refunders,
       at <- pat, handle <- phandle, step <- pstep, tries <- ptries, status <- pstatus

ASSUME RequestsAssumption == Nobody \notin Requests
ASSUME MaxRefundRunsAssumption == MaxRefundRuns \in Nat

JointTypeOK ==
  /\ TypeOK /\ P!TypeOK
  /\ sent \subseteq Requests
  /\ \A r \in Requests \ sent : pat[r] = "new"

JointInit == Init /\ P!Init /\ sent = {}

-----------------------------------------------------------------------------
(* orders *)

Current(c) == <<c, tries[c] + 1>>

\* Bug: payment is asked before the total was recorded.
RequestEarly(c) ==
  /\ step[c] \in {"setTotal", "charge"}
  /\ sent' = sent \cup {Current(c)}
  /\ UNCHANGED <<vars, payVars>>

Request(c) ==
  /\ step[c] = "charge"
  /\ sent' = sent \cup {Current(c)}
  /\ UNCHANGED <<vars, payVars>>

\* Bugs: any answer is taken for an acceptance; the attempt has no timeout.
RespondAny(c) ==
  /\ step[c] = "charge" /\ Current(c) \in sent
  /\ Attempt(c, TRUE, "confirm", "fail")
  /\ UNCHANGED <<handlerVars, due, storeVars, cancelVars, sent, payVars>>
RespondNoTimeout(c) ==
  /\ step[c] = "charge" /\ pat[Current(c)] \in {"answered", "error"}
  /\ Attempt(c, pat[Current(c)] = "answered", "confirm", "fail")
  /\ UNCHANGED <<handlerVars, due, storeVars, cancelVars, sent, payVars>>

\* The attempt ends: well when payment answered 202 and the answer arrived, and
\* with an error at any time, by a refusal, a lost answer or its timeout.  What
\* becomes of the charge is not asked.
Respond(c) ==
  /\ step[c] = "charge"
  /\ \E ok \in BOOLEAN :
       /\ ok => pat[Current(c)] = "answered"
       /\ Attempt(c, ok, "confirm", "fail")
  /\ UNCHANGED <<handlerVars, due, storeVars, cancelVars, sent, payVars>>

JointWorkflow(c) ==
  \/ /\ \/ CreateOrder(c) \/ GrantOrderAccess(c) \/ LookupProduct(c) \/ SetOrderTotal(c)
        \/ Confirm(c) \/ Fail(c)
     /\ UNCHANGED <<sent, payVars>>
  \/ Request(c)
  \/ Respond(c)

OrdersNext ==
  \/ /\ \/ \E c \in Calls : Lookup(c) \/ Start(c)
        \/ \E p \in Products : Catalog(p)
     /\ UNCHANGED <<sent, payVars>>
  \/ \E c \in Calls : JointWorkflow(c)

-----------------------------------------------------------------------------
(* payment *)

\* Bug: payment takes an amount that is not positive.
ServeLookupUnchecked(r) ==
  /\ r \in sent
  /\ P!Lookup(r)
  /\ UNCHANGED <<vars, sent>>

\* A request for a total of zero is refused, any other is looked up.
ServeLookup(r) ==
  /\ r \in sent
  /\ P!Lookup(r)
  /\ due[Order(r)] = 0 => pat'[r] = "error"
  /\ UNCHANGED <<vars, sent>>

\* The row records the amount the request carries.
ServeInsert(r) ==
  /\ r \in sent
  /\ P!InsertCharge(r)
  /\ charge' = IF pstatus'[r] # pstatus[r] THEN [charge EXCEPT ![Order(r)] = @ + due[Order(r)]]
                                           ELSE charge
  /\ UNCHANGED <<handlerVars, workflowVars, status, total, tuples, price, cancelVars, sent>>

ServeStart(r) ==
  /\ r \in sent
  /\ P!StartCharge(r)
  /\ UNCHANGED <<vars, sent>>

PayWorkflow(r) == P!ChargeWorkflow(r) /\ UNCHANGED <<vars, sent>>

PaymentNext ==
  \/ \E r \in Requests : ServeLookup(r) \/ ServeInsert(r) \/ ServeStart(r) \/ PayWorkflow(r)
  \/ /\ \/ \E r \in Requests : P!RefundWorkflow(r)
        \/ \E a \in Refunders : P!StartRefund(a) \/ \E r \in Requests : P!CheckRefund(a, r)
     /\ UNCHANGED <<vars, sent>>

JointNext == OrdersNext \/ PaymentNext

JointSpec == JointInit /\ [][JointNext]_jointVars

\* Temporal drives both workflows; neither service owes the other an answer.
JointFairness == /\ \A c \in Calls : WF_jointVars(JointWorkflow(c))
                 /\ \A r \in Requests : WF_jointVars(PayWorkflow(r))

JointFairSpec == JointSpec /\ JointFairness

-----------------------------------------------------------------------------
(* Properties *)

\* What the saga knows of the money: it was taken once payment accepted.
Accepted(c) == step[c] \in {"confirm", "confirmed", "notConfirmed"}

Saga == INSTANCE Checkout
  WITH charge <- [c \in Calls |-> IF Accepted(c) THEN due[c] ELSE 0]

\* To the saga, all that payment does is the one step that Checkout takes it
\* for: an amount that is positive is accepted, or the attempt fails.  So what
\* holds of a saga in Checkout holds of one that runs against payment.
ChargeIsOneStep == Saga!Spec

\* However many attempts the charge activity makes, and however late payment
\* serves them, an order has one charge row and it carries the order's total.
OneChargePerOrder ==
  /\ \A r, s \in Requests :
       pstatus[r] # "absent" /\ pstatus[s] # "absent" /\ Order(r) = Order(s) => r = s
  /\ \A c \in Calls : charge[c] \in {0, due[c]}

\* The processor takes money only for an order that exists, shows that amount,
\* and whose readers can read the charge: `charge#read' resolves through the
\* order's tuples.
CapturedForOrder ==
  \A r \in captured : LET c == Order(r) IN
    r \in granted /\ Readable(c) /\ total[c] > 0 /\ total[c] = charge[c]

\* Payment that hangs, loses answers or is down does not hang an order: every
\* started saga ends.
SagaEnds == \A c \in Calls : step[c] # "none" ~> step[c] \in Closed

=============================================================================
