------------------------------ MODULE Checkout ------------------------------
(***************************************************************************)
(* The checkout saga of the orders service: the Checkout and CancelOrder   *)
(* HTTP handlers, the two Temporal workflows they start, their activities, *)
(* and the stores those write (the orders table, OpenFGA).  Catalog and    *)
(* payment appear by what their endpoints answer.                          *)
(*                                                                         *)
(* A call is one POST /orders request.  A handler mints at most one order  *)
(* id, and never the same one twice, so the order id that call c would     *)
(* mint is named c: `step[c]', `status[c]' ... speak of that order.        *)
(***************************************************************************)
EXTENDS Temporal

CONSTANTS
  Calls,        \* the POST /orders requests that may arrive
  Body,         \* the content of each: key, user, org, product, qty
  Anonymous,    \* the user of a request without an authenticated principal
  NoOrg,        \* the org of a principal that carries none
  NoKey,        \* an empty Idempotency-Key header
  Products,
  Prices,       \* the prices catalog may hold, in minor units
  Unminted,     \* the price of a product that is still to be created
  Gone,         \* the price of a product that was deleted
  MaxTotal,     \* the largest total numeric(19,4) holds
  Operators,    \* back-office users who may cancel
  Nobody        \* no order

ASSUME BodyAssumption ==
  \A c \in Calls : /\ DOMAIN Body[c] = {"key", "user", "org", "product", "qty"}
                   /\ Body[c].product \in Products
                   /\ Body[c].qty \in Nat
ASSUME PricesAssumption == Prices \subseteq Nat
ASSUME NobodyAssumption == Nobody \notin Calls

VARIABLES
  at,        \* where the handler of a call is
  handle,    \* the order whose handle a call was answered with
  step,      \* where the Checkout workflow of an order is
  tries,     \* its attempts at the current activity reported failed
  due,       \* price * quantity, computed by the workflow
  status,    \* the status column of the order's row, "absent" without a row
  total,     \* its total column
  tuples,    \* OpenFGA: <<subject, relation, order>>
  price,     \* catalog: the price of each product, or Unminted or Gone
  charge,    \* payment: the amount charged under key `order id', 0 if none
  cancelling,\* the order an operator's CancelOrder call is about to cancel
  cstep,     \* where the CancelOrder workflow of an order is
  ctries     \* its attempts reported failed

handlerVars  == <<at, handle>>
workflowVars == <<step, tries, due>>
storeVars    == <<status, total, tuples, price, charge>>
cancelVars   == <<cancelling, cstep, ctries>>
vars         == <<handlerVars, workflowVars, storeVars, cancelVars>>

-----------------------------------------------------------------------------
Status   == {"absent", "pending", "confirmed", "failed", "cancelled"}
Terminal == {"confirmed", "failed", "cancelled"}

\* The activities in order, then how a workflow can end: completed, or failed
\* at the named point with its last activity out of attempts.
Running == {"create", "grant", "lookup", "setTotal", "charge", "confirm", "fail"}
GaveUp  == {"notCreated", "notGranted", "notConfirmed", "notFailed"}
Closed  == {"confirmed", "failed"} \cup GaveUp

OwnerTuple(c) == <<Body[c].user, "owner", c>>
OrgTuple(c)   == <<Body[c].org, "org", c>>
Granted(c)    == {OwnerTuple(c), OrgTuple(c)} \subseteq tuples

\* GET /orders/{id} answers both the buyer and the admins of the org, the two
\* sides of order#read in model.fga, and finds a row.
Readable(c) == Granted(c) /\ status[c] # "absent"

TypeOK ==
  /\ at \in [Calls -> {"new", "missed", "answered", "error"}]
  /\ handle \in [Calls -> Calls \cup {Nobody}]
  /\ step \in [Calls -> {"none"} \cup Running \cup Closed]
  /\ tries \in [Calls -> 0 .. MaxAttempts - 1]
  /\ due \in [Calls -> Nat]
  /\ status \in [Calls -> Status]
  /\ total \in [Calls -> Nat]
  /\ tuples \subseteq {OwnerTuple(c) : c \in Calls} \cup {OrgTuple(c) : c \in Calls}
  /\ price \in [Products -> Prices \cup {Unminted, Gone}]
  /\ charge \in [Calls -> Nat]
  /\ cancelling \in [Operators -> Calls \cup {Nobody}]
  /\ cstep \in [Calls -> {"none", "mark", "cancelled", "gaveUp"}]
  /\ ctries \in [Calls -> 0 .. MaxAttempts - 1]

Init ==
  /\ at = [c \in Calls |-> "new"]
  /\ handle = [c \in Calls |-> Nobody]
  /\ step = [c \in Calls |-> "none"]
  /\ tries = [c \in Calls |-> 0]
  /\ due = [c \in Calls |-> 0]
  /\ status = [c \in Calls |-> "absent"]
  /\ total = [c \in Calls |-> 0]
  /\ tuples = {}
  /\ price \in [Products -> Prices \cup {Unminted, Gone}]
  /\ charge = [c \in Calls |-> 0]
  /\ cancelling = [a \in Operators |-> Nobody]
  /\ cstep = [c \in Calls |-> "none"]
  /\ ctries = [c \in Calls |-> 0]

-----------------------------------------------------------------------------
(* POST /orders *)

Acceptable(c) ==
  /\ Body[c].qty > 0
  /\ Body[c].user # Anonymous
  /\ Body[c].org # NoOrg
  /\ Body[c].key # NoKey

\* The row the unique index on idempotency_key lets GetOrderByIdempotencyKey
\* find for the key of call c.
RowsOfKey(c) == {d \in Calls : status[d] # "absent" /\ Body[d].key = Body[c].key}

Answer(c, d) == at' = [at EXCEPT ![c] = "answered"] /\ handle' = [handle EXCEPT ![c] = d]
Refuse(c)    == at' = [at EXCEPT ![c] = "error"] /\ UNCHANGED handle

\* The request checks and the lookup by idempotency key.  Any request can end
\* in an error here: the lookup may fail, and the server may die.  No client can
\* name a product before catalog minted its id.
Lookup(c) ==
  /\ at[c] = "new"
  /\ price[Body[c].product] # Unminted
  /\ \/ Refuse(c)
     \/ Acceptable(c) /\ \E d \in RowsOfKey(c) : Answer(c, d)
     \/ /\ Acceptable(c) /\ RowsOfKey(c) = {}
        /\ at' = [at EXCEPT ![c] = "missed"]
        /\ UNCHANGED handle
  /\ UNCHANGED <<workflowVars, storeVars, cancelVars>>

\* Mint the order id and start its workflow.  The start may be refused, and it
\* may happen and its answer be lost.
Start(c) ==
  /\ at[c] = "missed"
  /\ \E out \in Outcomes :
       /\ IF Reported(out) THEN Answer(c, c) ELSE Refuse(c)
       /\ step' = IF TakesEffect(out) THEN [step EXCEPT ![c] = "create"] ELSE step
  /\ UNCHANGED <<tries, due, storeVars, cancelVars>>

-----------------------------------------------------------------------------
(* The Checkout workflow: one action per attempt at an activity. *)

\* Bug: an activity that runs out of attempts leaves its count to the next one.
AttemptKeepsCount(c, ok, next, giveUp) ==
  /\ step' = [step EXCEPT ![c] = StepAfter(ok, tries[c], step[c], next, giveUp)]
  /\ tries' = [tries EXCEPT ![c] = IF ok THEN 0 ELSE @ + 1]

Attempt(c, ok, next, giveUp) ==
  /\ step' = [step EXCEPT ![c] = StepAfter(ok, tries[c], step[c], next, giveUp)]
  /\ tries' = [tries EXCEPT ![c] = TriesAfter(ok, tries[c])]

\* Bug: no unique index on idempotency_key.
CreateOrderUnindexed(c) ==
  /\ step[c] = "create"
  /\ \E out \in Outcomes :
       /\ status' = IF TakesEffect(out) /\ status[c] = "absent"
                      THEN [status EXCEPT ![c] = "pending"] ELSE status
       /\ Attempt(c, Reported(out), "grant", "notCreated")
  /\ UNCHANGED <<handlerVars, due, total, tuples, price, charge, cancelVars>>

\* Insert the row.  A row of this id makes it a success without effect; the
\* unique index refuses a row whose key another order holds.
CreateOrder(c) ==
  /\ step[c] = "create"
  /\ \E out \in Outcomes :
       /\ TakesEffect(out) => RowsOfKey(c) \subseteq {c}
       /\ status' = IF TakesEffect(out) /\ status[c] = "absent"
                      THEN [status EXCEPT ![c] = "pending"] ELSE status
       /\ Attempt(c, Reported(out), "grant", "notCreated")
  /\ UNCHANGED <<handlerVars, due, total, tuples, price, charge, cancelVars>>

\* Bugs: a failed grant fails the order like the later activities do; the
\* grant is retried without a limit.
GrantThen(c, giveUp) ==
  /\ step[c] = "grant"
  /\ \E written \in {{}, {OwnerTuple(c), OrgTuple(c)}} :
       /\ tuples' = tuples \cup written
       /\ Attempt(c, written # {}, "lookup", giveUp)
  /\ UNCHANGED <<handlerVars, due, status, total, price, charge, cancelVars>>
GrantFailsOrder(c) == GrantThen(c, "fail")
GrantForever(c)    == GrantThen(c, "grant")

\* Write the two tuples, one request each; Grant succeeds on a tuple that is
\* already there, and an error on the first skips the second.
GrantOrderAccess(c) ==
  /\ step[c] = "grant"
  /\ \E written \in {{}, {OwnerTuple(c)}, {OwnerTuple(c), OrgTuple(c)}}, ok \in BOOLEAN :
       /\ ok => written = {OwnerTuple(c), OrgTuple(c)}
       /\ tuples' = tuples \cup written
       /\ Attempt(c, ok, "lookup", "notGranted")
  /\ UNCHANGED <<handlerVars, due, status, total, price, charge, cancelVars>>

\* Bug: the lookup's failure path returns without marking the order.
LookupLeavesOrder(c) ==
  /\ step[c] = "lookup"
  /\ \E ok \in BOOLEAN : Attempt(c, ok, "setTotal", "failed")
  /\ UNCHANGED <<handlerVars, due, storeVars, cancelVars>>

\* Read the price from catalog; the workflow multiplies it by the quantity.
LookupProduct(c) ==
  /\ step[c] = "lookup"
  /\ \E ok \in BOOLEAN :
       /\ ok => price[Body[c].product] \in Prices
       /\ due' = IF ok THEN [due EXCEPT ![c] = price[Body[c].product] * Body[c].qty] ELSE due
       /\ Attempt(c, ok, "setTotal", "fail")
  /\ UNCHANGED <<handlerVars, storeVars, cancelVars>>

\* Bug: the saga charges although the total was not recorded.
SetOrderTotalUnchecked(c) ==
  /\ step[c] = "setTotal"
  /\ \E ok \in BOOLEAN :
       /\ total' = IF ok THEN [total EXCEPT ![c] = due[c]] ELSE total
       /\ Attempt(c, ok, "charge", "charge")
  /\ UNCHANGED <<handlerVars, due, status, tuples, price, charge, cancelVars>>

\* A total the column cannot hold is an error of the update.
SetOrderTotal(c) ==
  /\ step[c] = "setTotal"
  /\ \E out \in Outcomes :
       /\ TakesEffect(out) => due[c] <= MaxTotal
       /\ total' = IF TakesEffect(out) THEN [total EXCEPT ![c] = due[c]] ELSE total
       /\ Attempt(c, Reported(out), "charge", "fail")
  /\ UNCHANGED <<handlerVars, due, status, tuples, price, charge, cancelVars>>

\* POST /charges under the key `order id': payment refuses an amount that is not
\* positive, and answers the charge it already holds without taking another.
Charge(c) ==
  /\ step[c] = "charge"
  /\ \E out \in Outcomes :
       /\ TakesEffect(out) => due[c] > 0
       /\ charge' = IF TakesEffect(out) /\ charge[c] = 0
                      THEN [charge EXCEPT ![c] = due[c]] ELSE charge
       /\ Attempt(c, Reported(out), "confirm", "fail")
  /\ UNCHANGED <<handlerVars, due, status, total, tuples, price, cancelVars>>

\* update orders set status = $2 where id = $1, whatever the status was.
MarkOrderStatus(c, s, out) ==
  status' = IF TakesEffect(out) /\ status[c] # "absent"
              THEN [status EXCEPT ![c] = s] ELSE status

\* Bug: a confirmation that could not be recorded takes the failure path.
ConfirmOrFail(c) ==
  /\ step[c] = "confirm"
  /\ \E out \in Outcomes :
       /\ MarkOrderStatus(c, "confirmed", out)
       /\ Attempt(c, Reported(out), "confirmed", "fail")
  /\ UNCHANGED <<handlerVars, due, total, tuples, price, charge, cancelVars>>

Confirm(c) ==
  /\ step[c] = "confirm"
  /\ \E out \in Outcomes :
       /\ MarkOrderStatus(c, "confirmed", out)
       /\ Attempt(c, Reported(out), "confirmed", "notConfirmed")
  /\ UNCHANGED <<handlerVars, due, total, tuples, price, charge, cancelVars>>

\* The failure path of the lookup, total and charge activities; the workflow
\* ignores whether the mark succeeds.
Fail(c) ==
  /\ step[c] = "fail"
  /\ \E out \in Outcomes :
       /\ MarkOrderStatus(c, "failed", out)
       /\ Attempt(c, Reported(out), "failed", "notFailed")
  /\ UNCHANGED <<handlerVars, due, total, tuples, price, charge, cancelVars>>

-----------------------------------------------------------------------------
(* POST /orders/{id}/cancel and the CancelOrder workflow *)

\* The handler reads the status and refuses a cancelled or failed order.
CheckCancel(a, c) ==
  /\ cancelling[a] = Nobody
  /\ status[c] \notin {"absent", "cancelled", "failed"}
  /\ cancelling' = [cancelling EXCEPT ![a] = c]
  /\ UNCHANGED <<handlerVars, workflowVars, storeVars, cstep, ctries>>

\* It then starts workflow cancel-order-<id>: a run in progress is joined, an
\* ended one does not stand in the way of another.  The start may fail.
StartCancel(a) ==
  /\ cancelling[a] # Nobody
  /\ LET c == cancelling[a] IN
       \/ UNCHANGED <<cstep, ctries>>
       \/ /\ cstep[c] # "mark"
          /\ cstep' = [cstep EXCEPT ![c] = "mark"]
          /\ ctries' = [ctries EXCEPT ![c] = 0]
  /\ cancelling' = [cancelling EXCEPT ![a] = Nobody]
  /\ UNCHANGED <<handlerVars, workflowVars, storeVars>>

Cancel(c) ==
  /\ cstep[c] = "mark"
  /\ \E out \in Outcomes :
       /\ MarkOrderStatus(c, "cancelled", out)
       /\ cstep' = [cstep EXCEPT ![c] =
            StepAfter(Reported(out), ctries[c], "mark", "cancelled", "gaveUp")]
       /\ ctries' = [ctries EXCEPT ![c] = TriesAfter(Reported(out), ctries[c])]
  /\ UNCHANGED <<handlerVars, workflowVars, total, tuples, price, charge, cancelling>>

-----------------------------------------------------------------------------
(* catalog: POST, PUT and DELETE /products, by an operator at any time *)

SetPrice(p, v) ==
  /\ price' = [price EXCEPT ![p] = v]
  /\ UNCHANGED <<handlerVars, workflowVars, status, total, tuples, charge, cancelVars>>

\* An id is minted once, so a product that was deleted does not come back.
CreateProduct(p) == price[p] = Unminted /\ \E v \in Prices : SetPrice(p, v)

UpdateProduct(p) == price[p] \in Prices /\ \E v \in Prices : SetPrice(p, v)

DeleteProduct(p) == price[p] \in Prices /\ SetPrice(p, Gone)

Catalog(p) == CreateProduct(p) \/ UpdateProduct(p) \/ DeleteProduct(p)

Workflow(c) ==
  \/ CreateOrder(c)
  \/ GrantOrderAccess(c)
  \/ LookupProduct(c)
  \/ SetOrderTotal(c)
  \/ Charge(c)
  \/ Confirm(c)
  \/ Fail(c)

Next ==
  \/ \E c \in Calls : Lookup(c) \/ Start(c) \/ Workflow(c) \/ Cancel(c)
  \/ \E a \in Operators : StartCancel(a) \/ \E c \in Calls : CheckCancel(a, c)
  \/ \E p \in Products : Catalog(p)

Spec == Init /\ [][Next]_vars

\* Temporal keeps dispatching the next attempt of an open workflow and bounds
\* each attempt by its timeout.  Clients and operators owe nothing, and nothing
\* below needs a cancellation to get on.
Fairness == \A c \in Calls : WF_vars(Workflow(c))

FairSpec == Spec /\ Fairness
-----------------------------------------------------------------------------
(* Properties *)

\* Money is only taken for an order that exists, carries exactly that amount as
\* its total, and can be read by its buyer and the org it was placed through:
\* the charge activity comes after the dual write and the total, and nothing
\* reprices a charged order (workflows/checkout.go).
ChargeMatchesOrder ==
  \A c \in Calls : charge[c] > 0 => Readable(c) /\ total[c] = charge[c]

\* However often a client retries a checkout under one Idempotency-Key, and
\* whichever of the orders minted for it wins the unique index, payment takes
\* the money for one of them at most.
ChargedOncePerKey ==
  \A c, d \in Calls :
    charge[c] > 0 /\ charge[d] > 0 /\ Body[c].key = Body[d].key => c = d

\* An order the saga decided, either way, is readable by the buyer it belongs
\* to: "a row whose status a later activity marks `failed` still has to be
\* readable" (workflows/checkout.go).  And none is confirmed that payment has
\* not accepted a charge for.
DecidedOrderHolds ==
  \A c \in Calls : /\ status[c] \in {"confirmed", "failed"} => Readable(c)
                   /\ status[c] = "confirmed" => charge[c] > 0

\* When the saga is over, an order is still pending only if the insert, the
\* grant or the final mark ran out of attempts: the failure of any other
\* activity decides the order.
PendingOnlyIfGaveUp ==
  \A c \in Calls : step[c] \in Closed /\ status[c] = "pending" => step[c] \in GaveUp

\* Retries that are answered from the table are all answered with the same
\* order, and it is the one that holds their key.
ReplaysAgree ==
  \A c, d \in Calls :
    /\ at[c] = "answered" /\ handle[c] # c
    /\ at[d] = "answered" /\ handle[d] # d
    /\ Body[c].key = Body[d].key
    => handle[c] = handle[d] /\ Body[handle[c]].key = Body[c].key

\* Once decided by the saga a status only ever gives way to a cancellation, and
\* a cancellation only gives way while the saga is still going to mark the
\* order: a mark repeated after a lost answer never turns confirmed into failed
\* or failed into confirmed.
StatusHistory ==
  [][\A c \in Calls : status'[c] # status[c] =>
       \/ status[c] \in {"absent", "pending"}
       \/ status'[c] = "cancelled"
       \/ status[c] = "cancelled" /\ step[c] \in {"confirm", "fail"}]_vars

\* Polling the result_url of a handle ends: the order reaches a status the poll
\* knows as terminal, or its workflow has failed with an activity out of
\* attempts.
PollResolves ==
  \A d \in Calls :
    (\E c \in Calls : at[c] = "answered" /\ handle[c] = d)
      ~> (status[d] \in Terminal \/ step[d] \in GaveUp)

-----------------------------------------------------------------------------
(* The abstract specification *)

Verdict ==
  [c \in Calls |-> CASE step[c] \in {"confirm", "confirmed", "notConfirmed"} -> "done"
                     [] step[c] \in {"fail", "failed", "notFailed"} -> "failed"
                     [] OTHER -> "open"]

Promise == INSTANCE OncePerKey
  WITH Items   <- Calls,
       KeyOf   <- [c \in Calls |-> Body[c].key],
       Done    <- "confirmed",
       Undone  <- "cancelled",
       placed  <- {c \in Calls : status[c] # "absent"},
       taken   <- {c \in Calls : charge[c] > 0},
       verdict <- Verdict,
       shown   <- status

\* The saga implements its promise: whatever the retries, lost answers and
\* cancellations, each of its steps places one order for a key, takes its money,
\* decides it once, shows or undoes the decision, or changes none of these.
KeepsPromise == Promise!Spec

-----------------------------------------------------------------------------
(* What comments and contracts of the repository say, and the code does not do *)

\* "a retry of the same request returns the order the first one created rather
\* than placing a second" (openapi.yaml): a request that arrives after a handle
\* was given out for its key is answered with that handle.
RetryReturnsFirstOrder ==
  [][\A c, d \in Calls :
       /\ at[d] = "answered" /\ Acceptable(c) /\ Body[c].key = Body[d].key
       /\ at[c] = "new" /\ at'[c] # "new"
       => at'[c] = "error" \/ handle'[c] = handle[d]]_vars

\* "cancelled" is a terminal status: the client stops polling on it.
CancelledIsTerminal ==
  [][\A c \in Calls : status[c] = "cancelled" => status'[c] = "cancelled"]_vars
=============================================================================
