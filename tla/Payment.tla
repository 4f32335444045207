------------------------------- MODULE Payment -------------------------------
(***************************************************************************)
(* The payment service: the CreateCharge and RefundCharge handlers, the    *)
(* Charge and Refund workflows and their activities, the charges table and *)
(* the OpenFGA tuple that makes a charge readable.  The payment processor  *)
(* (PSP), a placeholder in the code, appears by what it has been asked.    *)
(*                                                                         *)
(* A call is one POST /charges request.  It mints at most one charge id,   *)
(* so the charge whose id call c would mint is named c.                    *)
(***************************************************************************)
EXTENDS Temporal, Integers

CONSTANTS
  Calls,          \* the POST /charges requests that may arrive
  Body,           \* the content of each: key, order, amount in minor units
  NoKey,          \* an empty Idempotency-Key header
  Operators,      \* back-office users who may refund
  Nobody,         \* no charge
  MaxRefundRuns   \* bound: runs of the Refund workflow of one charge

ASSUME BodyAssumption ==
  \A c \in Calls : DOMAIN Body[c] = {"key", "order", "amount"} /\ Body[c].amount \in Int
ASSUME NobodyAssumption == Nobody \notin Calls
ASSUME MaxRefundRunsAssumption == MaxRefundRuns \in Nat

VARIABLES
  at,         \* where the handler of a call is
  handle,     \* the charge whose handle a call was answered with
  step,       \* where the Charge workflow of a charge is
  tries,      \* its attempts at the current activity reported failed
  status,     \* the status column of the charge's row, "absent" without a row
  granted,    \* OpenFGA: the charges with their <<order, order, charge>> tuple
  captured,   \* PSP: the charges whose amount was taken
  refunding,  \* the charge an operator's RefundCharge call is about to refund
  rstep,      \* where the latest Refund workflow run of a charge is
  rtries,     \* its attempts at the current activity reported failed
  returned,   \* PSP: the runs, numbered, that returned a charge's amount
  runs        \* the Refund runs started for a charge

handlerVars == <<at, handle>>
chargeVars  == <<step, tries>>
storeVars   == <<status, granted, captured>>
refundVars  == <<refunding, rstep, rtries, returned, runs>>
vars        == <<handlerVars, chargeVars, storeVars, refundVars>>

-----------------------------------------------------------------------------
Status  == {"absent", "pending", "settled", "failed", "refunded"}
Running == {"grant", "settle", "markSettled", "markFailed"}
GaveUp  == {"notGranted", "notSettled", "notFailed"}
Closed  == {"settled", "failed"} \cup GaveUp

TypeOK ==
  /\ at \in [Calls -> {"new", "missed", "inserted", "answered", "error"}]
  /\ handle \in [Calls -> Calls \cup {Nobody}]
  /\ step \in [Calls -> {"none"} \cup Running \cup Closed]
  /\ tries \in [Calls -> 0 .. MaxAttempts - 1]
  /\ status \in [Calls -> Status]
  /\ granted \subseteq Calls
  /\ captured \subseteq Calls
  /\ refunding \in [Operators -> Calls \cup {Nobody}]
  /\ rstep \in [Calls -> {"none", "psp", "mark", "refunded", "notReturned", "notMarked"}]
  /\ rtries \in [Calls -> 0 .. MaxAttempts - 1]
  /\ returned \in [Calls -> SUBSET Nat]
  /\ runs \in [Calls -> Nat]

Init ==
  /\ at = [c \in Calls |-> "new"]
  /\ handle = [c \in Calls |-> Nobody]
  /\ step = [c \in Calls |-> "none"]
  /\ tries = [c \in Calls |-> 0]
  /\ status = [c \in Calls |-> "absent"]
  /\ granted = {}
  /\ captured = {}
  /\ refunding = [a \in Operators |-> Nobody]
  /\ rstep = [c \in Calls |-> "none"]
  /\ rtries = [c \in Calls |-> 0]
  /\ returned = [c \in Calls |-> {}]
  /\ runs = [c \in Calls |-> 0]

-----------------------------------------------------------------------------
(* POST /charges *)

Acceptable(c) == Body[c].key # NoKey /\ Body[c].amount > 0

\* The row the unique constraint lets GetByIdempotencyKey find.
RowsOfKey(c) == {d \in Calls : status[d] # "absent" /\ Body[d].key = Body[c].key}

Answer(c, d) == at' = [at EXCEPT ![c] = "answered"] /\ handle' = [handle EXCEPT ![c] = d]
Refuse(c)    == at' = [at EXCEPT ![c] = "error"] /\ UNCHANGED handle

\* Validation and the lookup by key.  A charge found is answered with its
\* handle, whether or not its workflow was ever started.  Any request can end
\* in an error here.
Lookup(c) ==
  /\ at[c] = "new"
  /\ \/ Refuse(c)
     \/ Acceptable(c) /\ \E d \in RowsOfKey(c) : Answer(c, d)
     \/ /\ Acceptable(c) /\ RowsOfKey(c) = {}
        /\ at' = [at EXCEPT ![c] = "missed"]
        /\ UNCHANGED handle
  /\ UNCHANGED <<chargeVars, storeVars, refundVars>>

\* Bug: the lookup is all that keeps a key to one charge, no constraint does.
InsertChargeUnindexed(c) ==
  /\ at[c] = "missed"
  /\ status' = [status EXCEPT ![c] = "pending"]
  /\ at' = [at EXCEPT ![c] = "inserted"]
  /\ UNCHANGED <<handle, chargeVars, granted, captured, refundVars>>

\* Insert the row; the unique constraint on idempotency_key refuses a second
\* row for the key, and that is an error to the client.
InsertCharge(c) ==
  /\ at[c] = "missed"
  /\ \E out \in Outcomes :
       /\ TakesEffect(out) => RowsOfKey(c) = {}
       /\ status' = IF TakesEffect(out) THEN [status EXCEPT ![c] = "pending"] ELSE status
       /\ at' = [at EXCEPT ![c] = IF Reported(out) THEN "inserted" ELSE "error"]
  /\ UNCHANGED <<handle, chargeVars, granted, captured, refundVars>>

\* Start workflow charge-<id>.  The start may be refused or its answer lost,
\* and the server may die before it: the row stays.
StartCharge(c) ==
  /\ at[c] = "inserted"
  /\ \E out \in Outcomes :
       /\ IF Reported(out) THEN Answer(c, c) ELSE Refuse(c)
       /\ step' = IF TakesEffect(out) THEN [step EXCEPT ![c] = "grant"] ELSE step
  /\ UNCHANGED <<tries, storeVars, refundVars>>

-----------------------------------------------------------------------------
(* The Charge workflow: one action per attempt at an activity. *)

\* Bug: an activity that runs out of attempts leaves its count to the next one.
AttemptKeepsCount(c, ok, next, giveUp) ==
  /\ step' = [step EXCEPT ![c] = StepAfter(ok, tries[c], step[c], next, giveUp)]
  /\ tries' = [tries EXCEPT ![c] = IF ok THEN 0 ELSE @ + 1]

Attempt(c, ok, next, giveUp) ==
  /\ step' = [step EXCEPT ![c] = StepAfter(ok, tries[c], step[c], next, giveUp)]
  /\ tries' = [tries EXCEPT ![c] = TriesAfter(ok, tries[c])]

\* Bugs: a grant that fails does not stop the charge; it is retried without a
\* limit.
GrantThen(c, giveUp) ==
  /\ step[c] = "grant"
  /\ \E ok \in BOOLEAN :
       /\ granted' = IF ok THEN granted \cup {c} ELSE granted
       /\ Attempt(c, ok, "settle", giveUp)
  /\ UNCHANGED <<handlerVars, status, captured, refundVars>>
GrantIgnored(c) == GrantThen(c, "settle")
GrantForever(c) == GrantThen(c, "grant")

GrantChargeAccess(c) ==
  /\ step[c] = "grant"
  /\ \E out \in Outcomes :
       /\ granted' = IF TakesEffect(out) THEN granted \cup {c} ELSE granted
       /\ Attempt(c, Reported(out), "settle", "notGranted")
  /\ UNCHANGED <<handlerVars, status, captured, refundVars>>

\* The PSP takes the amount of a charge once, however often it is asked.
Settle(c) ==
  /\ step[c] = "settle"
  /\ \E out \in Outcomes :
       /\ captured' = IF TakesEffect(out) THEN captured \cup {c} ELSE captured
       /\ Attempt(c, Reported(out), "markSettled", "markFailed")
  /\ UNCHANGED <<handlerVars, status, granted, refundVars>>

\* update charges set status = $2 where id = $1, whatever the status was.
MarkChargeStatus(c, s, out) ==
  status' = IF TakesEffect(out) /\ status[c] # "absent"
              THEN [status EXCEPT ![c] = s] ELSE status

\* Bug: a settled mark that could not be recorded takes the failure path.
MarkSettledOrFailed(c) ==
  /\ step[c] = "markSettled"
  /\ \E out \in Outcomes :
       /\ MarkChargeStatus(c, "settled", out)
       /\ Attempt(c, Reported(out), "settled", "markFailed")
  /\ UNCHANGED <<handlerVars, granted, captured, refundVars>>

MarkSettled(c) ==
  /\ step[c] = "markSettled"
  /\ \E out \in Outcomes :
       /\ MarkChargeStatus(c, "settled", out)
       /\ Attempt(c, Reported(out), "settled", "notSettled")
  /\ UNCHANGED <<handlerVars, granted, captured, refundVars>>

\* The workflow ignores whether this mark succeeds.
MarkFailed(c) ==
  /\ step[c] = "markFailed"
  /\ \E out \in Outcomes :
       /\ MarkChargeStatus(c, "failed", out)
       /\ Attempt(c, Reported(out), "failed", "notFailed")
  /\ UNCHANGED <<handlerVars, granted, captured, refundVars>>

-----------------------------------------------------------------------------
(* POST /charges/{id}/refund and the Refund workflow *)

\* Bug: the handler only asks whether the charge is decided.
CheckRefundDecided(a, c) ==
  /\ refunding[a] = Nobody
  /\ status[c] \notin {"absent", "pending"}
  /\ refunding' = [refunding EXCEPT ![a] = c]
  /\ UNCHANGED <<handlerVars, chargeVars, storeVars, rstep, rtries, returned, runs>>

\* The handler reads the row and refuses a charge that is not settled.
CheckRefund(a, c) ==
  /\ refunding[a] = Nobody
  /\ status[c] = "settled"
  /\ refunding' = [refunding EXCEPT ![a] = c]
  /\ UNCHANGED <<handlerVars, chargeVars, storeVars, rstep, rtries, returned, runs>>

\* It then starts workflow refund-<id>: a run in progress is joined, and after
\* one that ended a new run starts.  The start may fail.
StartRefund(a) ==
  /\ refunding[a] # Nobody
  /\ LET c == refunding[a] IN
       \/ UNCHANGED <<rstep, rtries, runs>>
       \/ /\ rstep[c] \notin {"psp", "mark"}
          /\ runs[c] < MaxRefundRuns
          /\ rstep' = [rstep EXCEPT ![c] = "psp"]
          /\ rtries' = [rtries EXCEPT ![c] = 0]
          /\ runs' = [runs EXCEPT ![c] = @ + 1]
  /\ refunding' = [refunding EXCEPT ![a] = Nobody]
  /\ UNCHANGED <<handlerVars, chargeVars, storeVars, returned>>

AttemptRefund(c, ok, next, giveUp) ==
  /\ rstep' = [rstep EXCEPT ![c] = StepAfter(ok, rtries[c], rstep[c], next, giveUp)]
  /\ rtries' = [rtries EXCEPT ![c] = TriesAfter(ok, rtries[c])]

\* The PSP knows a refund by its workflow run: attempts of one run return the
\* amount once, two runs return it twice.
Refund(c) ==
  /\ rstep[c] = "psp"
  /\ \E out \in Outcomes :
       /\ returned' = IF TakesEffect(out) THEN [returned EXCEPT ![c] = @ \cup {runs[c]}]
                                          ELSE returned
       /\ AttemptRefund(c, Reported(out), "mark", "notReturned")
  /\ UNCHANGED <<handlerVars, chargeVars, storeVars, refunding, runs>>

MarkRefunded(c) ==
  /\ rstep[c] = "mark"
  /\ \E out \in Outcomes :
       /\ MarkChargeStatus(c, "refunded", out)
       /\ AttemptRefund(c, Reported(out), "refunded", "notMarked")
  /\ UNCHANGED <<handlerVars, chargeVars, granted, captured, refunding, returned, runs>>

-----------------------------------------------------------------------------
ChargeWorkflow(c) ==
  \/ GrantChargeAccess(c)
  \/ Settle(c)
  \/ MarkSettled(c)
  \/ MarkFailed(c)

RefundWorkflow(c) == Refund(c) \/ MarkRefunded(c)

Next ==
  \/ \E c \in Calls : Lookup(c) \/ InsertCharge(c) \/ StartCharge(c)
  \/ \E c \in Calls : ChargeWorkflow(c) \/ RefundWorkflow(c)
  \/ \E a \in Operators : StartRefund(a) \/ \E c \in Calls : CheckRefund(a, c)

Spec == Init /\ [][Next]_vars

\* Temporal keeps dispatching the next attempt of an open workflow and bounds
\* each attempt by its timeout.  Clients and operators owe nothing, and a charge
\* does not wait for its refund.
Fairness == \A c \in Calls : WF_vars(ChargeWorkflow(c))

FairSpec == Spec /\ Fairness

-----------------------------------------------------------------------------
(* Properties *)

\* Everyone who is answered under one Idempotency-Key is answered with the same
\* charge, whatever the interleaving of their lookups and inserts: the row is
\* inserted before the handler answers.
SameKeySameCharge ==
  \A c, d \in Calls :
    at[c] = "answered" /\ at[d] = "answered" /\ Body[c].key = Body[d].key
      => handle[c] = handle[d]

\* The money of one key is taken at most once, and only for a charge that has
\* its row and that the readers of its order can read.
CapturedOncePerKey ==
  /\ \A c, d \in captured : Body[c].key = Body[d].key => c = d
  /\ \A c \in captured : c \in granted /\ status[c] # "absent"

\* What a status says of the money.  A charge is only shown as settled or
\* refunded when its money was taken, and as refunded when it was returned; the
\* PSP is never asked to return what it did not take.  A failed charge may have
\* been taken by an attempt whose answer was lost, and then it stays taken: the
\* refund path asks for a settled one.
StatusTellsMoney ==
  \A c \in Calls :
    /\ status[c] \in {"settled", "refunded"} => c \in captured
    /\ status[c] = "refunded" => returned[c] # {}
    /\ returned[c] # {} => c \in captured /\ status[c] # "failed"

\* A charge fails or settles but never both, and a refund is only undone by the
\* charge workflow repeating a settled mark whose answer was lost.
StatusHistory ==
  [][\A c \in Calls : status'[c] # status[c] =>
       \/ status[c] = "absent" /\ status'[c] = "pending"
       \/ status[c] = "pending" /\ status'[c] \in {"settled", "failed"}
       \/ status[c] = "settled" /\ status'[c] = "refunded"
       \/ status[c] = "refunded" /\ status'[c] = "settled" /\ step[c] = "markSettled"]_vars

\* A started charge comes to a status a client can stop polling on, or its
\* workflow has failed with an activity out of attempts.
ChargeResolves ==
  \A c \in Calls : step[c] # "none" ~> (status[c] \in {"settled", "failed", "refunded"}
                                          \/ step[c] \in GaveUp)

-----------------------------------------------------------------------------
(* The abstract specification *)

Verdict ==
  [c \in Calls |-> CASE step[c] \in {"markSettled", "settled", "notSettled"} -> "done"
                     [] step[c] \in {"markFailed", "failed", "notFailed"} -> "failed"
                     [] OTHER -> "open"]

Promise == INSTANCE OncePerKey
  WITH Items   <- Calls,
       KeyOf   <- [c \in Calls |-> Body[c].key],
       Done    <- "settled",
       Undone  <- "refunded",
       placed  <- {c \in Calls : status[c] # "absent"},
       taken   <- captured,
       verdict <- Verdict,
       shown   <- status

\* The service implements its promise: whatever the retries, crashes and lost
\* answers, each of its steps places one charge for a key, takes its money,
\* decides it once, shows or undoes the decision, or changes none of these.
KeepsPromise == Promise!Spec

-----------------------------------------------------------------------------
(* What comments and contracts of the repository say, and the code does not do *)

\* POST /charges "starts the Charge Temporal workflow": a handle given out is
\* the handle of a workflow, started or about to be.
HandleHasWorkflow ==
  \A c \in Calls : at[c] = "answered" =>
    step[handle[c]] # "none" \/ at[handle[c]] = "inserted"

\* "only settled charges can be refunded" (RefundCharge): the PSP returns an
\* amount only while its charge is settled, so not once more after the refund.
OnlySettledRefunded ==
  [][\A c \in Calls : returned'[c] # returned[c] => status[c] = "settled"]_vars
=============================================================================
