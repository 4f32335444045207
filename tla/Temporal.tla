------------------------------ MODULE Temporal ------------------------------
(***************************************************************************)
(* What the services rely on from Temporal, which is outside src/: the     *)
(* attempts of an activity under RetryPolicy{MaximumAttempts}, and the     *)
(* start of a workflow under an id.                                        *)
(*                                                                         *)
(* An attempt succeeds, fails without effect, or takes effect and is then  *)
(* reported failed (the response is lost, the worker dies, or              *)
(* StartToCloseTimeout expires before completion is recorded).  Backoff    *)
(* between attempts only delays the next one and is not represented.       *)
(***************************************************************************)
EXTENDS Naturals

CONSTANT MaxAttempts        \* RetryPolicy.MaximumAttempts

ASSUME MaxAttemptsAssumption == MaxAttempts \in Nat \ {0}

Outcomes == {"done", "failed", "lost"}

TakesEffect(out) == out # "failed"
Reported(out)    == out = "done"

\* The attempts already reported failed, and the step the workflow is at,
\* after an attempt made at step `here` is reported ok or not.
TriesAfter(ok, tries) ==
  IF ok \/ tries + 1 = MaxAttempts THEN 0 ELSE tries + 1

StepAfter(ok, tries, here, next, giveUp) ==
  CASE ok -> next
    [] ~ok /\ tries + 1 = MaxAttempts -> giveUp
    [] ~ok /\ tries + 1 # MaxAttempts -> here
=============================================================================
