----------------------------- MODULE OncePerKey -----------------------------
(***************************************************************************)
(* What both sagas promise a client: under one Idempotency-Key at most one *)
(* item (an order, a charge) is ever placed, its effect (money is taken)   *)
(* happens at most once, the item is decided once, and what its status     *)
(* shows follows the decision, but for an operator's undoing.              *)
(*                                                                         *)
(* It says nothing of handlers, attempts, workflows or crashes.            *)
(***************************************************************************)
CONSTANTS
  Items,
  KeyOf,      \* the key each item would be placed under
  Done,       \* the status of an item decided in its favour
  Undone      \* the status an operator's undoing leaves

VARIABLES
  placed,     \* the items that exist
  taken,      \* the items whose effect happened
  verdict,    \* how an item was decided: "open", "done" or "failed"
  shown       \* its status: "absent", "pending", Done, "failed" or Undone

abstract == <<placed, taken, verdict, shown>>

Init ==
  /\ placed = {}
  /\ taken = {}
  /\ verdict = [i \in Items |-> "open"]
  /\ shown = [i \in Items |-> "absent"]

\* A key places one item.
Place(i) ==
  /\ \A j \in placed : KeyOf[j] # KeyOf[i]
  /\ placed' = placed \cup {i}
  /\ shown' = [shown EXCEPT ![i] = "pending"]
  /\ UNCHANGED <<taken, verdict>>

\* The effect happens, and whoever asked for it does not know yet, or has given
\* the item up already.
Take(i) ==
  /\ i \in placed
  /\ taken' = taken \cup {i}
  /\ UNCHANGED <<placed, verdict, shown>>

\* The item is decided once: in its favour with its effect, or against it,
\* which does not promise that the effect did not happen.
Accept(i) ==
  /\ i \in placed /\ verdict[i] = "open"
  /\ taken' = taken \cup {i}
  /\ verdict' = [verdict EXCEPT ![i] = "done"]
  /\ UNCHANGED <<placed, shown>>

Reject(i) ==
  /\ i \in placed /\ verdict[i] = "open"
  /\ taken' \in {taken, taken \cup {i}}
  /\ verdict' = [verdict EXCEPT ![i] = "failed"]
  /\ UNCHANGED <<placed, shown>>

\* The status is written from the decision, or by an operator.
Show(i) ==
  /\ \/ verdict[i] = "done" /\ shown' = [shown EXCEPT ![i] = Done]
     \/ verdict[i] = "failed" /\ shown' = [shown EXCEPT ![i] = "failed"]
  /\ UNCHANGED <<placed, taken, verdict>>

Undo(i) ==
  /\ i \in placed
  /\ shown' = [shown EXCEPT ![i] = Undone]
  /\ UNCHANGED <<placed, taken, verdict>>

Next == \E i \in Items :
  Place(i) \/ Take(i) \/ Accept(i) \/ Reject(i) \/ Show(i) \/ Undo(i)

Spec == Init /\ [][Next]_abstract

-----------------------------------------------------------------------------
\* The effect of a key happens for one item at most, and only for one that
\* exists: what both sagas' callers rely on when they send a request again.
TakenOnce ==
  /\ taken \subseteq placed
  /\ \A i, j \in taken : KeyOf[i] = KeyOf[j] => i = j
=============================================================================
