------------------------------ MODULE OneStore ------------------------------
(***************************************************************************)
(* What libs/go/authz promises the services that call it, and the seed Job *)
(* behind it: as if there were one set of tuples.  It appears once and     *)
(* only grows; a check is answered from it, a grant is acknowledged when   *)
(* its tuple is in it, and what puts a tuple there is the seed or a call.  *)
(*                                                                         *)
(* It says nothing of stores, clients, mutexes, models or runs.            *)
(***************************************************************************)
CONSTANTS
  Calls,      \* calls of Allowed and Grant
  Call,       \* the op ("check" or "grant") and the tuple of each
  Seeds       \* the tuples the seed writes

VARIABLES
  exists,     \* whether there is a store
  granted,    \* its tuples
  answer      \* what a call was told: "none" before its answer

one == <<exists, granted, answer>>

Init ==
  /\ exists = FALSE
  /\ granted = {}
  /\ answer = [k \in Calls |-> "none"]

Tell(k, what) == answer[k] = "none" /\ answer' = [answer EXCEPT ![k] = what]

Appear == exists' = TRUE /\ UNCHANGED <<granted, answer>>

Add(tuple) ==
  /\ exists
  /\ granted' = granted \cup {tuple}
  /\ UNCHANGED <<exists, answer>>

Check(k) ==
  /\ exists /\ Call[k].op = "check"
  /\ Tell(k, IF Call[k].tuple \in granted THEN "allowed" ELSE "denied")
  /\ UNCHANGED <<exists, granted>>

\* A grant that was told to have failed may take effect, then or at any time.
Grant(k) ==
  /\ exists /\ Call[k].op = "grant"
  /\ granted' = granted \cup {Call[k].tuple}
  /\ \/ \E what \in {"granted", "failed"} : Tell(k, what)
     \/ answer[k] = "failed" /\ UNCHANGED answer
  /\ UNCHANGED exists

TooEarly(k) == ~exists /\ Tell(k, "notFound") /\ UNCHANGED <<exists, granted>>

\* Calls fail, one or all of a process.
Fail(K) ==
  /\ \A k \in K : answer[k] = "none"
  /\ answer' = [k \in Calls |-> IF k \in K THEN "failed" ELSE answer[k]]
  /\ UNCHANGED <<exists, granted>>

Next ==
  \/ Appear
  \/ \E tuple \in Seeds : Add(tuple)
  \/ \E k \in Calls : Check(k) \/ Grant(k) \/ TooEarly(k)
  \/ \E K \in SUBSET Calls : Fail(K)

Spec == Init /\ [][Next]_one

-----------------------------------------------------------------------------
\* Nobody is allowed what nobody granted: a tuple is there because the seed or a
\* call that was made put it there, and whoever was told it is, it is there.
NothingElse ==
  /\ \A tuple \in granted :
       tuple \in Seeds \/ \E k \in Calls :
         Call[k].op = "grant" /\ Call[k].tuple = tuple /\ answer[k] # "none"
  /\ \A k \in Calls : answer[k] \in {"allowed", "granted"} => Call[k].tuple \in granted
=============================================================================
