----------------------------- MODULE AuthzStore -----------------------------
(***************************************************************************)
(* How the services come to one OpenFGA store without being told its id:   *)
(* the seed Job that finds or creates the store named `platform' and fills *)
(* it, and the clients of libs/go/authz that discover it by that name on   *)
(* their first call and pin it (Allowed, Grant, ensureStore).              *)
(*                                                                         *)
(* Stores of that name are numbered in the order of their creation, which  *)
(* is the order of their ids and the order OpenFGA lists them in.  Any     *)
(* request to OpenFGA can fail, or take effect and lose its answer.        *)
(***************************************************************************)
EXTENDS Naturals, Sequences

CONSTANTS
  Clients,     \* the clients New and NewGranter return, some in one process
  Calls,       \* calls of Allowed and Grant
  Call,        \* the content of each: client, op ("check" or "grant"), tuple
  Ops,         \* the seed's tuples, in the order it writes them
  Tuples,
  Nobody,      \* no call
  MaxRuns      \* bound: runs of the seed Job's container

ASSUME CallAssumption ==
  \A k \in Calls : /\ DOMAIN Call[k] = {"client", "op", "tuple"}
                   /\ Call[k].client \in Clients
                   /\ Call[k].op \in {"check", "grant"}
                   /\ Call[k].tuple \in Tuples
\* values.yaml names dashboards and operators, so there is something to write.
ASSUME OpsAssumption == Ops \in Seq(Tuples) /\ Ops # <<>>
ASSUME NobodyAssumption == Nobody \notin Calls
ASSUME MaxRunsAssumption == MaxRuns \in Nat

VARIABLES
  at,       \* where a call is, and how it ended
  holder,   \* the call that holds a client's mutex
  pinned,   \* the store a client has pinned, 0 before
  stores,   \* OpenFGA: how many stores are named `platform'
  model,    \* the run of the seed that wrote a store's latest model, 0 without
  tuples,   \* the tuples of a store
  run,      \* the runs of the seed's container so far
  seed,     \* where the latest one is
  sid,      \* the store id it works with
  written   \* how many of Ops it has written

clientVars  == <<at, holder, pinned>>
openfgaVars == <<stores, model, tuples>>
seedVars    == <<run, seed, sid, written>>
vars        == <<clientVars, openfgaVars, seedVars>>

-----------------------------------------------------------------------------
StoreIds == 1 .. MaxRuns     \* a run creates one store at most
NoStore  == 0
Oldest   == 1

Ended == {"allowed", "denied", "granted", "failed", "notFound"}

TypeOK ==
  /\ at \in [Calls -> {"new", "waiting", "listing", "asking"} \cup Ended]
  /\ holder \in [Clients -> Calls \cup {Nobody}]
  /\ pinned \in [Clients -> {NoStore} \cup 1 .. stores]
  /\ stores \in 0 .. MaxRuns
  /\ model \in [StoreIds -> 0 .. MaxRuns]
  /\ tuples \in [StoreIds -> SUBSET Tuples]
  /\ run \in 0 .. MaxRuns
  /\ seed \in {"none", "list", "create", "model", "grants", "complete", "failed"}
  /\ sid \in {NoStore} \cup 1 .. stores
  /\ written \in 0 .. Len(Ops)
  /\ \A k \in Calls : at[k] = "listing" <=> holder[Call[k].client] = k

Init ==
  /\ at = [k \in Calls |-> "new"]
  /\ holder = [f \in Clients |-> Nobody]
  /\ pinned = [f \in Clients |-> NoStore]
  /\ stores = 0
  /\ model = [s \in StoreIds |-> 0]
  /\ tuples = [s \in StoreIds |-> {}]
  /\ run = 0
  /\ seed = "none"
  /\ sid = NoStore
  /\ written = 0

-----------------------------------------------------------------------------
(* Allowed and Grant *)

End(k, how) == at' = [at EXCEPT ![k] = how]

Arrive(k) ==
  /\ at[k] = "new"
  /\ End(k, "waiting")
  /\ UNCHANGED <<holder, pinned, openfgaVars, seedVars>>

\* Bug: a client that found no store takes that for the answer to every later
\* call, as a discovery guarded by a sync.Once would.
AcquireOnce(k) ==
  LET f == Call[k].client IN
  /\ at[k] = "waiting"
  /\ holder[f] = Nobody
  /\ IF pinned[f] # NoStore THEN End(k, "asking") /\ UNCHANGED holder
     ELSE IF \E j \in Calls : Call[j].client = f /\ at[j] = "notFound"
       THEN End(k, "notFound") /\ UNCHANGED holder
       ELSE End(k, "listing") /\ holder' = [holder EXCEPT ![f] = k]
  /\ UNCHANGED <<pinned, openfgaVars, seedVars>>

\* Take the mutex.  With a store pinned it is given back at once; without, it is
\* held until the stores are listed.  Waiting for it does not end with the
\* caller's context.
Acquire(k) ==
  LET f == Call[k].client IN
  /\ at[k] = "waiting"
  /\ holder[f] = Nobody
  /\ IF pinned[f] # NoStore
       THEN End(k, "asking") /\ UNCHANGED holder
       ELSE End(k, "listing") /\ holder' = [holder EXCEPT ![f] = k]
  /\ UNCHANGED <<pinned, openfgaVars, seedVars>>

Release(f) == holder' = [holder EXCEPT ![f] = Nobody]

\* Bugs: an error returns without unlocking; the last store listed is pinned.
DiscoverKeepsLock(k) ==
  LET f == Call[k].client IN
  /\ at[k] = "listing"
  /\ \/ End(k, "failed") /\ UNCHANGED <<holder, pinned>>
     \/ stores > 0 /\ End(k, "asking") /\ Release(f)
        /\ pinned' = [pinned EXCEPT ![f] = Oldest]
  /\ UNCHANGED <<openfgaVars, seedVars>>
DiscoverLast(k) ==
  LET f == Call[k].client IN
  /\ at[k] = "listing"
  /\ Release(f)
  /\ IF stores = 0 THEN End(k, "notFound") /\ UNCHANGED pinned
                   ELSE End(k, "asking") /\ pinned' = [pinned EXCEPT ![f] = stores]
  /\ UNCHANGED <<openfgaVars, seedVars>>

\* List the stores and pin the first of the name.  An error is returned and not
\* remembered, and the mutex is given back either way.
Discover(k) ==
  LET f == Call[k].client IN
  /\ at[k] = "listing"
  /\ Release(f)
  /\ \/ End(k, "failed") /\ UNCHANGED pinned
     \/ stores = 0 /\ End(k, "notFound") /\ UNCHANGED pinned
     \/ stores > 0 /\ End(k, "asking") /\ pinned' = [pinned EXCEPT ![f] = Oldest]
  /\ UNCHANGED <<openfgaVars, seedVars>>

\* Ask the pinned store.  A store without a model refuses.
Check(k) ==
  LET s == pinned[Call[k].client] IN
  /\ at[k] = "asking" /\ Call[k].op = "check"
  /\ \/ End(k, "failed")
     \/ /\ model[s] # 0
        /\ End(k, IF Call[k].tuple \in tuples[s] THEN "allowed" ELSE "denied")
  /\ UNCHANGED <<holder, pinned, openfgaVars, seedVars>>

\* Bug: whatever the refusal, it is taken for that of a tuple that is there.
WriteRefused(k) ==
  LET s == pinned[Call[k].client] IN
  /\ at[k] = "asking" /\ Call[k].op = "grant"
  /\ \/ End(k, "failed") /\ UNCHANGED tuples
     \/ tuples' = [tuples EXCEPT ![s] = IF model[s] # 0 THEN @ \cup {Call[k].tuple} ELSE @]
        /\ End(k, "granted")
  /\ UNCHANGED <<holder, pinned, stores, model, seedVars>>

\* Write the tuple.  One that is there already is refused by OpenFGA, and that
\* refusal is a success.
Write(k) ==
  LET s == pinned[Call[k].client] IN
  /\ at[k] = "asking" /\ Call[k].op = "grant"
  /\ \/ End(k, "failed") /\ UNCHANGED tuples
     \/ /\ model[s] # 0
        /\ tuples' = [tuples EXCEPT ![s] = @ \cup {Call[k].tuple}]
        /\ \E how \in {"granted", "failed"} : End(k, how)
  /\ UNCHANGED <<holder, pinned, stores, model, seedVars>>

Ask(k) == Check(k) \/ Write(k)

\* The client's process dies and starts again: the calls it was in are lost, and
\* the store has to be found again.
Restart(f) ==
  /\ at' = [k \in Calls |-> IF Call[k].client = f /\ at[k] \in {"waiting", "listing", "asking"}
                              THEN "failed" ELSE at[k]]
  /\ Release(f)
  /\ pinned' = [pinned EXCEPT ![f] = NoStore]
  /\ UNCHANGED <<openfgaVars, seedVars>>

-----------------------------------------------------------------------------
(* The seed Job.  A sync, or the Job after a failure, starts its container     *)
(* again; one run at a time.                                                   *)

SeedStarts ==
  /\ seed \in {"none", "complete", "failed"}
  /\ run < MaxRuns
  /\ run' = run + 1
  /\ seed' = "list"
  /\ sid' = NoStore
  /\ written' = 0
  /\ UNCHANGED <<clientVars, openfgaVars>>

\* Any run dies at any time.
SeedDies ==
  /\ seed \in {"list", "create", "model", "grants"}
  /\ seed' = "failed"
  /\ UNCHANGED <<clientVars, openfgaVars, run, sid, written>>

\* The first store of the name.  The pipeline's status is that of `head', so a
\* list that failed is an empty one.
SeedLists ==
  /\ seed = "list"
  /\ \/ stores > 0 /\ sid' = Oldest /\ seed' = "model"
     \/ sid' = NoStore /\ seed' = "create"
  /\ UNCHANGED <<clientVars, openfgaVars, run, written>>

\* Without an id in the answer every later request is refused, and the first
\* tuple aborts the run.
SeedCreates ==
  /\ seed = "create"
  /\ \/ seed' = "failed" /\ UNCHANGED <<stores, sid>>
     \/ seed' = "failed" /\ stores' = stores + 1 /\ UNCHANGED sid
     \/ seed' = "model" /\ stores' = stores + 1 /\ sid' = stores'
  /\ UNCHANGED <<clientVars, model, tuples, run, written>>

\* The run goes on without asking whether the model was written.
SeedWritesModel ==
  /\ seed = "model"
  /\ seed' = "grants"
  /\ model' \in {model, [model EXCEPT ![sid] = run]}
  /\ UNCHANGED <<clientVars, stores, tuples, run, sid, written>>

\* Bug: the error of a tuple is swallowed.
SeedWritesAny ==
  /\ seed = "grants"
  /\ written' = written + 1
  /\ seed' = IF written' = Len(Ops) THEN "complete" ELSE "grants"
  /\ tuples' \in {tuples, [tuples EXCEPT ![sid] = @ \cup {Ops[written']}]}
  /\ UNCHANGED <<clientVars, stores, model, run, sid>>

\* One request per tuple.  A duplicate is a success; any other error aborts the
\* run, an answer that was lost included.
SeedWritesTuple ==
  /\ seed = "grants"
  /\ model[sid] # 0
  /\ tuples' = [tuples EXCEPT ![sid] = @ \cup {Ops[written + 1]}]
  /\ \/ seed' = "failed" /\ UNCHANGED written
     \/ /\ written' = written + 1
        /\ seed' = IF written' = Len(Ops) THEN "complete" ELSE "grants"
  /\ UNCHANGED <<clientVars, stores, model, run, sid>>

-----------------------------------------------------------------------------
Seed ==
  \/ SeedStarts \/ SeedDies
  \/ SeedLists \/ SeedCreates \/ SeedWritesModel \/ SeedWritesTuple

Next ==
  \/ \E k \in Calls : Arrive(k) \/ Acquire(k) \/ Discover(k) \/ Ask(k)
  \/ \E f \in Clients : Restart(f)
  \/ Seed

Spec == Init /\ [][Next]_vars

\* A goroutine that can take the mutex gets it, and a request to OpenFGA ends,
\* by an answer, an error, or the end of its context.  OpenFGA need not be up,
\* and the seed may never run.
Fairness == \A k \in Calls : WF_vars(Acquire(k)) /\ WF_vars(Discover(k)) /\ WF_vars(Ask(k))

FairSpec == Spec /\ Fairness

-----------------------------------------------------------------------------
(* Properties *)

\* What one call is told holds against what any other was told, whichever
\* clients they went through and wherever the seed is: a grant that was
\* acknowledged is never denied, though a run that could not list the stores
\* created a second one and the clients looked before and after it; and "has the
\* seed Job run?" is only asked while there is no store, so a client does not
\* remember that it looked too early ("a FAILED discovery is not cached").
AnswersAreTrue ==
  [][\A k \in Calls : at'[k] # at[k] =>
       /\ at'[k] = "denied" =>
            \A j \in Calls : at[j] = "granted" => Call[j].tuple # Call[k].tuple
       /\ at'[k] = "notFound" => stores = 0]_vars

\* What a caller can tell apart: whether there is a store, the tuples of the one it
\* would be told to use, and what calls were answered.
Exists  == stores > 0
Granted == IF Exists THEN tuples[Oldest] ELSE {}
Answer  == [k \in Calls |-> IF at[k] \in Ended THEN at[k] ELSE "none"]

One == INSTANCE OneStore WITH
  Seeds <- {Ops[i] : i \in 1 .. Len(Ops)}, exists <- Exists, granted <- Granted, answer <- Answer

\* Whatever number of stores, clients and runs there are, callers see one set of
\* tuples: the clients and the seed implement OneStore.
AsOneStore == One!Spec

\* Once a run of the seed has completed in the store that clients ask, the users
\* and operators of values.yaml are let in: no check of one of its tuples is
\* denied, whichever runs died or lost an answer before, whatever other stores
\* they left behind, and whenever a client looked.  A run that could not list the
\* stores may complete in one that no client asks, and then nothing is promised.
SeededIsAllowed ==
  [][\A k \in Calls : at'[k] # at[k] /\ at'[k] = "denied" =>
       ~(seed = "complete" /\ sid = Oldest /\ \E i \in DOMAIN Ops : Ops[i] = Call[k].tuple)]_vars

\* A call that waits for the mutex behind the one that lists the stores ends,
\* whether that one finds the store, does not, fails, or dies with its process.
CallEnds == \A k \in Calls : at[k] = "waiting" ~> at[k] \in Ended
=============================================================================
