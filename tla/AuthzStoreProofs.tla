-------------------------- MODULE AuthzStoreProofs --------------------------
(***************************************************************************)
(* Safety of AuthzStore, for any number of clients, calls, tuples and runs *)
(* of the seed.                                                            *)
(***************************************************************************)
EXTENDS AuthzStore, TLAPS

-----------------------------------------------------------------------------
(* The inductive invariant *)

\* A run creates one store, and has not before it is past doing so.
OneStorePerRun ==
  /\ stores <= run
  /\ seed \in {"list", "create"} => stores < run

\* The seed works with a store that exists, and a tuple is left to be written.
SeedHasStore ==
  /\ seed \in {"model", "grants", "complete"} => sid \in 1 .. stores
  /\ seed \in {"list", "create", "model"} => written = 0
  /\ seed = "grants" => written < Len(Ops)

\* What it counted as written is in that store, under a model.
WrittenIsThere ==
  seed \in {"grants", "complete"} =>
    /\ written > 0 => model[sid] # 0
    /\ \A i \in 1 .. written : Ops[i] \in tuples[sid]

CompleteIsAll == seed = "complete" => written = Len(Ops)

\* Whichever client, whenever it looked: there is one store it can have pinned.
PinnedIsOldest ==
  /\ \A f \in Clients : pinned[f] \in {NoStore, Oldest}
  /\ \A k \in Calls : at[k] = "asking" => pinned[Call[k].client] = Oldest

GrantedIsThere ==
  \A k \in Calls : at[k] = "granted" => stores > 0 /\ Call[k].tuple \in tuples[Oldest]

StoreInv ==
  /\ OneStorePerRun /\ SeedHasStore /\ WrittenIsThere /\ CompleteIsAll
  /\ PinnedIsOldest /\ GrantedIsThere

IInv == TypeOK /\ StoreInv

LEMMA Start == Init => IInv
  BY CallAssumption, OpsAssumption, NobodyAssumption, MaxRunsAssumption
  DEF Init, IInv, TypeOK, StoreInv, OneStorePerRun, SeedHasStore, WrittenIsThere,
      CompleteIsAll, PinnedIsOldest, GrantedIsThere, NoStore, Oldest, StoreIds, Ended

-----------------------------------------------------------------------------
(* The steps of clients *)

\* A step of a client that leaves OpenFGA alone keeps what concerns the seed.
LEMMA SeedFrame ==
  ASSUME IInv, UNCHANGED <<stores, model, seedVars>>,
         \A s \in StoreIds : tuples[s] \subseteq tuples'[s]
  PROVE  OneStorePerRun' /\ SeedHasStore' /\ WrittenIsThere' /\ CompleteIsAll'
<1>1. sid # NoStore => sid \in StoreIds
  BY MaxRunsAssumption DEF IInv, TypeOK, StoreIds, NoStore
<1>2. OneStorePerRun' /\ SeedHasStore' /\ CompleteIsAll'
  BY DEF IInv, StoreInv, OneStorePerRun, SeedHasStore, CompleteIsAll, seedVars
<1>3. WrittenIsThere'
  BY <1>1 DEF IInv, StoreInv, SeedHasStore, WrittenIsThere, seedVars, NoStore
<1> QED
  BY <1>2, <1>3

LEMMA ClientStep ==
  ASSUME IInv, NEW k \in Calls, Arrive(k) \/ Acquire(k) \/ Discover(k) \/ Ask(k)
  PROVE  IInv'
<1> DEFINE f == Call[k].client
<1>1. /\ f \in Clients /\ Call[k].tuple \in Tuples
      /\ \A j \in Calls : Call[j].client \in Clients
      /\ Nobody \notin Calls
  BY CallAssumption, NobodyAssumption
<1>2. CASE Arrive(k)
  <2>1. TypeOK' /\ PinnedIsOldest' /\ GrantedIsThere'
    BY <1>1, <1>2 DEF IInv, TypeOK, StoreInv, PinnedIsOldest, GrantedIsThere, Arrive, End,
       openfgaVars, seedVars, Ended
  <2> QED
    BY <1>2, <2>1, SeedFrame DEF Arrive, openfgaVars, IInv, StoreInv
<1>3. CASE Acquire(k)
  <2>1. TypeOK'
    BY <1>1, <1>3 DEF IInv, TypeOK, Acquire, End, openfgaVars, seedVars, Ended
  <2>2. PinnedIsOldest' /\ GrantedIsThere'
    BY <1>1, <1>3 DEF IInv, TypeOK, StoreInv, PinnedIsOldest, GrantedIsThere, Acquire, End,
       openfgaVars, seedVars, NoStore
  <2> QED
    BY <1>3, <2>1, <2>2, SeedFrame DEF Acquire, openfgaVars, IInv, StoreInv
<1>4. CASE Discover(k)
  <2>1. /\ at[k] = "listing" /\ at' = [at EXCEPT ![k] = at'[k]]
        /\ at'[k] \in {"failed", "notFound", "asking"}
        /\ holder' = [holder EXCEPT ![f] = Nobody] /\ holder[f] = k
        /\ UNCHANGED <<openfgaVars, seedVars>>
    BY <1>4 DEF IInv, TypeOK, Discover, Release, End
  <2>2. pinned' \in [Clients -> {NoStore} \cup 1 .. stores']
    BY <1>1, <1>4 DEF IInv, TypeOK, Discover, openfgaVars, Oldest
  <2>3. /\ at' \in [Calls -> {"new", "waiting", "listing", "asking"} \cup Ended]
        /\ holder' \in [Clients -> Calls \cup {Nobody}]
    <3>1. at'[k] \in {"new", "waiting", "listing", "asking"} \cup Ended
      BY <2>1 DEF Ended
    <3>2. /\ at \in [Calls -> {"new", "waiting", "listing", "asking"} \cup Ended]
          /\ holder \in [Clients -> Calls \cup {Nobody}]
      BY DEF IInv, TypeOK
    <3>3. at' \in [Calls -> {"new", "waiting", "listing", "asking"} \cup Ended]
      BY <2>1, <3>1, <3>2
    <3>4. holder' \in [Clients -> Calls \cup {Nobody}]
      BY <2>1, <3>2
    <3> QED
      BY <3>3, <3>4
  <2>4. ASSUME NEW j \in Calls PROVE at'[j] = "listing" <=> holder'[Call[j].client] = j
    <3>1. at[j] = "listing" <=> holder[Call[j].client] = j
      BY DEF IInv, TypeOK
    <3>2. j # k => at'[j] = at[j]
      BY <2>1 DEF IInv, TypeOK
    <3>3. IF Call[j].client = f THEN holder'[f] = Nobody
            ELSE holder'[Call[j].client] = holder[Call[j].client]
      BY <1>1, <2>1 DEF IInv, TypeOK
    <3> QED
      BY <1>1, <2>1, <3>1, <3>2, <3>3
  <2>5. TypeOK'
    BY <2>1, <2>2, <2>3, <2>4 DEF IInv, TypeOK, openfgaVars, seedVars
  <2>6. PinnedIsOldest' /\ GrantedIsThere'
    BY <1>1, <1>4 DEF IInv, TypeOK, StoreInv, PinnedIsOldest, GrantedIsThere, Discover,
       Release, End, openfgaVars, seedVars
  <2> QED
    BY <1>4, <2>5, <2>6, SeedFrame DEF Discover, openfgaVars, IInv, StoreInv
<1>5. CASE Check(k)
  <2>1. TypeOK'
    BY <1>1, <1>5 DEF IInv, TypeOK, Check, End, openfgaVars, seedVars, Ended
  <2>2. PinnedIsOldest' /\ GrantedIsThere'
    BY <1>1, <1>5 DEF IInv, TypeOK, StoreInv, PinnedIsOldest, GrantedIsThere, Check, End,
       openfgaVars, seedVars
  <2> QED
    BY <1>5, <2>1, <2>2, SeedFrame DEF Check, openfgaVars, IInv, StoreInv
<1>6. CASE Write(k)
  <2>1. pinned[f] = Oldest /\ stores > 0 /\ Oldest \in StoreIds
    BY <1>1, <1>6, MaxRunsAssumption DEF IInv, TypeOK, StoreInv, PinnedIsOldest, Write,
       Oldest, NoStore, StoreIds
  <2>2. \A s \in StoreIds : tuples[s] \subseteq tuples'[s] /\ tuples'[s] \in SUBSET Tuples
    BY <1>1, <1>6, <2>1 DEF IInv, TypeOK, Write
  <2>3. TypeOK'
    <3>1. tuples' \in [StoreIds -> SUBSET Tuples]
      BY <1>6, <2>2 DEF IInv, TypeOK, Write
    <3>2. at' \in [Calls -> {"new", "waiting", "listing", "asking"} \cup Ended]
      BY <1>6 DEF IInv, TypeOK, Write, End, Ended
    <3> QED
      BY <1>1, <1>6, <3>1, <3>2 DEF IInv, TypeOK, Write, End, seedVars
  <2>4. PinnedIsOldest'
    BY <1>6 DEF IInv, TypeOK, StoreInv, PinnedIsOldest, Write, End
  <2>5. GrantedIsThere'
    <3> SUFFICES ASSUME NEW j \in Calls, at'[j] = "granted"
                 PROVE  stores' > 0 /\ Call[j].tuple \in tuples'[Oldest]
      BY DEF GrantedIsThere
    <3>1. CASE j = k
      BY <1>6, <2>1, <3>1 DEF IInv, TypeOK, Write, End
    <3>2. CASE j # k
      BY <1>6, <2>1, <2>2, <3>2 DEF IInv, TypeOK, StoreInv, GrantedIsThere, Write, End
    <3> QED
      BY <3>1, <3>2
  <2> QED
    BY <1>6, <2>2, <2>3, <2>4, <2>5, SeedFrame DEF Write, IInv, StoreInv
<1> QED
  BY <1>2, <1>3, <1>4, <1>5, <1>6 DEF Ask

\* The calls of a process that dies are over, and what it pinned is forgotten.
LEMMA RestartStep ==
  ASSUME IInv, NEW f \in Clients, Restart(f)
  PROVE  IInv'
<1>1. TypeOK'
  BY CallAssumption, NobodyAssumption
  DEF IInv, TypeOK, Restart, Release, openfgaVars, seedVars, Ended
<1>2. PinnedIsOldest' /\ GrantedIsThere'
  BY CallAssumption
  DEF IInv, TypeOK, StoreInv, PinnedIsOldest, GrantedIsThere, Restart, openfgaVars
<1> QED
  BY <1>1, <1>2, SeedFrame DEF Restart, openfgaVars, IInv, StoreInv

-----------------------------------------------------------------------------
(* The steps of the seed *)

\* A step of the seed may add a store, and tuples; to clients nothing is lost.
LEMMA ClientFrame ==
  ASSUME IInv, UNCHANGED clientVars, stores' \in {stores, stores + 1},
         \A s \in StoreIds : tuples[s] \subseteq tuples'[s]
  PROVE  PinnedIsOldest' /\ GrantedIsThere'
<1>1. stores > 0 => Oldest \in StoreIds
  BY MaxRunsAssumption DEF IInv, TypeOK, StoreIds, Oldest
<1>2. PinnedIsOldest'
  BY DEF IInv, StoreInv, PinnedIsOldest, clientVars
<1>3. GrantedIsThere'
  BY <1>1, MaxRunsAssumption DEF IInv, TypeOK, StoreInv, GrantedIsThere, clientVars
<1> QED
  BY <1>2, <1>3

LEMMA SeedStep ==
  ASSUME IInv, Seed
  PROVE  IInv'
<1> USE MaxRunsAssumption, OpsAssumption
<1>1. Len(Ops) \in Nat /\ Len(Ops) > 0 /\ \A i \in 1 .. Len(Ops) : Ops[i] \in Tuples
  OBVIOUS
<1>2. CASE SeedStarts \/ SeedDies \/ SeedLists
  <2>1. TypeOK'
    BY <1>1, <1>2 DEF IInv, TypeOK, SeedStarts, SeedDies, SeedLists, clientVars, openfgaVars,
       NoStore, Oldest
  <2>2. OneStorePerRun' /\ SeedHasStore' /\ WrittenIsThere' /\ CompleteIsAll'
    BY <1>1, <1>2 DEF IInv, TypeOK, StoreInv, OneStorePerRun, SeedHasStore, WrittenIsThere,
       CompleteIsAll, SeedStarts, SeedDies, SeedLists, openfgaVars, Oldest
  <2> QED
    BY <1>2, <2>1, <2>2, ClientFrame
    DEF SeedStarts, SeedDies, SeedLists, openfgaVars, IInv, StoreInv
<1>3. CASE SeedCreates
  <2>1. TypeOK'
    BY <1>1, <1>3 DEF IInv, TypeOK, StoreInv, OneStorePerRun, SeedCreates, clientVars
  <2>2. OneStorePerRun' /\ SeedHasStore' /\ WrittenIsThere' /\ CompleteIsAll'
    BY <1>1, <1>3 DEF IInv, TypeOK, StoreInv, OneStorePerRun, SeedHasStore, WrittenIsThere,
       CompleteIsAll, SeedCreates
  <2> QED
    BY <1>3, <2>1, <2>2, ClientFrame DEF SeedCreates, IInv, StoreInv
<1>4. CASE SeedWritesModel
  <2>1. sid \in StoreIds /\ run \in 1 .. MaxRuns
    BY <1>4 DEF IInv, TypeOK, StoreInv, OneStorePerRun, SeedHasStore, SeedWritesModel, StoreIds
  <2>2. model' \in [StoreIds -> 0 .. MaxRuns]
    BY <1>4, <2>1 DEF IInv, TypeOK, SeedWritesModel
  <2>3. TypeOK'
    BY <1>1, <1>4, <2>2 DEF IInv, TypeOK, SeedWritesModel, clientVars
  <2>4. OneStorePerRun' /\ SeedHasStore' /\ WrittenIsThere' /\ CompleteIsAll'
    BY <1>1, <1>4 DEF IInv, TypeOK, StoreInv, OneStorePerRun, SeedHasStore, WrittenIsThere,
       CompleteIsAll, SeedWritesModel
  <2> QED
    BY <1>4, <2>3, <2>4, ClientFrame DEF SeedWritesModel, IInv, StoreInv
<1>5. CASE SeedWritesTuple
  <2>1. sid \in StoreIds /\ written < Len(Ops) /\ Ops[written + 1] \in Tuples
    BY <1>1, <1>5 DEF IInv, TypeOK, StoreInv, SeedHasStore, SeedWritesTuple, StoreIds
  <2>2. /\ \A s \in StoreIds : tuples[s] \subseteq tuples'[s]
        /\ tuples' \in [StoreIds -> SUBSET Tuples]
        /\ Ops[written + 1] \in tuples'[sid]
    BY <1>5, <2>1 DEF IInv, TypeOK, SeedWritesTuple
  <2>3. TypeOK'
    BY <1>1, <1>5, <2>1, <2>2 DEF IInv, TypeOK, SeedWritesTuple, clientVars
  <2>4. OneStorePerRun' /\ SeedHasStore' /\ CompleteIsAll'
    BY <1>1, <1>5, <2>1 DEF IInv, TypeOK, StoreInv, OneStorePerRun, SeedHasStore,
       CompleteIsAll, SeedWritesTuple
  <2>5. WrittenIsThere'
    BY <1>1, <1>5, <2>1, <2>2 DEF IInv, TypeOK, StoreInv, WrittenIsThere, SeedWritesTuple
  <2> QED
    BY <1>5, <2>2, <2>3, <2>4, <2>5, ClientFrame DEF SeedWritesTuple, IInv, StoreInv
<1> QED
  BY <1>2, <1>3, <1>4, <1>5 DEF Seed

LEMMA Step == IInv /\ [Next]_vars => IInv'
<1> SUFFICES ASSUME IInv, [Next]_vars PROVE IInv'
  OBVIOUS
<1>1. CASE UNCHANGED vars
  BY <1>1 DEF IInv, TypeOK, StoreInv, OneStorePerRun, SeedHasStore, WrittenIsThere,
     CompleteIsAll, PinnedIsOldest, GrantedIsThere, vars, clientVars, openfgaVars, seedVars
<1> QED
  BY <1>1, ClientStep, RestartStep, SeedStep DEF Next

-----------------------------------------------------------------------------
(* Theorems *)

\* However clients, seed and restarts interleave: what the seed counts as written
\* is there, and every client pins the one oldest store.
THEOREM StoreInvariant == Spec => []IInv
  BY Start, Step, PTL DEF Spec

\* The variables keep their types, and a client's mutex is held by the call that
\* lists the stores, never by another and never without one.
THEOREM TypeCorrect == Spec => []TypeOK
<1>1. IInv => TypeOK
  BY DEF IInv
<1> QED
  BY <1>1, StoreInvariant, PTL

\* A call comes to be denied by a check of its own.
LEMMA OnlyCheckDenies ==
  ASSUME IInv, Next, NEW k \in Calls, at'[k] # at[k], at'[k] = "denied"
  PROVE  Check(k)
<1>1. ~Seed
  BY DEF Seed, SeedStarts, SeedDies, SeedLists, SeedCreates, SeedWritesModel,
     SeedWritesTuple, clientVars
<1>2. ~\E f \in Clients : Restart(f)
  BY DEF IInv, TypeOK, Restart
<1>3. ASSUME NEW j \in Calls, Arrive(j) \/ Acquire(j) \/ Discover(j) \/ Ask(j)
      PROVE  j = k
  BY <1>3 DEF IInv, TypeOK, Arrive, Acquire, Discover, Ask, Check, Write, End
<1>4. ~(Arrive(k) \/ Acquire(k) \/ Discover(k) \/ Write(k))
  BY DEF IInv, TypeOK, Arrive, Acquire, Discover, Write, End
<1> QED
  BY <1>1, <1>2, <1>3, <1>4 DEF Next, Ask

\* Once the seed has completed in the store that clients ask, nobody is denied a
\* tuple of the seed, however many runs died or could not list the stores before.
THEOREM Seeded == Spec => SeededIsAllowed
<1> DEFINE LetIn ==
      \A k \in Calls : at'[k] # at[k] /\ at'[k] = "denied" =>
        ~(seed = "complete" /\ sid = Oldest /\ \E i \in DOMAIN Ops : Ops[i] = Call[k].tuple)
<1>1. IInv => (seed = "complete" /\ sid = Oldest => \A i \in DOMAIN Ops : Ops[i] \in tuples[Oldest])
  BY OpsAssumption DEF IInv, StoreInv, CompleteIsAll, WrittenIsThere
<1>2. IInv /\ [Next]_vars => [LetIn]_vars
  <2> SUFFICES ASSUME IInv, Next, NEW k \in Calls, at'[k] # at[k], at'[k] = "denied",
                      seed = "complete", sid = Oldest, NEW i \in DOMAIN Ops, Ops[i] = Call[k].tuple
               PROVE  FALSE
    OBVIOUS
  <2>1. Check(k)
    BY OnlyCheckDenies
  <2>2. pinned[Call[k].client] = Oldest /\ Call[k].tuple \notin tuples[Oldest]
    BY <2>1 DEF IInv, TypeOK, StoreInv, PinnedIsOldest, Check, End
  <2> QED
    BY <1>1, <2>2
<1> QED
  BY <1>2, StoreInvariant, PTL DEF Spec, SeededIsAllowed

\* No call is denied a tuple that another was told is granted, through whatever
\* clients, and no call is told there is no store when there is one.
THEOREM Answers == Spec => AnswersAreTrue
<1> DEFINE True ==
      \A k \in Calls : at'[k] # at[k] =>
        /\ at'[k] = "denied" =>
             \A j \in Calls : at[j] = "granted" => Call[j].tuple # Call[k].tuple
        /\ at'[k] = "notFound" => stores = 0
<1>1. IInv /\ [Next]_vars => [True]_vars
  <2> SUFFICES ASSUME IInv, Next, NEW k \in Calls, at'[k] # at[k]
               PROVE  /\ at'[k] = "denied" =>
                           \A j \in Calls : at[j] = "granted" => Call[j].tuple # Call[k].tuple
                      /\ at'[k] = "notFound" => stores = 0
    OBVIOUS
  <2>1. ~Seed
    BY DEF Seed, SeedStarts, SeedDies, SeedLists, SeedCreates, SeedWritesModel,
       SeedWritesTuple, clientVars
  <2>2. CASE \E f \in Clients : Restart(f)
    BY <2>2 DEF IInv, TypeOK, Restart
  <2>3. ASSUME NEW i \in Calls, Arrive(i) \/ Acquire(i) \/ Discover(i) \/ Ask(i)
        PROVE  i = k
    BY <2>3 DEF IInv, TypeOK, Arrive, Acquire, Discover, Ask, Check, Write, End
  <2>4. CASE Arrive(k) \/ Acquire(k) \/ Write(k)
    BY <2>4 DEF IInv, TypeOK, Arrive, Acquire, Write, End
  <2>5. CASE Discover(k)
    BY <2>5 DEF IInv, TypeOK, Discover, End
  <2>6. CASE Check(k)
    BY <2>6 DEF IInv, TypeOK, StoreInv, PinnedIsOldest, GrantedIsThere, Check, End
  <2> QED
    BY <2>1, <2>2, <2>3, <2>4, <2>5, <2>6 DEF Next, Ask
<1> QED
  BY <1>1, StoreInvariant, PTL DEF Spec, AnswersAreTrue

-----------------------------------------------------------------------------
(* The refinement of OneStore *)

\* A store that is not there yet has no tuples, so that none appear with it.
Fresh == \A s \in StoreIds : s > stores => tuples[s] = {}

LEMMA FreshStep == IInv /\ Fresh /\ [Next]_vars => Fresh'
<1> SUFFICES ASSUME IInv, Fresh, [Next]_vars, NEW s \in StoreIds, s > stores'
             PROVE  tuples'[s] = {}
  BY DEF Fresh
<1>1. stores \in Nat /\ stores' \in {stores, stores + 1} /\ s \in Nat
  BY DEF IInv, TypeOK, StoreIds, Next, Seed, SeedStarts, SeedDies, SeedLists, SeedCreates,
     SeedWritesModel, SeedWritesTuple, Arrive, Acquire, Discover, Ask, Check, Write, Restart,
     openfgaVars, vars
<1>2. tuples[s] = {} /\ s > stores
  BY <1>1 DEF Fresh
<1>3. ASSUME NEW k \in Calls, Write(k) PROVE tuples'[s] = tuples[s]
  <2>1. pinned[Call[k].client] = Oldest /\ pinned[Call[k].client] <= stores
    BY <1>3, CallAssumption DEF IInv, TypeOK, StoreInv, PinnedIsOldest, Write, Oldest, NoStore
  <2>2. s # pinned[Call[k].client]
    BY <1>1, <1>2, <2>1 DEF Oldest
  <2> QED
    BY <1>3, <2>2 DEF IInv, TypeOK, Write
<1>4. CASE SeedWritesTuple
  <2>1. sid \in 1 .. stores
    BY <1>4 DEF IInv, StoreInv, SeedHasStore, SeedWritesTuple
  <2>2. s # sid
    BY <1>1, <1>2, <2>1
  <2> QED
    BY <1>2, <1>4, <2>2 DEF IInv, TypeOK, SeedWritesTuple
<1>5. ASSUME ~ \E k \in Calls : Write(k), ~SeedWritesTuple PROVE tuples' = tuples
  BY <1>5 DEF Next, Seed, SeedStarts, SeedDies, SeedLists, SeedCreates, SeedWritesModel,
     Arrive, Acquire, Discover, Ask, Check, Restart, openfgaVars, vars
<1> QED
  BY <1>2, <1>3, <1>4, <1>5

\* A step of one call and what its caller sees of it.
LEMMA ShowsCall ==
  ASSUME IInv, NEW k \in Calls, Arrive(k) \/ Acquire(k) \/ Discover(k) \/ Ask(k)
  PROVE  [One!Next]_(One!one)
<1>1. /\ at \in [Calls -> {"new", "waiting", "listing", "asking"} \cup Ended]
      /\ at[k] \notin Ended
      /\ Answer \in [Calls -> {"none"} \cup Ended] /\ Answer[k] = "none"
  BY DEF IInv, TypeOK, Arrive, Acquire, Discover, Ask, Check, Write, Answer, Ended
<1>2. ASSUME NEW how, End(k, how)
      PROVE  /\ how \in Ended => Answer' = [Answer EXCEPT ![k] = how]
             /\ how \notin Ended => Answer' = Answer
  BY <1>1, <1>2 DEF End, Answer
<1>3. ASSUME stores' = stores, tuples' = tuples PROVE Exists' = Exists /\ Granted' = Granted
  BY <1>3 DEF Exists, Granted
<1>4. ASSUME stores' = stores, tuples' = tuples, End(k, "failed") PROVE One!Next
  <2>1. One!Fail({k})
    BY <1>1, <1>2, <1>3, <1>4 DEF One!Fail, Ended
  <2> QED
    BY <2>1 DEF One!Next
<1>5. CASE Arrive(k) \/ Acquire(k)
  <2>1. stores' = stores /\ tuples' = tuples
    BY <1>5 DEF Arrive, Acquire, openfgaVars
  <2>2. End(k, "waiting") \/ End(k, "asking") \/ End(k, "listing")
    BY <1>5 DEF Arrive, Acquire
  <2> QED
    BY <1>2, <1>3, <2>1, <2>2 DEF One!one, Ended
<1>6. CASE Discover(k)
  <2>1. stores' = stores /\ tuples' = tuples
    BY <1>6 DEF Discover, openfgaVars
  <2>2. CASE stores = 0 /\ End(k, "notFound")
    <3>1. One!TooEarly(k)
      BY <1>1, <1>2, <1>3, <2>1, <2>2 DEF One!TooEarly, One!Tell, Exists, Ended
    <3> QED
      BY <3>1 DEF One!Next
  <2>3. CASE End(k, "asking")
    BY <1>2, <1>3, <2>1, <2>3 DEF One!one, Ended
  <2> QED
    BY <1>4, <1>6, <2>1, <2>2, <2>3 DEF Discover
<1>7. at[k] = "asking" => /\ pinned[Call[k].client] = Oldest /\ Exists
                          /\ Granted = tuples[Oldest] /\ Oldest \in StoreIds
  BY CallAssumption, MaxRunsAssumption
  DEF IInv, TypeOK, StoreInv, PinnedIsOldest, Exists, Granted, Oldest, NoStore, StoreIds
<1>8. CASE Check(k)
  <2>1. stores' = stores /\ tuples' = tuples /\ at[k] = "asking" /\ Call[k].op = "check"
    BY <1>8 DEF Check, openfgaVars
  <2>2. CASE End(k, IF Call[k].tuple \in Granted THEN "allowed" ELSE "denied")
    <3>1. One!Check(k)
      BY <1>1, <1>2, <1>3, <1>7, <2>1, <2>2 DEF One!Check, One!Tell, Ended
    <3> QED
      BY <3>1 DEF One!Next
  <2> QED
    BY <1>4, <1>7, <1>8, <2>1, <2>2 DEF Check
<1>9. CASE Write(k)
  <2>1. stores' = stores /\ at[k] = "asking" /\ Call[k].op = "grant"
    BY <1>9 DEF Write
  <2>2. ASSUME NEW how \in {"granted", "failed"}, End(k, how),
               tuples' = [tuples EXCEPT ![Oldest] = @ \cup {Call[k].tuple}]
        PROVE  One!Next
    <3>1. Exists' = Exists /\ Granted' = Granted \cup {Call[k].tuple}
      BY <1>7, <2>1, <2>2 DEF Exists, Granted, IInv, TypeOK
    <3>2. One!Tell(k, how)
      BY <1>1, <1>2, <2>2 DEF One!Tell, Ended
    <3>3. One!Grant(k)
      BY <1>7, <2>1, <3>1, <3>2 DEF One!Grant
    <3> QED
      BY <3>3 DEF One!Next
  <2> QED
    BY <1>4, <1>7, <1>9, <2>1, <2>2 DEF Write
<1> QED
  BY <1>5, <1>6, <1>8, <1>9 DEF Ask

\* A process that dies fails the calls it was in.
LEMMA ShowsRestart ==
  ASSUME IInv, NEW f \in Clients, Restart(f)
  PROVE  One!Next
<1> DEFINE K == {k \in Calls : Call[k].client = f /\ at[k] \in {"waiting", "listing", "asking"}}
<1>1. \A k \in K : Answer[k] = "none"
  BY DEF Answer, Ended
<1>2. Answer' = [k \in Calls |-> IF k \in K THEN "failed" ELSE Answer[k]]
  BY DEF Restart, Answer, Ended
<1>3. Exists' = Exists /\ Granted' = Granted
  BY DEF Restart, openfgaVars, Exists, Granted
<1>4. K \in SUBSET Calls /\ One!Fail(K)
  BY <1>1, <1>2, <1>3 DEF One!Fail
<1> QED
  BY <1>4 DEF One!Next

\* Of the seed callers see the first store appear, and the tuples written to it.
LEMMA ShowsSeed ==
  ASSUME IInv, Fresh, Seed
  PROVE  [One!Next]_(One!one)
<1>1. Answer' = Answer
  BY DEF Seed, SeedStarts, SeedDies, SeedLists, SeedCreates, SeedWritesModel,
     SeedWritesTuple, clientVars, Answer
<1>2. CASE SeedStarts \/ SeedDies \/ SeedLists \/ SeedWritesModel
  BY <1>1, <1>2 DEF SeedStarts, SeedDies, SeedLists, SeedWritesModel, openfgaVars, Exists,
     Granted, One!one
<1>3. CASE SeedCreates
  <2>1. stores \in Nat /\ stores < MaxRuns /\ stores' \in {stores, stores + 1} /\ tuples' = tuples
    BY <1>3, MaxRunsAssumption DEF IInv, TypeOK, StoreInv, OneStorePerRun, SeedCreates
  <2>2. CASE stores' = stores \/ stores > 0
    BY <1>1, <2>1, <2>2 DEF Exists, Granted, One!one
  <2>3. CASE stores = 0 /\ stores' = 1
    <3>1. tuples[Oldest] = {}
      BY <2>1, <2>3, MaxRunsAssumption DEF Fresh, StoreIds, Oldest
    <3>2. One!Appear
      BY <1>1, <2>1, <2>3, <3>1 DEF Exists, Granted, One!Appear
    <3> QED
      BY <3>2 DEF One!Next
  <2> QED
    BY <2>1, <2>2, <2>3
<1>4. CASE SeedWritesTuple
  <2>1. /\ written + 1 \in 1 .. Len(Ops) /\ sid \in 1 .. stores /\ sid \in StoreIds
        /\ stores' = stores /\ tuples' = [tuples EXCEPT ![sid] = @ \cup {Ops[written + 1]}]
    BY <1>4, OpsAssumption, MaxRunsAssumption
    DEF IInv, TypeOK, StoreInv, SeedHasStore, SeedWritesTuple, StoreIds
  <2>2. CASE sid = Oldest
    <3>1. Exists /\ Exists' = Exists /\ Granted' = Granted \cup {Ops[written + 1]}
      BY <2>1, <2>2 DEF Exists, Granted, IInv, TypeOK
    <3>2. One!Add(Ops[written + 1])
      BY <1>1, <3>1 DEF One!Add
    <3> QED
      BY <2>1, <3>2 DEF One!Next
  <2>3. CASE sid # Oldest
    BY <1>1, <2>1, <2>3 DEF Exists, Granted, One!one, IInv, TypeOK
  <2> QED
    BY <2>2, <2>3
<1> QED
  BY <1>2, <1>3, <1>4 DEF Seed

\* However many stores the seed made and whenever the clients looked, to their
\* callers there is one set of tuples, which answers every check and holds every
\* grant that was acknowledged (Allowed, Grant, ensureStore, the seed script).
THEOREM Implements == Spec => AsOneStore
<1>1. Init => One!Init /\ Fresh
  BY DEF Init, One!Init, Exists, Granted, Answer, Ended, Fresh
<1>2. IInv /\ Fresh /\ [Next]_vars => [One!Next]_(One!one)
  <2> SUFFICES ASSUME IInv, Fresh, [Next]_vars PROVE [One!Next]_(One!one)
    OBVIOUS
  <2>1. CASE UNCHANGED vars
    BY <2>1 DEF vars, clientVars, openfgaVars, Exists, Granted, Answer, One!one
  <2> QED
    BY <2>1, ShowsCall, ShowsRestart, ShowsSeed DEF Next
<1> QED
  BY <1>1, <1>2, FreshStep, StoreInvariant, PTL DEF Spec, AsOneStore, One!Spec

\* Nobody is allowed what nobody granted: what a check finds was written by the seed
\* or by a call to Grant that was made, and what was acknowledged is there.
THEOREM OnlyGranted == Spec => []One!NothingElse
<1>1. Init => One!NothingElse
  BY DEF Init, One!NothingElse, Exists, Granted, Answer, Ended
<1>2. One!NothingElse /\ [One!Next]_(One!one) => One!NothingElse'
  <2> SUFFICES ASSUME One!NothingElse, [One!Next]_(One!one) PROVE One!NothingElse'
    OBVIOUS
  <2> DEFINE Asks == {k \in Calls : Call[k].op = "grant"}
             Known(t) == \/ t \in {Ops[i] : i \in 1 .. Len(Ops)}
                         \/ \E k \in Asks : Answer[k] # "none" /\ t = Call[k].tuple
             StillKnown(t) == \/ t \in {Ops[i] : i \in 1 .. Len(Ops)}
                              \/ \E k \in Asks : Answer'[k] # "none" /\ t = Call[k].tuple
  <2>1. /\ \A t \in Granted : Known(t)
        /\ \A k \in Calls : Answer[k] \in {"allowed", "granted"} => Call[k].tuple \in Granted
    BY DEF One!NothingElse
  <2>2. SUFFICES /\ \A t \in Granted' : StillKnown(t)
                 /\ \A k \in Calls : Answer'[k] \in {"allowed", "granted"} =>
                      Call[k].tuple \in Granted'
    BY <2>2 DEF One!NothingElse
  <2>3. Answer = [k \in Calls |-> Answer[k]]
    BY DEF Answer
  <2>4. ASSUME \A k \in Calls : Answer[k] # "none" => Answer'[k] = Answer[k]
        PROVE  \A t : Known(t) => StillKnown(t)
    BY <2>4
  <2> HIDE DEF Known, StillKnown
  <2>5. ASSUME NEW k \in Calls, NEW what, One!Tell(k, what)
        PROVE  /\ Answer[k] = "none" /\ Answer'[k] = what
               /\ \A j \in Calls \ {k} : Answer'[j] = Answer[j]
    BY <2>3, <2>5, Zenon DEF One!Tell
  <2>6. CASE UNCHANGED One!one \/ One!Appear
    BY <2>1, <2>4, <2>6 DEF One!one, One!Appear
  <2>7. ASSUME NEW i \in 1 .. Len(Ops), One!Add(Ops[i])
        PROVE  /\ \A t \in Granted' : StillKnown(t)
               /\ \A k \in Calls : Answer'[k] \in {"allowed", "granted"} =>
                      Call[k].tuple \in Granted'
    <3>1. StillKnown(Ops[i])
      BY DEF StillKnown
    <3> QED
      BY <2>1, <2>4, <2>7, <3>1 DEF One!Add
  <2>8. ASSUME NEW k \in Calls, One!Check(k) \/ One!TooEarly(k)
        PROVE  /\ \A t \in Granted' : StillKnown(t)
               /\ \A j \in Calls : Answer'[j] \in {"allowed", "granted"} =>
                      Call[j].tuple \in Granted'
    <3>1. PICK what \in {"allowed", "denied", "notFound"} :
            One!Tell(k, what) /\ (what = "allowed" => Call[k].tuple \in Granted)
      BY <2>8 DEF One!Check, One!TooEarly
    <3>2. Granted' = Granted
      BY <2>8 DEF One!Check, One!TooEarly
    <3>3. \A j \in Calls : Answer[j] # "none" => Answer'[j] = Answer[j]
      BY <2>5, <3>1
    <3> QED
      BY <2>1, <2>4, <2>5, <3>1, <3>2, <3>3
  <2>9. ASSUME NEW k \in Calls, One!Grant(k)
        PROVE  /\ \A t \in Granted' : StillKnown(t)
               /\ \A j \in Calls : Answer'[j] \in {"allowed", "granted"} =>
                      Call[j].tuple \in Granted'
    <3>1. Granted' = Granted \cup {Call[k].tuple} /\ Call[k].op = "grant"
      BY <2>9 DEF One!Grant
    <3>2. \/ \E what \in {"granted", "failed"} : One!Tell(k, what)
          \/ Answer[k] = "failed" /\ Answer' = Answer
      BY <2>9 DEF One!Grant
    <3>3. /\ Answer'[k] \in {"granted", "failed"}
          /\ \A j \in Calls \ {k} : Answer'[j] = Answer[j]
          /\ \A j \in Calls : Answer[j] # "none" => Answer'[j] = Answer[j]
      BY <2>5, <3>2
    <3>4. StillKnown(Call[k].tuple)
      BY <3>1, <3>3 DEF StillKnown
    <3> QED
      BY <2>1, <2>4, <3>1, <3>3, <3>4
  <2>10. ASSUME NEW K \in SUBSET Calls, One!Fail(K)
         PROVE  /\ \A t \in Granted' : StillKnown(t)
                /\ \A j \in Calls : Answer'[j] \in {"allowed", "granted"} =>
                      Call[j].tuple \in Granted'
    <3>1. \A j \in Calls : Answer'[j] = Answer[j] \/ (Answer[j] = "none" /\ Answer'[j] = "failed")
      BY <2>10 DEF One!Fail
    <3>2. \A j \in Calls : Answer[j] # "none" => Answer'[j] = Answer[j]
      BY <2>10 DEF One!Fail
    <3> QED
      BY <2>1, <2>4, <2>10, <3>1, <3>2 DEF One!Fail
  <2> QED
    BY <2>6, <2>7, <2>8, <2>9, <2>10 DEF One!Next
<1> QED
  BY <1>1, <1>2, Implements, PTL DEF Spec, AsOneStore, One!Spec
=============================================================================
