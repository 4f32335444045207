------------------------- MODULE RegistrationProofs -------------------------
(***************************************************************************)
(* Proofs about Registration, for any set of users and console sessions,   *)
(* and any number of runs and attempts.                                    *)
(***************************************************************************)
EXTENDS Registration, TLAPS

-----------------------------------------------------------------------------
(* The inductive invariant *)

\* From its first activity on a run works on an org of its own that was
\* inserted; before, on none.
RunHasOrg ==
  \A u \in Users :
    /\ mine[u] # NoOrg => /\ Owner(mine[u]) = u /\ Run(mine[u]) = runs[u]
                          /\ mine[u] \in orgs \cup deleted
    /\ step[u] \in {"none", "create", "notCreated"} => mine[u] = NoOrg
    /\ step[u] \in {"grant", "read", "patch", "registered", "notGranted", "notSet"} =>
         mine[u] # NoOrg

\* Past the grant the user is admin of it.
GrantBeforeSet ==
  \A u \in Users : step[u] \in {"read", "patch", "registered", "notSet"} => mine[u] \in admins

\* Tuples name inserted orgs; that of a run's own number is the run's org.
AdminsOfRuns ==
  \A o \in admins :
    /\ o \in orgs \cup deleted
    /\ Run(o) <= runs[Owner(o)]
    /\ Run(o) = runs[Owner(o)] => o = mine[Owner(o)]

\* A console request that will put an identity back read a granted org, or none.
CopyIsGranted ==
  \A a \in Consoles : editing[a] # Nobody /\ copy[a].org # NoOrg =>
    Owner(copy[a].org) = editing[a] /\ copy[a].org \in admins

\* The role is only granted to an identity the workflow made.
RoleAfterIdentity ==
  /\ signedUp \cap provisioned = {}
  /\ members \subseteq provisioned
  /\ \A u \in Users : ostep[u] \in {"grant", "registered", "notGranted"} => u \in provisioned

\* An operator whose role was not written has no run that ended well.
HalfOperatorIsVisible ==
  \A u \in provisioned \ members : ostep[u] # "registered"

RegInv ==
  /\ RunHasOrg
  /\ GrantBeforeSet
  /\ AdminsOfRuns
  /\ CopyIsGranted
  /\ RoleAfterIdentity
  /\ OrgIsGranted
  /\ OneGrantPerRun
  /\ HalfOperatorIsVisible

IInv == TypeOK /\ RegInv

-----------------------------------------------------------------------------
(* Attempts *)

\* An attempt only moves the workflow it belongs to, one step along, back to the
\* start of its activity, or to the step it gives up at.
LEMMA AttemptMoves ==
  ASSUME TypeOK, NEW u \in Users, NEW ok \in BOOLEAN, NEW here, NEW next, NEW giveUp,
         Attempt(u, ok, here, next, giveUp)
  PROVE  /\ step' = [step EXCEPT ![u] = step'[u]]
         /\ ok => step'[u] = next
         /\ ~ok => step'[u] \in {here, giveUp}
         /\ tries' \in [Users -> 0 .. MaxAttempts - 1]
<1>1. tries[u] \in 0 .. MaxAttempts - 1
  BY DEF TypeOK
<1>2. step' = [step EXCEPT ![u] = StepAfter(ok, tries[u], here, next, giveUp)]
  BY DEF Attempt
<1>3. TriesAfter(ok, tries[u]) \in 0 .. MaxAttempts - 1
  BY <1>1, MaxAttemptsAssumption DEF TriesAfter
<1> QED
  BY <1>1, <1>2, <1>3, MaxAttemptsAssumption DEF StepAfter, Attempt, TypeOK

LEMMA OperatorAttemptMoves ==
  ASSUME TypeOK, NEW u \in Users, NEW ok \in BOOLEAN, NEW next, NEW giveUp,
         OperatorAttempt(u, ok, next, giveUp)
  PROVE  /\ ostep' = [ostep EXCEPT ![u] = ostep'[u]]
         /\ ok => ostep'[u] = next
         /\ ~ok => ostep'[u] \in {ostep[u], giveUp}
         /\ otries' \in [Users -> 0 .. MaxAttempts - 1]
<1>1. otries[u] \in 0 .. MaxAttempts - 1
  BY DEF TypeOK
<1>2. ostep' = [ostep EXCEPT ![u] = StepAfter(ok, otries[u], ostep[u], next, giveUp)]
  BY DEF OperatorAttempt
<1>3. TriesAfter(ok, otries[u]) \in 0 .. MaxAttempts - 1
  BY <1>1, MaxAttemptsAssumption DEF TriesAfter
<1> QED
  BY <1>1, <1>2, <1>3, MaxAttemptsAssumption DEF StepAfter, OperatorAttempt, TypeOK

\* The org an attempt mints is one of its user's, of the run in progress.
LEMMA MintedType ==
  ASSUME TypeOK, NEW u \in Users
  PROVE  Minted(u) \in Orgs /\ Owner(Minted(u)) = u /\ Run(Minted(u)) = runs[u]
<1>1. runs[u] \in Nat /\ tries[u] \in 0 .. MaxAttempts - 1
  BY DEF TypeOK
<1>2. tries[u] + 1 \in Nat
  BY <1>1, MaxAttemptsAssumption
<1> QED
  BY <1>1, <1>2 DEF Minted, Orgs, Owner, Run

\* What the writes of the identity record change.
LEMMA IdentityWrites ==
  ASSUME NEW f \in [Users -> Identity], NEW u \in Users,
         NEW o \in Orgs \cup {NoOrg}, NEW b \in BOOLEAN, NEW r \in Identity
  PROVE  /\ [f EXCEPT ![u].org = o] \in [Users -> Identity]
         /\ [f EXCEPT ![u].operator = b] \in [Users -> Identity]
         /\ [f EXCEPT ![u] = [r EXCEPT !.operator = b]] \in [Users -> Identity]
         /\ [f EXCEPT ![u].org = o][u].org = o
         /\ \A v \in Users : [f EXCEPT ![u].operator = b][v].org = f[v].org
         /\ [f EXCEPT ![u] = [r EXCEPT !.operator = b]][u].org = r.org
<1>1. f[u] \in Identity
  OBVIOUS
<1>2. /\ [f[u] EXCEPT !.org = o] \in Identity /\ [f[u] EXCEPT !.org = o].org = o
      /\ [f[u] EXCEPT !.operator = b] \in Identity
      /\ [f[u] EXCEPT !.operator = b].org = f[u].org
      /\ [r EXCEPT !.operator = b] \in Identity /\ [r EXCEPT !.operator = b].org = r.org
  BY <1>1 DEF Identity
<1> HIDE DEF Identity
<1> QED
  BY <1>1, <1>2

-----------------------------------------------------------------------------
(* Each activity, as what its attempt can do *)

LEMMA CreateMoves ==
  ASSUME TypeOK, NEW u \in Users, CreatePersonalOrg(u)
  PROVE  /\ step[u] = "create"
         /\ step' = [step EXCEPT ![u] = step'[u]]
         /\ tries' \in [Users -> 0 .. MaxAttempts - 1]
         /\ orgs' \in {orgs, orgs \cup {Minted(u)}}
         /\ \/ step'[u] = "grant" /\ mine' = [mine EXCEPT ![u] = Minted(u)]
               /\ Minted(u) \in orgs'
            \/ step'[u] \in {"create", "notCreated"} /\ mine' = mine
<1>1. PICK out \in Outcomes :
        /\ orgs' = IF TakesEffect(out) THEN orgs \cup {Minted(u)} ELSE orgs
        /\ mine' = IF Reported(out) THEN [mine EXCEPT ![u] = Minted(u)] ELSE mine
        /\ Attempt(u, Reported(out), "create", "grant", "notCreated")
  BY DEF CreatePersonalOrg
<1>2. Reported(out) \in BOOLEAN /\ (Reported(out) => TakesEffect(out))
  BY DEF Reported, TakesEffect
<1> HIDE DEF Minted
<1> QED
  BY <1>1, <1>2, AttemptMoves DEF CreatePersonalOrg

LEMMA GrantMoves ==
  ASSUME TypeOK, NEW u \in Users, GrantOrgAdmin(u)
  PROVE  /\ step[u] = "grant"
         /\ step' = [step EXCEPT ![u] = step'[u]]
         /\ tries' \in [Users -> 0 .. MaxAttempts - 1]
         /\ admins' \in {admins, admins \cup {mine[u]}}
         /\ \/ step'[u] = "read" /\ mine[u] \in admins'
            \/ step'[u] \in {"grant", "notGranted"}
<1>1. PICK out \in Outcomes :
        /\ admins' = IF TakesEffect(out) THEN admins \cup {mine[u]} ELSE admins
        /\ Attempt(u, Reported(out), "grant", "read", "notGranted")
  BY DEF GrantOrgAdmin
<1>2. Reported(out) \in BOOLEAN /\ (Reported(out) => TakesEffect(out))
  BY DEF Reported, TakesEffect
<1> QED
  BY <1>1, <1>2, AttemptMoves DEF GrantOrgAdmin

LEMMA ReadMoves ==
  ASSUME TypeOK, NEW u \in Users, ReadIdentity(u)
  PROVE  /\ step[u] = "read"
         /\ step' = [step EXCEPT ![u] = step'[u]]
         /\ step'[u] \in {"read", "patch", "registered", "notSet"}
         /\ tries' \in [Users -> 0 .. MaxAttempts - 1]
<1>1. CASE Attempt(u, FALSE, "read", "patch", "notSet")
  BY <1>1, AttemptMoves DEF ReadIdentity
<1>2. CASE Attempt(u, TRUE, "read", "registered", "notSet")
  BY <1>2, AttemptMoves DEF ReadIdentity
<1>3. CASE step' = [step EXCEPT ![u] = "patch"] /\ UNCHANGED tries
  BY <1>3 DEF ReadIdentity, TypeOK
<1> QED
  BY <1>1, <1>2, <1>3 DEF ReadIdentity

LEMMA PatchMoves ==
  ASSUME TypeOK, NEW u \in Users, PatchIdentity(u)
  PROVE  /\ step[u] = "patch"
         /\ step' = [step EXCEPT ![u] = step'[u]]
         /\ step'[u] \in {"read", "registered", "notSet"}
         /\ tries' \in [Users -> 0 .. MaxAttempts - 1]
         /\ identity' \in {identity, [identity EXCEPT ![u].org = mine[u]]}
<1>1. PICK out \in Outcomes :
        /\ identity' = IF TakesEffect(out) THEN [identity EXCEPT ![u].org = mine[u]] ELSE identity
        /\ Attempt(u, Reported(out), "read", "registered", "notSet")
  BY DEF PatchIdentity
<1>2. Reported(out) \in BOOLEAN
  BY DEF Reported
<1> QED
  BY <1>1, <1>2, AttemptMoves DEF PatchIdentity

LEMMA CreateOperatorMoves ==
  ASSUME TypeOK, NEW u \in Users, CreateOperatorIdentity(u)
  PROVE  /\ ostep[u] = "create"
         /\ ostep' = [ostep EXCEPT ![u] = ostep'[u]]
         /\ otries' \in [Users -> 0 .. MaxAttempts - 1]
         /\ \/ UNCHANGED <<provisioned, identity>>
            \/ /\ u \notin Exists /\ provisioned' = provisioned \cup {u}
               /\ identity' = [identity EXCEPT ![u].operator = TRUE]
         /\ \/ ostep'[u] = "grant" /\ u \in provisioned'
            \/ ostep'[u] \in {"create", "notCreated"}
<1>1. PICK out \in Outcomes :
        /\ TakesEffect(out) => u \notin Exists
        /\ provisioned' = IF TakesEffect(out) THEN provisioned \cup {u} ELSE provisioned
        /\ identity' = IF TakesEffect(out) THEN [identity EXCEPT ![u].operator = TRUE] ELSE identity
        /\ OperatorAttempt(u, Reported(out), "grant", "notCreated")
  BY DEF CreateOperatorIdentity
<1>2. Reported(out) \in BOOLEAN /\ (Reported(out) => TakesEffect(out))
  BY DEF Reported, TakesEffect
<1> QED
  BY <1>1, <1>2, OperatorAttemptMoves DEF CreateOperatorIdentity

LEMMA GrantRoleMoves ==
  ASSUME TypeOK, NEW u \in Users, GrantOperatorRole(u)
  PROVE  /\ ostep[u] = "grant"
         /\ ostep' = [ostep EXCEPT ![u] = ostep'[u]]
         /\ otries' \in [Users -> 0 .. MaxAttempts - 1]
         /\ members' \in {members, members \cup {u}}
         /\ \/ ostep'[u] = "registered" /\ u \in members'
            \/ ostep'[u] \in {"grant", "notGranted"}
<1>1. PICK out \in Outcomes :
        /\ members' = IF TakesEffect(out) THEN members \cup {u} ELSE members
        /\ OperatorAttempt(u, Reported(out), "registered", "notGranted")
  BY DEF GrantOperatorRole
<1>2. Reported(out) \in BOOLEAN /\ (Reported(out) => TakesEffect(out))
  BY DEF Reported, TakesEffect
<1> QED
  BY <1>1, <1>2, OperatorAttemptMoves DEF GrantOperatorRole

-----------------------------------------------------------------------------
(* Type correctness.  That a tuple names an org rests on the workflow's.    *)

LEMMA TypeInit == Init => TypeOK
  BY MaxAttemptsAssumption, SMT DEF Init, TypeOK, Identity, Blank, Running, GaveUp

LEMMA TypeStep == IInv /\ [Next]_vars => TypeOK'
<1> SUFFICES ASSUME TypeOK, RunHasOrg, [Next]_vars PROVE TypeOK'
  BY DEF IInv, RegInv
<1> USE DEF kratosVars, orgVars, userVars, operatorVars, consoleVars
<1>1. ASSUME NEW u \in Users, SignUp(u) PROVE TypeOK'
  BY <1>1 DEF SignUp, TypeOK
<1>2. ASSUME NEW u \in Users, OnIdentityCreated(u) PROVE TypeOK'
  BY <1>2, MaxAttemptsAssumption DEF OnIdentityCreated, TypeOK, Running
<1>3. ASSUME NEW u \in Users, CreateOperator(u) PROVE TypeOK'
  BY <1>3, MaxAttemptsAssumption DEF CreateOperator, TypeOK
<1>4. ASSUME NEW u \in Users, CreatePersonalOrg(u) PROVE TypeOK'
  <2> HIDE DEF Minted
  <2>1. Minted(u) \in Orgs
    BY MintedType
  <2>2. orgs' \subseteq Orgs /\ mine' \in [Users -> Orgs \cup {NoOrg}]
        /\ step' \in [Users -> {"none", "registered"} \cup Running \cup GaveUp]
        /\ tries' \in [Users -> 0 .. MaxAttempts - 1]
    BY <1>4, <2>1, CreateMoves DEF TypeOK, Running, GaveUp
  <2> QED
    BY <1>4, <2>2 DEF CreatePersonalOrg, TypeOK
<1>5. ASSUME NEW u \in Users, GrantOrgAdmin(u) PROVE TypeOK'
  <2>1. mine[u] \in Orgs
    BY <1>5, GrantMoves DEF RunHasOrg, TypeOK
  <2>2. admins' \subseteq Orgs
        /\ step' \in [Users -> {"none", "registered"} \cup Running \cup GaveUp]
        /\ tries' \in [Users -> 0 .. MaxAttempts - 1]
    BY <1>5, <2>1, GrantMoves DEF TypeOK, Running, GaveUp
  <2> QED
    BY <1>5, <2>2 DEF GrantOrgAdmin, TypeOK
<1>6. ASSUME NEW u \in Users, ReadIdentity(u) PROVE TypeOK'
  <2>1. step' \in [Users -> {"none", "registered"} \cup Running \cup GaveUp]
        /\ tries' \in [Users -> 0 .. MaxAttempts - 1]
    BY <1>6, ReadMoves DEF TypeOK, Running, GaveUp
  <2> QED
    BY <1>6, <2>1 DEF ReadIdentity, TypeOK
<1>7. ASSUME NEW u \in Users, PatchIdentity(u) PROVE TypeOK'
  <2>1. identity \in [Users -> Identity] /\ mine[u] \in Orgs \cup {NoOrg}
    BY DEF TypeOK
  <2>2. [identity EXCEPT ![u].org = mine[u]] \in [Users -> Identity]
    BY <2>1, IdentityWrites
  <2>3. identity' \in [Users -> Identity]
    BY <1>7, <2>1, <2>2, PatchMoves
  <2>4. step' \in [Users -> {"none", "registered"} \cup Running \cup GaveUp]
        /\ tries' \in [Users -> 0 .. MaxAttempts - 1]
    BY <1>7, PatchMoves DEF TypeOK, Running, GaveUp
  <2> QED
    BY <1>7, <2>3, <2>4 DEF PatchIdentity, TypeOK
<1>8. ASSUME NEW u \in Users, CreateOperatorIdentity(u) PROVE TypeOK'
  <2>1. identity \in [Users -> Identity]
    BY DEF TypeOK
  <2>2. [identity EXCEPT ![u].operator = TRUE] \in [Users -> Identity]
    BY <2>1, IdentityWrites
  <2>3. provisioned' \in {provisioned, provisioned \cup {u}}
        /\ identity' \in {identity, [identity EXCEPT ![u].operator = TRUE]}
    BY <1>8, CreateOperatorMoves
  <2>4. /\ ostep' \in [Users -> {"none", "create", "grant", "registered", "notCreated", "notGranted"}]
        /\ otries' \in [Users -> 0 .. MaxAttempts - 1]
    BY <1>8, CreateOperatorMoves DEF TypeOK
  <2> QED
    BY <1>8, <2>1, <2>2, <2>3, <2>4 DEF CreateOperatorIdentity, TypeOK
<1>9. ASSUME NEW u \in Users, GrantOperatorRole(u) PROVE TypeOK'
  <2>1. /\ members' \subseteq Users
        /\ ostep' \in [Users -> {"none", "create", "grant", "registered", "notCreated", "notGranted"}]
        /\ otries' \in [Users -> 0 .. MaxAttempts - 1]
    BY <1>9, GrantRoleMoves DEF TypeOK
  <2> QED
    BY <1>9, <2>1 DEF GrantOperatorRole, TypeOK
<1>10. ASSUME NEW o \in orgs, DeleteOrg(o) PROVE TypeOK'
  BY <1>10 DEF DeleteOrg, TypeOK
<1>11. ASSUME NEW a \in Consoles, UpdateIdentity(a) PROVE TypeOK'
  <2>1. Blank \in Identity
    BY DEF Blank, Identity
  <2>2. identity \in [Users -> Identity] /\ copy[a] \in Identity /\ editing[a] \in Users
    BY <1>11 DEF UpdateIdentity, TypeOK
  <2>3. \A b \in BOOLEAN :
          [identity EXCEPT ![editing[a]] = [copy[a] EXCEPT !.operator = b]] \in [Users -> Identity]
    BY <2>2, IdentityWrites
  <2>4. identity' \in [Users -> Identity]
    BY <1>11, <2>2, <2>3 DEF UpdateIdentity
  <2>5. /\ editing' \in [Consoles -> Users \cup {Nobody}]
        /\ copy' \in [Consoles -> Identity]
    BY <1>11, <2>1 DEF UpdateIdentity, TypeOK
  <2> QED
    BY <1>11, <2>4, <2>5 DEF UpdateIdentity, TypeOK
<1>12. ASSUME NEW a \in Consoles, NEW u \in Users, LoadIdentity(a, u) PROVE TypeOK'
  BY <1>12 DEF LoadIdentity, TypeOK
<1>13. CASE UNCHANGED vars
  BY <1>13 DEF vars, TypeOK
<1> QED
  BY <1>1, <1>2, <1>3, <1>4, <1>5, <1>6, <1>7, <1>8, <1>9, <1>10, <1>11, <1>12, <1>13
     DEF Next, RegisterUser, RegisterOperator

-----------------------------------------------------------------------------
(* The invariant *)

LEMMA RegInit == Init => RegInv
  BY NobodyAssumption, SMT
     DEF Init, RegInv, RunHasOrg, GrantBeforeSet, AdminsOfRuns, CopyIsGranted, RoleAfterIdentity,
         OrgIsGranted, OneGrantPerRun, HalfOperatorIsVisible, Blank

\* The conjuncts about operators and those about orgs speak of different
\* variables.
OperatorPart == RoleAfterIdentity /\ HalfOperatorIsVisible
OrgPart      == /\ RunHasOrg /\ GrantBeforeSet /\ AdminsOfRuns
                /\ CopyIsGranted /\ OrgIsGranted /\ OneGrantPerRun

LEMMA OperatorFrame ==
  ASSUME OperatorPart, UNCHANGED <<signedUp, provisioned, members, ostep>>
  PROVE  OperatorPart'
  BY DEF OperatorPart, RoleAfterIdentity, HalfOperatorIsVisible

LEMMA OrgFrame ==
  ASSUME OrgPart, UNCHANGED <<orgVars, runs, mine, step, editing, copy>>,
         \A u \in Users : identity'[u].org = identity[u].org
  PROVE  OrgPart'
  BY DEF OrgPart, RunHasOrg, GrantBeforeSet, AdminsOfRuns, CopyIsGranted, OrgIsGranted,
         OneGrantPerRun, orgVars

LEMMA RegStep == IInv /\ [Next]_vars => RegInv'
<1> SUFFICES ASSUME TypeOK, OrgPart, OperatorPart, [Next]_vars PROVE OrgPart' /\ OperatorPart'
  BY DEF IInv, RegInv, OrgPart, OperatorPart
<1> USE DEF kratosVars, orgVars, userVars, operatorVars, consoleVars
<1>1. ASSUME NEW u \in Users, SignUp(u) PROVE OrgPart' /\ OperatorPart'
  <2>1. OrgPart'
    BY <1>1, OrgFrame DEF SignUp
  <2>2. OperatorPart'
    BY <1>1 DEF SignUp, Exists, OperatorPart, RoleAfterIdentity, HalfOperatorIsVisible
  <2> QED
    BY <2>1, <2>2
<1>2. ASSUME NEW u \in Users, OnIdentityCreated(u) PROVE OrgPart' /\ OperatorPart'
  <2> USE <1>2 DEF OnIdentityCreated
  <2>1. OperatorPart'
    BY OperatorFrame
  <2>2. step' = [step EXCEPT ![u] = "create"] /\ mine' = [mine EXCEPT ![u] = NoOrg]
    OBVIOUS
  <2>3. RunHasOrg'
    BY <2>2 DEF OrgPart, RunHasOrg, TypeOK
  <2>4. GrantBeforeSet'
    BY <2>2 DEF OrgPart, GrantBeforeSet, TypeOK
  <2>5. AdminsOfRuns'
    <3> SUFFICES ASSUME NEW o \in admins
                 PROVE  Run(o) <= runs'[Owner(o)] /\
                        (Run(o) = runs'[Owner(o)] => o = mine'[Owner(o)])
      BY DEF OrgPart, AdminsOfRuns
    <3>1. Owner(o) \in Users /\ Run(o) \in Nat /\ runs[Owner(o)] \in Nat
      BY DEF TypeOK, Orgs, Owner, Run
    <3>2. Run(o) <= runs[Owner(o)] /\ (Run(o) = runs[Owner(o)] => o = mine[Owner(o)])
      BY DEF OrgPart, AdminsOfRuns
    <3>3. runs'[Owner(o)] = IF Owner(o) = u THEN runs[u] + 1 ELSE runs[Owner(o)]
      BY <3>1 DEF TypeOK
    <3>4. CASE Owner(o) = u
      BY <3>1, <3>2, <3>3, <3>4
    <3>5. CASE Owner(o) # u
      BY <3>1, <3>2, <3>3, <3>5, <2>2 DEF TypeOK
    <3> QED
      BY <3>4, <3>5
  <2>6. CopyIsGranted' /\ OrgIsGranted' /\ OneGrantPerRun'
    BY DEF OrgPart, CopyIsGranted, OrgIsGranted, OneGrantPerRun
  <2> QED
    BY <2>1, <2>3, <2>4, <2>5, <2>6 DEF OrgPart
<1>3. ASSUME NEW u \in Users, CreateOperator(u) PROVE OrgPart' /\ OperatorPart'
  <2>1. OrgPart'
    BY <1>3, OrgFrame DEF CreateOperator
  <2>2. OperatorPart'
    BY <1>3 DEF CreateOperator, OperatorPart, RoleAfterIdentity, HalfOperatorIsVisible, TypeOK
  <2> QED
    BY <2>1, <2>2
<1>4. ASSUME NEW u \in Users, CreatePersonalOrg(u) PROVE OrgPart' /\ OperatorPart'
  <2>1. OperatorPart' /\ UNCHANGED <<identity, admins, deleted, runs, consoleVars>>
    BY <1>4, OperatorFrame DEF CreatePersonalOrg
  <2>2. /\ step[u] = "create" /\ mine[u] = NoOrg
        /\ step' = [step EXCEPT ![u] = step'[u]]
        /\ orgs \subseteq orgs'
        /\ \/ step'[u] = "grant" /\ mine' = [mine EXCEPT ![u] = Minted(u)] /\ Minted(u) \in orgs'
           \/ step'[u] \in {"create", "notCreated"} /\ mine' = mine
    BY <1>4, CreateMoves DEF OrgPart, RunHasOrg
  <2>3. Minted(u) \in Orgs /\ Owner(Minted(u)) = u /\ Run(Minted(u)) = runs[u]
    BY MintedType
  <2> HIDE DEF Minted
  <2>4. RunHasOrg'
    BY <2>1, <2>2, <2>3, NoOrgAssumption DEF OrgPart, RunHasOrg, TypeOK, Orgs
  <2>5. GrantBeforeSet'
    BY <2>1, <2>2 DEF OrgPart, GrantBeforeSet, TypeOK
  <2>6. AdminsOfRuns'
    <3>1. \A o \in admins : Owner(o) = u => Run(o) # runs[u]
      BY <2>2, NoOrgAssumption DEF OrgPart, AdminsOfRuns, TypeOK, Orgs
    <3>2. \A o \in admins : Owner(o) \in Users
      BY DEF TypeOK, Orgs, Owner
    <3> QED
      BY <2>1, <2>2, <3>1, <3>2 DEF OrgPart, AdminsOfRuns, TypeOK
  <2>7. CopyIsGranted' /\ OrgIsGranted' /\ OneGrantPerRun'
    BY <2>1, <2>2 DEF OrgPart, CopyIsGranted, OrgIsGranted, OneGrantPerRun
  <2> QED
    BY <2>1, <2>4, <2>5, <2>6, <2>7 DEF OrgPart
<1>5. ASSUME NEW u \in Users, GrantOrgAdmin(u) PROVE OrgPart' /\ OperatorPart'
  <2>1. OperatorPart' /\ UNCHANGED <<identity, orgs, deleted, runs, mine, consoleVars>>
    BY <1>5, OperatorFrame DEF GrantOrgAdmin
  <2>2. /\ step[u] = "grant" /\ step' = [step EXCEPT ![u] = step'[u]]
        /\ admins' \in {admins, admins \cup {mine[u]}}
        /\ \/ step'[u] = "read" /\ mine[u] \in admins'
           \/ step'[u] \in {"grant", "notGranted"}
    BY <1>5, GrantMoves
  <2>3. /\ mine[u] # NoOrg /\ Owner(mine[u]) = u /\ Run(mine[u]) = runs[u]
        /\ mine[u] \in orgs \cup deleted /\ runs[u] \in Nat
    BY <2>2 DEF OrgPart, RunHasOrg, TypeOK
  <2>4. RunHasOrg'
    BY <2>1, <2>2, <2>3 DEF OrgPart, RunHasOrg, TypeOK
  <2>5. GrantBeforeSet'
    BY <2>1, <2>2 DEF OrgPart, GrantBeforeSet, TypeOK
  <2>6. AdminsOfRuns'
    BY <2>1, <2>2, <2>3 DEF OrgPart, AdminsOfRuns
  <2>7. CopyIsGranted' /\ OrgIsGranted'
    BY <2>1, <2>2 DEF OrgPart, CopyIsGranted, OrgIsGranted
  <2>8. OneGrantPerRun'
    BY <2>2, <2>3 DEF OrgPart, AdminsOfRuns, OneGrantPerRun
  <2> QED
    BY <2>1, <2>4, <2>5, <2>6, <2>7, <2>8 DEF OrgPart
<1>6. ASSUME NEW u \in Users, ReadIdentity(u) PROVE OrgPart' /\ OperatorPart'
  <2>1. OperatorPart' /\ UNCHANGED <<identity, orgVars, runs, mine, consoleVars>>
    BY <1>6, OperatorFrame DEF ReadIdentity
  <2>2. /\ step[u] = "read" /\ step' = [step EXCEPT ![u] = step'[u]]
        /\ step'[u] \in {"read", "patch", "registered", "notSet"}
    BY <1>6, ReadMoves
  <2>3. RunHasOrg' /\ GrantBeforeSet'
    BY <2>1, <2>2 DEF OrgPart, RunHasOrg, GrantBeforeSet, TypeOK
  <2>4. AdminsOfRuns' /\ CopyIsGranted' /\ OrgIsGranted' /\ OneGrantPerRun'
    BY <2>1 DEF OrgPart, AdminsOfRuns, CopyIsGranted, OrgIsGranted, OneGrantPerRun
  <2> QED
    BY <2>1, <2>3, <2>4 DEF OrgPart
<1>7. ASSUME NEW u \in Users, PatchIdentity(u) PROVE OrgPart' /\ OperatorPart'
  <2>1. OperatorPart' /\ UNCHANGED <<orgVars, runs, mine, consoleVars>>
    BY <1>7, OperatorFrame DEF PatchIdentity
  <2>2. /\ step[u] = "patch" /\ step' = [step EXCEPT ![u] = step'[u]]
        /\ step'[u] \in {"read", "registered", "notSet"}
        /\ identity' \in {identity, [identity EXCEPT ![u].org = mine[u]]}
    BY <1>7, PatchMoves
  <2>3. RunHasOrg' /\ GrantBeforeSet'
    BY <2>1, <2>2 DEF OrgPart, RunHasOrg, GrantBeforeSet, TypeOK
  <2>4. AdminsOfRuns' /\ CopyIsGranted' /\ OneGrantPerRun'
    BY <2>1 DEF OrgPart, AdminsOfRuns, CopyIsGranted, OneGrantPerRun
  <2>5. OrgIsGranted'
    <3>1. mine[u] # NoOrg /\ Owner(mine[u]) = u /\ mine[u] \in admins
      BY <2>2 DEF OrgPart, RunHasOrg, GrantBeforeSet
    <3>2. \A v \in Users : \/ identity'[v].org = identity[v].org
                           \/ v = u /\ identity'[v].org = mine[u]
      <4>1. identity \in [Users -> Identity] /\ mine[u] \in Orgs \cup {NoOrg}
        BY DEF TypeOK
      <4>2. [identity EXCEPT ![u].org = mine[u]][u].org = mine[u]
        BY <4>1, IdentityWrites
      <4> QED
        BY <2>2, <4>1, <4>2
    <3> QED
      BY <2>1, <3>1, <3>2 DEF OrgPart, AdminsOfRuns, OrgIsGranted
  <2> QED
    BY <2>1, <2>3, <2>4, <2>5 DEF OrgPart
<1>8. ASSUME NEW u \in Users, CreateOperatorIdentity(u) PROVE OrgPart' /\ OperatorPart'
  <2>1. /\ UNCHANGED <<signedUp, orgVars, runs, mine, step, members, editing, copy>>
        /\ ostep[u] = "create" /\ ostep' = [ostep EXCEPT ![u] = ostep'[u]]
    BY <1>8, CreateOperatorMoves DEF CreateOperatorIdentity
  <2>2. \/ UNCHANGED <<provisioned, identity>>
        \/ /\ u \notin Exists /\ provisioned' = provisioned \cup {u}
           /\ identity' = [identity EXCEPT ![u].operator = TRUE]
    BY <1>8, CreateOperatorMoves
  <2>3. \/ ostep'[u] = "grant" /\ u \in provisioned'
        \/ ostep'[u] \in {"create", "notCreated"}
    BY <1>8, CreateOperatorMoves
  <2>4. \A v \in Users : identity'[v].org = identity[v].org
    <3>1. identity \in [Users -> Identity]
      BY DEF TypeOK
    <3>2. \A v \in Users : [identity EXCEPT ![u].operator = TRUE][v].org = identity[v].org
      BY <3>1, IdentityWrites
    <3> QED
      BY <2>2, <3>2
  <2>5. OrgPart'
    BY <2>1, <2>4, OrgFrame
  <2>6. OperatorPart'
    BY <2>1, <2>2, <2>3 DEF OperatorPart, RoleAfterIdentity, HalfOperatorIsVisible, Exists, TypeOK
  <2> QED
    BY <2>5, <2>6
<1>9. ASSUME NEW u \in Users, GrantOperatorRole(u) PROVE OrgPart' /\ OperatorPart'
  <2>1. OrgPart' /\ UNCHANGED <<signedUp, provisioned>>
    BY <1>9, OrgFrame DEF GrantOperatorRole
  <2>2. /\ ostep[u] = "grant" /\ ostep' = [ostep EXCEPT ![u] = ostep'[u]]
        /\ members' \in {members, members \cup {u}}
        /\ \/ ostep'[u] = "registered" /\ u \in members'
           \/ ostep'[u] \in {"grant", "notGranted"}
    BY <1>9, GrantRoleMoves
  <2>3. OperatorPart'
    BY <2>1, <2>2 DEF OperatorPart, RoleAfterIdentity, HalfOperatorIsVisible, TypeOK
  <2> QED
    BY <2>1, <2>3
<1>10. ASSUME NEW o \in orgs, DeleteOrg(o) PROVE OrgPart' /\ OperatorPart'
  <2>1. OperatorPart'
    BY <1>10, OperatorFrame DEF DeleteOrg
  <2>2. orgs' \cup deleted' = orgs \cup deleted
    BY <1>10 DEF DeleteOrg
  <2>3. OrgPart'
    BY <1>10, <2>2 DEF DeleteOrg, OrgPart, RunHasOrg, GrantBeforeSet, AdminsOfRuns, CopyIsGranted,
                       OrgIsGranted, OneGrantPerRun
  <2> QED
    BY <2>1, <2>3
<1>11. ASSUME NEW a \in Consoles, UpdateIdentity(a) PROVE OrgPart' /\ OperatorPart'
  <2>1. OperatorPart' /\ UNCHANGED <<orgVars, runs, mine, step>>
    BY <1>11, OperatorFrame DEF UpdateIdentity
  <2>2. /\ editing[a] \in Users /\ copy[a] \in Identity
        /\ editing' = [editing EXCEPT ![a] = Nobody]
        /\ copy' = [copy EXCEPT ![a] = Blank]
    BY <1>11 DEF UpdateIdentity, TypeOK
  <2>3. RunHasOrg' /\ GrantBeforeSet' /\ AdminsOfRuns' /\ OneGrantPerRun'
    BY <2>1 DEF OrgPart, RunHasOrg, GrantBeforeSet, AdminsOfRuns, OneGrantPerRun
  <2>4. CopyIsGranted'
    BY <2>1, <2>2 DEF OrgPart, CopyIsGranted, TypeOK
  <2>5. \A v \in Users : \/ identity'[v].org = identity[v].org
                         \/ v = editing[a] /\ identity'[v].org = copy[a].org
    <3>1. identity \in [Users -> Identity]
      BY DEF TypeOK
    <3>2. \A b \in BOOLEAN :
            [identity EXCEPT ![editing[a]] = [copy[a] EXCEPT !.operator = b]][editing[a]].org
              = copy[a].org
      BY <3>1, <2>2, IdentityWrites
    <3> QED
      BY <1>11, <2>2, <3>1, <3>2 DEF UpdateIdentity
  <2>6. OrgIsGranted'
    BY <1>11, <2>1, <2>5 DEF UpdateIdentity, OrgPart, CopyIsGranted, AdminsOfRuns, OrgIsGranted
  <2> QED
    BY <2>1, <2>3, <2>4, <2>6 DEF OrgPart
<1>12. ASSUME NEW a \in Consoles, NEW u \in Users, LoadIdentity(a, u)
       PROVE  OrgPart' /\ OperatorPart'
  <2>1. OperatorPart' /\ UNCHANGED <<identity, orgVars, runs, mine, step>>
    BY <1>12, OperatorFrame DEF LoadIdentity
  <2>2. RunHasOrg' /\ GrantBeforeSet' /\ AdminsOfRuns' /\ OrgIsGranted' /\ OneGrantPerRun'
    BY <2>1 DEF OrgPart, RunHasOrg, GrantBeforeSet, AdminsOfRuns, OrgIsGranted, OneGrantPerRun
  <2>3. CopyIsGranted'
    BY <1>12, <2>1 DEF LoadIdentity, OrgPart, CopyIsGranted, OrgIsGranted, TypeOK
  <2> QED
    BY <2>1, <2>2, <2>3 DEF OrgPart
<1>13. CASE UNCHANGED vars
  BY <1>13, OrgFrame, OperatorFrame DEF vars
<1> QED
  BY <1>1, <1>2, <1>3, <1>4, <1>5, <1>6, <1>7, <1>8, <1>9, <1>10, <1>11, <1>12, <1>13
     DEF Next, RegisterUser, RegisterOperator

-----------------------------------------------------------------------------
(* The theorems *)

\* The invariant holds of every reachable state, for any set of users and any
\* number of runs, attempts and console sessions.
THEOREM RegistrationInvariant == Spec => []IInv
<1>1. Init => IInv
  BY TypeInit, RegInit DEF IInv
<1>2. IInv /\ [Next]_vars => IInv'
  BY TypeStep, RegStep DEF IInv
<1> QED
  BY <1>1, <1>2, PTL DEF Spec

\* Every variable keeps its type; that a tuple names an org needs the invariant.
THEOREM TypeCorrect == Spec => []TypeOK
<1>1. IInv => TypeOK
  BY DEF IInv
<1> QED
  BY <1>1, RegistrationInvariant, PTL

\* An identity only ever names an org its user was made admin of, lost updates
\* included.
THEOREM EdgeOrg == Spec => []OrgIsGranted
<1>1. IInv => OrgIsGranted
  BY DEF IInv, RegInv
<1> QED
  BY <1>1, RegistrationInvariant, PTL

\* A run grants one org, however many its retries created.
THEOREM OneGrant == Spec => []OneGrantPerRun
<1>1. IInv => OneGrantPerRun
  BY DEF IInv, RegInv
<1> QED
  BY <1>1, RegistrationInvariant, PTL

\* Nobody who signed up becomes an operator by RegisterOperator, and an operator
\* without the role has a run that says so.
THEOREM Operators == Spec => []OperatorsAreRegistered
<1>1. IInv => OperatorsAreRegistered
  BY DEF IInv, RegInv, RoleAfterIdentity, HalfOperatorIsVisible, OperatorsAreRegistered
<1> QED
  BY <1>1, RegistrationInvariant, PTL
=============================================================================
