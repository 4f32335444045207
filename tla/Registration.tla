---------------------------- MODULE Registration ----------------------------
(***************************************************************************)
(* How a person gets an organization and an operator gets a role: the      *)
(* webhook and RegisterUser workflow of the orgs service, the              *)
(* CreateOperator, UpdateIdentity handlers and RegisterOperator workflow   *)
(* of the authz service, and the three systems they write: the orgs        *)
(* database, OpenFGA, and the identity record in Kratos.                   *)
(*                                                                         *)
(* Kratos holds one identity per email address, so a user is named by one  *)
(* and the same name before and after the identity exists.  An attempt at  *)
(* creating an org mints an id of its own: the org minted by attempt n of  *)
(* run r of user u's workflow is named <<u, r, n>>.                        *)
(***************************************************************************)
EXTENDS Temporal

CONSTANTS
  Users,        \* the email addresses that may register
  Consoles,     \* back-office sessions that may edit an identity
  NoOrg,        \* an identity without metadata_public.org_id
  Nobody,       \* no user
  MaxRuns       \* bound: runs of the RegisterUser workflow of one user

ASSUME NobodyAssumption == Nobody \notin Users
ASSUME NoOrgAssumption == NoOrg \notin Users \X Nat \X Nat
ASSUME MaxRunsAssumption == MaxRuns \in Nat

VARIABLES
  signedUp,     \* Kratos: identities made by self-service registration
  provisioned,  \* Kratos: identities made through the admin API
  identity,     \* Kratos: the org and the operator trait of each identity
  orgs,         \* orgs database: org rows, each with its admin member
  deleted,      \* the orgs whose row an operator deleted
  admins,       \* OpenFGA: org:<id>#admin@user, for the org's own user
  members,      \* OpenFGA: group:operator#member
  step,         \* where the latest RegisterUser run of a user is
  tries,        \* its attempts at the current activity reported failed
  runs,         \* the runs started for a user
  mine,         \* the org the run works on, the result of its first activity
  ostep,        \* where the latest RegisterOperator run of an email is
  otries,       \* its attempts at the current activity reported failed
  editing,      \* the user whose identity a console request has read
  copy          \* what it read

kratosVars   == <<signedUp, provisioned, identity>>
orgVars      == <<orgs, deleted, admins>>
userVars     == <<step, tries, runs, mine>>
operatorVars == <<members, ostep, otries>>
consoleVars  == <<editing, copy>>
vars         == <<kratosVars, orgVars, userVars, operatorVars, consoleVars>>

-----------------------------------------------------------------------------
Orgs     == Users \X Nat \X Nat
Owner(o) == o[1]
Run(o)   == o[2]
Identity == [org : Orgs \cup {NoOrg}, operator : BOOLEAN]
Blank    == [org |-> NoOrg, operator |-> FALSE]
Exists   == signedUp \cup provisioned

Running == {"create", "grant", "read", "patch"}
GaveUp  == {"notCreated", "notGranted", "notSet"}

TypeOK ==
  /\ signedUp \subseteq Users
  /\ provisioned \subseteq Users
  /\ identity \in [Users -> Identity]
  /\ orgs \subseteq Orgs
  /\ deleted \subseteq Orgs
  /\ admins \subseteq Orgs
  /\ members \subseteq Users
  /\ step \in [Users -> {"none", "registered"} \cup Running \cup GaveUp]
  /\ tries \in [Users -> 0 .. MaxAttempts - 1]
  /\ runs \in [Users -> Nat]
  /\ mine \in [Users -> Orgs \cup {NoOrg}]
  /\ ostep \in [Users -> {"none", "create", "grant", "registered", "notCreated", "notGranted"}]
  /\ otries \in [Users -> 0 .. MaxAttempts - 1]
  /\ editing \in [Consoles -> Users \cup {Nobody}]
  /\ copy \in [Consoles -> Identity]

Init ==
  /\ signedUp = {} /\ provisioned = {}
  /\ identity = [u \in Users |-> Blank]
  /\ orgs = {} /\ deleted = {} /\ admins = {} /\ members = {}
  /\ step = [u \in Users |-> "none"]
  /\ tries = [u \in Users |-> 0]
  /\ runs = [u \in Users |-> 0]
  /\ mine = [u \in Users |-> NoOrg]
  /\ ostep = [u \in Users |-> "none"]
  /\ otries = [u \in Users |-> 0]
  /\ editing = [a \in Consoles |-> Nobody]
  /\ copy = [a \in Consoles |-> Blank]

-----------------------------------------------------------------------------
(* Signing up, and the webhook *)

SignUp(u) ==
  /\ u \notin Exists
  /\ signedUp' = signedUp \cup {u}
  /\ UNCHANGED <<provisioned, identity, orgVars, userVars, operatorVars, consoleVars>>

\* POST /identity-created starts workflow register-user-<id>: a run in progress
\* is joined, an ended one does not stand in the way of another.  It arrives
\* when Kratos, a retrying client or a seed script sends it, or never.
OnIdentityCreated(u) ==
  /\ u \in Exists
  /\ step[u] \notin Running
  /\ runs[u] < MaxRuns
  /\ step' = [step EXCEPT ![u] = "create"]
  /\ tries' = [tries EXCEPT ![u] = 0]
  /\ runs' = [runs EXCEPT ![u] = @ + 1]
  /\ mine' = [mine EXCEPT ![u] = NoOrg]
  /\ UNCHANGED <<kratosVars, orgVars, operatorVars, consoleVars>>

-----------------------------------------------------------------------------
(* The RegisterUser workflow: one action per attempt, two for the last one *)

\* Bug: an activity that runs out of attempts leaves its count to the next one.
AttemptKeepsCount(u, ok, here, next, giveUp) ==
  /\ step' = [step EXCEPT ![u] = StepAfter(ok, tries[u], here, next, giveUp)]
  /\ tries' = [tries EXCEPT ![u] = IF ok THEN 0 ELSE @ + 1]

Attempt(u, ok, here, next, giveUp) ==
  /\ step' = [step EXCEPT ![u] = StepAfter(ok, tries[u], here, next, giveUp)]
  /\ tries' = [tries EXCEPT ![u] = TriesAfter(ok, tries[u])]

Minted(u) == <<u, runs[u], tries[u] + 1>>

\* Bug: the tuple is written along with the row, in the same attempt.
CreateAndGrant(u) ==
  /\ step[u] = "create"
  /\ \E out \in Outcomes :
       /\ orgs' = IF TakesEffect(out) THEN orgs \cup {Minted(u)} ELSE orgs
       /\ admins' = IF TakesEffect(out) THEN admins \cup {Minted(u)} ELSE admins
       /\ mine' = IF Reported(out) THEN [mine EXCEPT ![u] = Minted(u)] ELSE mine
       /\ Attempt(u, Reported(out), "create", "grant", "notCreated")
  /\ UNCHANGED <<kratosVars, deleted, runs, operatorVars, consoleVars>>

\* Mint an id, insert the org and its admin member in one transaction.
CreatePersonalOrg(u) ==
  /\ step[u] = "create"
  /\ \E out \in Outcomes :
       /\ orgs' = IF TakesEffect(out) THEN orgs \cup {Minted(u)} ELSE orgs
       /\ mine' = IF Reported(out) THEN [mine EXCEPT ![u] = Minted(u)] ELSE mine
       /\ Attempt(u, Reported(out), "create", "grant", "notCreated")
  /\ UNCHANGED <<kratosVars, deleted, admins, runs, operatorVars, consoleVars>>

\* Bugs: a grant that failed does not stop the workflow; it is retried without
\* a limit.
GrantThen(u, giveUp) ==
  /\ step[u] = "grant"
  /\ \E ok \in BOOLEAN :
       /\ admins' = IF ok THEN admins \cup {mine[u]} ELSE admins
       /\ Attempt(u, ok, "grant", "read", giveUp)
  /\ UNCHANGED <<kratosVars, orgs, deleted, runs, mine, operatorVars, consoleVars>>
GrantIgnored(u) == GrantThen(u, "read")
GrantForever(u) == GrantThen(u, "grant")

GrantOrgAdmin(u) ==
  /\ step[u] = "grant"
  /\ \E out \in Outcomes :
       /\ admins' = IF TakesEffect(out) THEN admins \cup {mine[u]} ELSE admins
       /\ Attempt(u, Reported(out), "grant", "read", "notGranted")
  /\ UNCHANGED <<kratosVars, orgs, deleted, runs, mine, operatorVars, consoleVars>>

\* SetIdentityOrg reads the identity; there is nothing to do when it already
\* names the org.
ReadIdentity(u) ==
  /\ step[u] = "read"
  /\ \/ Attempt(u, FALSE, "read", "patch", "notSet")
     \/ identity[u].org = mine[u] /\ Attempt(u, TRUE, "read", "registered", "notSet")
     \/ /\ identity[u].org # mine[u]
        /\ step' = [step EXCEPT ![u] = "patch"]
        /\ UNCHANGED tries
  /\ UNCHANGED <<kratosVars, orgVars, runs, mine, operatorVars, consoleVars>>

\* It then replaces metadata_public, and no other part of the record.
PatchIdentity(u) ==
  /\ step[u] = "patch"
  /\ \E out \in Outcomes :
       /\ identity' = IF TakesEffect(out) THEN [identity EXCEPT ![u].org = mine[u]] ELSE identity
       /\ Attempt(u, Reported(out), "read", "registered", "notSet")
  /\ UNCHANGED <<signedUp, provisioned, orgVars, runs, mine, operatorVars, consoleVars>>

\* An operator may delete any org.  Its members go with it; its tuple and the
\* identities that name it stay.
DeleteOrg(o) ==
  /\ o \in orgs
  /\ orgs' = orgs \ {o}
  /\ deleted' = deleted \cup {o}
  /\ UNCHANGED <<kratosVars, admins, userVars, operatorVars, consoleVars>>

-----------------------------------------------------------------------------
(* POST /operators and the RegisterOperator workflow *)

\* Starts workflow register-operator-<email>; a repeated submission joins the
\* run in progress, and after it ended starts another.
CreateOperator(u) ==
  /\ ostep[u] \notin {"create", "grant"}
  /\ ostep' = [ostep EXCEPT ![u] = "create"]
  /\ otries' = [otries EXCEPT ![u] = 0]
  /\ UNCHANGED <<kratosVars, orgVars, userVars, members, consoleVars>>

OperatorAttempt(u, ok, next, giveUp) ==
  /\ ostep' = [ostep EXCEPT ![u] = StepAfter(ok, otries[u], ostep[u], next, giveUp)]
  /\ otries' = [otries EXCEPT ![u] = TriesAfter(ok, otries[u])]

\* Bug: a conflict on the email is taken for an earlier attempt's success.
CreateOrAdopt(u) ==
  /\ ostep[u] = "create"
  /\ \E out \in Outcomes :
       /\ provisioned' = IF TakesEffect(out) /\ u \notin Exists
                           THEN provisioned \cup {u} ELSE provisioned
       /\ identity' = IF TakesEffect(out) /\ u \notin Exists
                        THEN [identity EXCEPT ![u].operator = TRUE] ELSE identity
       /\ OperatorAttempt(u, Reported(out), "grant", "notCreated")
  /\ UNCHANGED <<signedUp, orgVars, userVars, members, consoleVars>>

\* Kratos refuses a second identity of an email, whoever made the first one.
CreateOperatorIdentity(u) ==
  /\ ostep[u] = "create"
  /\ \E out \in Outcomes :
       /\ TakesEffect(out) => u \notin Exists
       /\ provisioned' = IF TakesEffect(out) THEN provisioned \cup {u} ELSE provisioned
       /\ identity' = IF TakesEffect(out) THEN [identity EXCEPT ![u].operator = TRUE] ELSE identity
       /\ OperatorAttempt(u, Reported(out), "grant", "notCreated")
  /\ UNCHANGED <<signedUp, orgVars, userVars, members, consoleVars>>

GrantOperatorRole(u) ==
  /\ ostep[u] = "grant"
  /\ \E out \in Outcomes :
       /\ members' = IF TakesEffect(out) THEN members \cup {u} ELSE members
       /\ OperatorAttempt(u, Reported(out), "registered", "notGranted")
  /\ UNCHANGED <<kratosVars, orgVars, userVars, consoleVars>>

-----------------------------------------------------------------------------
(* PUT /identities/{id} *)

\* The handler reads the whole identity,
LoadIdentity(a, u) ==
  /\ editing[a] = Nobody
  /\ u \in Exists
  /\ editing' = [editing EXCEPT ![a] = u]
  /\ copy' = [copy EXCEPT ![a] = identity[u]]
  /\ UNCHANGED <<kratosVars, orgVars, userVars, operatorVars>>

\* overlays the operator trait if the request names it, and writes the whole of it
\* back.  The request may end without that.
UpdateIdentity(a) ==
  /\ editing[a] # Nobody
  /\ \/ UNCHANGED identity
     \/ \E operator \in BOOLEAN :
          identity' = [identity EXCEPT ![editing[a]] = [copy[a] EXCEPT !.operator = operator]]
  /\ editing' = [editing EXCEPT ![a] = Nobody]
  /\ copy' = [copy EXCEPT ![a] = Blank]
  /\ UNCHANGED <<signedUp, provisioned, orgVars, userVars, operatorVars>>

-----------------------------------------------------------------------------
RegisterUser(u) ==
  CreatePersonalOrg(u) \/ GrantOrgAdmin(u) \/ ReadIdentity(u) \/ PatchIdentity(u)

RegisterOperator(u) == CreateOperatorIdentity(u) \/ GrantOperatorRole(u)

Next ==
  \/ \E u \in Users : SignUp(u) \/ OnIdentityCreated(u) \/ CreateOperator(u)
  \/ \E u \in Users : RegisterUser(u) \/ RegisterOperator(u)
  \/ \E o \in orgs : DeleteOrg(o)
  \/ \E a \in Consoles : UpdateIdentity(a) \/ \E u \in Users : LoadIdentity(a, u)

Spec == Init /\ [][Next]_vars

\* Temporal keeps dispatching the next attempt of an open workflow and bounds
\* each attempt by its timeout.
Fairness == \A u \in Users : WF_vars(RegisterUser(u))

FairSpec == Spec /\ Fairness

-----------------------------------------------------------------------------
(* Properties *)

\* The org the edge reads out of an identity is one of the user's own, of which
\* the user is admin in OpenFGA, and whose row exists unless an operator deleted
\* it: RegisterUser records an org on the identity last, and an identity put
\* back from an old copy names an org that got that far before.
OrgIsGranted ==
  \A u \in Users : LET o == identity[u].org IN
    o # NoOrg => Owner(o) = u /\ o \in admins /\ o \in orgs \cup deleted

\* However many orgs the retries of one run leave behind, its user is made
\* admin of one.
OneGrantPerRun ==
  \A o, p \in admins : Owner(o) = Owner(p) /\ Run(o) = Run(p) => o = p

\* Registering an operator under the email of somebody who signed up fails: it
\* does not make that user an operator.  And "a grant failure fails the run
\* rather than leaving a half-registered operator" (register_operator_test.go):
\* whenever the identity is there and the role is not, the run that ended says so.
OperatorsAreRegistered ==
  /\ signedUp \cap members = {}
  /\ \A u \in provisioned \ members : ostep[u] # "registered"

\* A started registration gives the identity its org, or fails with an activity
\* out of attempts.
RegistrationResolves ==
  \A u \in Users : step[u] = "create" ~> (identity[u].org # NoOrg \/ step[u] \in GaveUp)

-----------------------------------------------------------------------------
(* What comments of the repository say, and the code does not do *)

\* "metadata_public, which this service never edits and must not erase"
\* (kratos/admin.go): an identity that has its org does not lose it.
OrgKept ==
  [][\A u \in Users : identity[u].org # NoOrg => identity'[u].org # NoOrg]_vars
=============================================================================
