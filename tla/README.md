# TLA+ models of the services

This directory holds formal models of the backend of this monorepo: the two
sagas in which money moves (orders and payment), the registration of users
and operators (orgs and authz), how every service comes to one OpenFGA store
(libs/go/authz and the seed Job), the events and funnels of analytics with the
workflow of platform that rolls them up, the money and id libraries, the
properties that make them correct, the TLC runs that check these on small
instances, and theorems that TLAPS proves for every instance. The models are translated from the code;
`PROJECT.json` names, definition by definition, the lines each one stands for.

## 1. The system

The repository is a template for a set of Go services around a Temporal
cluster, each with a PostgreSQL database of its own, OpenFGA for
relationship-based authorization and Ory Kratos for identities. A service
never writes to another's database. What crosses a service boundary is an HTTP
call, a Temporal workflow or an OpenFGA tuple.

| Part | State it keeps | Operations | Interacts with | Correct when |
|---|---|---|---|---|
| **orders** | `orders` rows (status, total, unique idempotency key); order tuples in OpenFGA; the `Checkout` and `CancelOrder` workflows | POST /orders, POST /orders/{id}/cancel, the two reads, five activities | catalog (price), payment (charge), OpenFGA (who reads the order), the client that polls | one order per key is charged, only for what it shows and only when its buyer can read it; polling ends |
| **payment** | `charges` rows (status, unique idempotency key); charge tuples; the `Charge` and `Refund` workflows; what the processor took and returned | POST /charges, POST /charges/{id}/refund, three activities and two processor calls | orders (caller), the processor (a placeholder in the code), OpenFGA | the money of one key is taken once, statuses tell the truth about it |
| **catalog** | `products` rows | create, update, delete, get, list | orders reads the price | single statements behind an operator check; an order is charged the price it read, whatever becomes of the product |
| **orgs** | `orgs`, `org_members`; the `RegisterUser` workflow | the Kratos registration webhook, three activities | Kratos admin API (the identity's metadata), OpenFGA | one personal org per identity, readable by its user, whatever is redelivered |
| **authz** | none of its own (Kratos identities, OpenFGA tuples) | Authorize (edge decision), identity read and update, `RegisterOperator` | every request at the edge | the documented decision table; no lost update of an identity |
| **analytics** | `events`, `consents`, `funnel_rollup` | record events and consent, count a funnel bucket and replace its rows | platform (the schedule), Kratos sessions | nothing stored of a batch that comes without a grant; counts equal the definition of the funnel |
| **platform** | none of its own | `FunnelRollup`, `EraseSubject`, retention, `RestoreVerification` workflows and schedules; the activities of all but the first are stubs | analytics (the rollup endpoint), every service's store | a rollup run ends and reports the funnels that failed |
| **libs/go** `authz`, `money`, `id`, `temporalmw`, `authmw`, `apierr`, `observability` | the pinned OpenFGA store id and its mutex; otherwise pure | Grant and Allowed, discovery of the store; money arithmetic and splitting; id codec | every service; OpenFGA, filled by the seed Job | all clients ask one store, a failed discovery is not remembered, no call is left waiting; no minor unit lost or made |
| **frontend** | none | `pollWorkflow` and rendering | the `result_url` of a handle | a poll stops at a terminal status |
| **infra, generated SDKs, tools, docs** | – | – | – | not modelled |

### What is hard about it

Nothing here is a hard algorithm; what is hard is that every step can fail
after it took effect.

* A handler answers *before* the work is done: the 202 carries a handle, the row
  is inserted later by a worker (orders) or was inserted just before (payment).
  Between the two, retries of the same request arrive.
* Temporal retries an activity whose answer was lost, so each activity may run
  again after it took effect; and when it is out of attempts the workflow goes on
  as if it had not taken effect.
* An attempt that times out does not stop the request it sent.
* A check of a status and the workflow that acts on it are separate steps, and
  a closed workflow id may be started again.
* Two systems are written for one fact (row and tuple): the dual write.
* No service is told which OpenFGA store to use: clients look for it by name,
  each at a time of its own, while a Job that may die or run again creates it.

The hazards are listed at their lines, with the properties that watch over
each, in `PROJECT.json` under `hazards`.

## 2. Modules

| Module | What it is |
|---|---|
| `Temporal` | What the services rely on from Temporal (external): the outcomes of an attempt (`done`, `failed`, `lost` = took effect and reported failed), and counting attempts against `MaximumAttempts`. |
| `OncePerKey` | The abstract specification of both sagas: under one key one item is placed, its money is taken at most once, it is decided once, and its status shows the decision unless an operator undoes it. |
| `Checkout` | orders: `POST /orders`, the `Checkout` workflow, `POST /orders/{id}/cancel`, the `CancelOrder` workflow; the orders table, the order tuples, the amount charged. catalog: `POST`, `PUT` and `DELETE /products`. |
| `Payment` | payment: `POST /charges`, the `Charge` workflow, `POST /charges/{id}/refund`, the `Refund` workflow; the charges table, the charge tuple, the processor. |
| `OrderPayment` | The two composed: `Charge` of `Checkout`, one step there, becomes a request that payment serves by the actions of `Payment`, and an attempt that may end before its request does. `ChargeIsOneStep` says that it implements `Checkout`. |
| `OneStore` | The abstract specification of authorization, as its callers see it: one set of tuples that appears once and grows by the seed and by grants; checks are answered from it. |
| `AuthzStore` | libs/go/authz and the seed Job: `Allowed`, `Grant`, `ensureStore` with its mutex, the Job's container; the stores, models and tuples of OpenFGA. |
| `Registration` | orgs and authz over one identity record: the registration webhook and the `RegisterUser` workflow, `DELETE /orgs/{id}`, `POST /operators` and the `RegisterOperator` workflow, `PUT /identities/{id}`; the orgs table, the tuples, the identity in Kratos. |
| `Rollup` | analytics, the pure part: the day buckets of a window, the query for first occurrences, `Count`; and what a funnel's counts are by definition (`Traversals`). |
| `Analytics` | analytics and the `FunnelRollup` workflow of platform: `PUT /consent`, `POST /events`, `POST /funnels/{id}/rollup` and the run that calls it funnel by funnel; the tables of events, consent and `funnel_rollup`. |
| `Positional` | Numbers in positional notation, which both libraries write: Horner's rule, the digits of a number. |
| `Money` | libs/go/money: decimal text, rounding, rates, division and split, as operators; the definitions of a rounded quotient and of a fair split. |
| `TypeId` | libs/go/id: the prefix check, the codec and both parsers, for an encoding of any width. |
| `Libraries` | `Money` and `TypeId` asked about one input, and what they are to compute of it. |
| `MCCheckout`, `MCPayment`, `MCOrderPayment`, `MCRegistration`, `MCAuthzStore`, `MCAnalytics`, `MCLibraries` | The instances TLC checks. `MCLibraries` is the bounded set of inputs of `Libraries`; it and `MCAnalytics` also have TLC evaluate an `ASSUME` about operators, which no proof uses. |
| `OncePerKeyProofs`, `CheckoutProofs`, `PaymentProofs`, `OrderPaymentProofs`, `RegistrationProofs`, `AuthzStoreProofs`, `AnalyticsProofs`, `LibrariesProofs` | The theorems. |

### How the state corresponds to the code

An order id is minted by the handler that starts a workflow
(`handlers.go:143`), and never twice. So the order that call `c` would mint is
named `c`, and every per-order variable is a function over `Calls`. In
`Checkout`:

| Variable | In the code |
|---|---|
| `at`, `handle` | how far `Handlers.Checkout` got with a request: before its lookup, after a lookup that found nothing, answered (with which order), ended with an error |
| `step`, `tries` | the activity the `Checkout` workflow is at, or how it closed; the attempts already failed there |
| `due` | the workflow's local `total` |
| `status`, `total` | the columns of the `orders` row; `absent` is no row |
| `tuples` | OpenFGA: the owner and org tuples of orders |
| `price` | catalog: the price of a product, `Unminted` before it is created, `Gone` after it was deleted (an id is minted once, so it does not come back) |
| `charge` | payment, as seen from orders: the amount held under this order's key |
| `cancelling`, `cstep`, `ctries` | a `CancelOrder` request between its check and its start; the workflow it starts |

Each action is one request check, one start of a workflow, or one attempt at an
activity with everything it does; inside an attempt the outcome `lost` stands
for the write that was committed while the attempt was reported failed. A
workflow that closes in error is at `notCreated`, `notGranted`, `notConfirmed`
or `notFailed`, the activity whose attempts ran out. The workflow ignores the
result of the mark on its failure path (`_ =` at `checkout.go:78`, `:86`,
`:93`), hence `Fail` then only differs in whether the row was marked.

`Payment` is built alike: its handler inserts the row and then starts the
workflow, two actions `InsertCharge` and `StartCharge`, since the process may
die between them. `captured` and `returned` are what the processor was made to
do. The code has a placeholder there, which the processor's contract in
ADR-0302 fills in: a request is deduplicated by its workflow run, so attempts of
one run count once and two runs of `Refund` count twice.

`OrderPayment` names the request that attempt `n` at the charge of order `c`
sends `<<c, n>>` and instantiates `Payment` with these as its calls, the order
id as their key. `Request` sends, the `Serve*` actions are the payment handler
at work on that request at any later time, and `Respond` ends the attempt: well
only if payment has answered 202, in error at any time. Requests may therefore
take effect after the next attempt, or after the saga failed the order. The
cancel side of orders never touches payment and is left to `Checkout`.

To read the composition as the orders service alone, `Saga` takes for the amount
charged what the saga knows of: `due` once it is past the charge. With that,
`Respond` is `Checkout`'s one-step `Charge`, an attempt that ends well or fails,
and everything payment does is a stutter. The money itself, which may be taken
late or for a saga that failed, is in `OneChargePerOrder`, `CapturedForOrder` and
`KeepsPromise`, which speak of payment's rows.

`Registration` has no ids that a caller chooses. Kratos holds one identity per
email address, so an email names the user before and after the identity
exists. An org id is minted by each *attempt* at `CreatePersonalOrgActivity`
(`register.go:59`), so the org of attempt `n` in run `r` of user `u` is named
`<<u, r, n>>`: that is what lets a lost answer leave an org behind. Of the
identity record only what two services write survives: `metadata_public.org_id`
and the operator trait. `RegisterUser` patches the first after reading it
(`ReadIdentity`, `PatchIdentity`), `UpdateIdentity` reads the record
(`LoadIdentity`) and puts all of it back; each is two steps, as other requests
may come between. The webhook is delivered by Kratos, a client that retries or
the seed scripts, any time an identity exists and no run is in progress, up to
`MaxRuns` times; or never.

`Analytics` names what the code leaves nameless. Event ids are minted per insert,
so the *i*-th event of send *n* of batch *b* is `<<b, n, i>>`, which is what lets
a batch that is sent again be stored again. The request that attempt *n* makes
for the *k*-th funnel of a run is the pass `<<k, n>>`: it has its own `phase`,
`day`, `wrote` and `counts` (the locals of `ComputeFunnelRollup` and
`rollupBucket`), and goes on after its attempt ended. The read of a bucket and
each upsert of a step are actions of their own, as nothing in the code holds
them together. `Cells` is the primary key of `funnel_rollup`; a row remembers
the pass that wrote it (`by`), which the table does not, and `truth` and `permitted`
are history, read by properties alone. A batch is not sent again while a send of it
is being stored: two sends that overlap are two batches. `Call` and `Return` are one attempt of
`ComputeFunnelRollupActivity`. That a pass goes on without a caller is an
over-approximation: the handler stops at the next statement after it noticed
that the caller is gone, which here is one of the ways a pass may stop.

`AuthzStore` counts the stores of the name `platform`: store 1 is the oldest, the
one with the smallest id, which is the order OpenFGA lists them in. Per client it
has what the Go struct has, the pinned id and the holder of the mutex; per call
where it is. `Acquire` and `Discover` are `ensureStore`: with a store pinned the
mutex is given back at once, without one it is held while the stores are listed.
`Restart` is the process that dies; its calls fail and its clients forget. The
seed is one container at a time (`run` counts them), with the shell's variables
`sid` and what it wrote. Two facts of its script decide what it can do. It has no
`pipefail` and its `curl` no `-f`, so a list that failed is an empty one, and the run
creates another store; and it does not look at whether the model was written,
only each tuple must be. `Exists`, `Granted` and `Answer` are what a caller can tell
apart, and the variables of `OneStore`. `Call`, `Ops` and `Tuples` are the requests and the tuples of
`values.yaml`.

`Money`, `TypeId` and `Rollup` have no state; that of `Libraries` is the input it was asked about. An amount is a record of minor units and
currency, a decimal text a record of its sign, its whole part and its sequence of
fraction digits, an id a sequence of bits. What is left out of them is said in
section 5.

## 3. Runs

| Run | Instance | What it shows |
|---|---|---|
| `checkout` | two sends of one purchase; prices 0, 1, 3 at a quantity of 2 with a largest total of 4; the product created, repriced or deleted at any time; one operator; two attempts | the invariants of the saga, `StatusHistory`, `PollResolves`, and that it refines `OncePerKey` |
| `payment` | three sends of one charge; two operators; three attempts; two refund runs | one charge per key, captures and refunds covered, `ChargeResolves`, and the refinement of `OncePerKey` |
| `orderpayment` | one order, two attempts and so two requests; prices 0 and 1; one operator who refunds | one charge row per order however late requests are served; money only for readable orders; a saga ends when payment hangs; the composition refines `Checkout`, whose charge is one step, and `OncePerKey` |
| `registration` | one email, that signs up or is provisioned; two runs of its workflow; one console; two attempts | the org at the edge is granted, one grant per run, who may become an operator, and that a registration ends |
| `authzstore` | a server with two calls on one client, a worker that grants what they ask about; three runs of the seed | no answer contradicts another, a seed that completed where clients ask has let its users in, callers see one set of tuples (it refines `OneStore`), nothing is left waiting for the mutex |
| `analytics` | one session, one batch of two events sent twice; a funnel of two steps and an unknown one; a window of two days; two attempts; `Count` on every table of four events (below) | nothing stored of a send that came without a grant, answers that are true, buckets that are exact, failed funnels that are reported, and that a run ends when a pass hangs |
| `libraries` | every input of a bounded set (below) | rounding, splitting and decimal text of money; ids and wire forms determine each other |
| `checkout_retry` | as `checkout` | *violated*: a retry is answered with the first order |
| `checkout_cancel` | as `checkout` | *violated*: `cancelled` is terminal |
| `payment_orphan` | as `payment` | *violated*: a handle names a workflow |
| `payment_refund` | as `payment` | *violated*: only settled charges are refunded |
| `registration_unassigned` | as `registration` | *violated*: an identity keeps the org it was given |

The violated ones are statements of comments and contracts that the code does
not keep; `PROJECT.json` quotes them under `findings`:

* **A retry may get another order.** `Checkout` looks the key up in the table and
  the worker writes the row; a retry between the 202 and the insert is given a
  second order id, whose saga then dies on the unique index. It is never charged
  (`ChargedOncePerKey`, proved; `KeepsPromise` of the run implies it), but its client polls an order that never comes.
* **A cancellation is overwritten** by the saga's own mark, because the update
  does not look at the status it replaces.
* **A charge is orphaned** when the start after the insert fails: each retry finds
  the row and is told that a workflow is running.
* **A charge is refunded twice** when two requests read `settled` and the second
  starts after the first run closed.
* **An identity loses its org** when an edit in the back office read it before
  `RegisterUser` patched it and puts it back afterwards. The org it may be given
  back that way is always one that was granted (`OrgIsGranted`, proved).

Six more things the code leaves open, five of them against a statement of the repository.
They have no run of their own: the behaviour given is one of the module named, and
what holds in its place is checked or proved.

* **A confirmed order may not be paid** (`OrderPayment`). `workflows/checkout.go:8` says of the
  charge "we poll the returned handle", and line 19 "If charge fails, we mark the
  order failed". The code takes payment's 202 for the charge: `Request`, `ServeLookup`,
  `ServeInsert`, `ServeStart`, `Respond`, `Confirm`, and the order is confirmed over a pending
  charge, which then runs out of attempts at the processor and is failed, or at its
  grant and stays pending (`status[c] = "confirmed" => pstatus[r] # "failed"` is refuted in 16 steps). Even a retry
  that finds a failed row is answered 202. What holds is that the money, if taken, is
  the order's total (`OneChargePerOrder`, `CapturedForOrder`).
* **There may be two stores** (`AuthzStore`). `seed.yaml:77` says "Ensure exactly one store named
  `platform`", and `authz.go:168` that the Job "creates exactly one store". A list
  that failed counts as empty: a run creates store 1 and dies, the next cannot list it,
  creates store 2, fills that and is complete, and nobody asks it
  (`seed = "complete" => sid = Oldest` is refuted in 9 steps). What holds is that
  clients keep to the oldest (`AnswersAreTrue`, `AsOneStore`), so they are not misled, and that
  a run that completes there has let its users in (`SeededIsAllowed`, whose
  precondition leaves the other runs out). A run does not look whether its model was
  written either, and completes under that of an earlier one.
* **A withdrawal may come too late** (`Analytics`). ADR-0700 says at line 158 that "a withdrawn
  visitor's in-flight event is dropped server-side", and `handlers.go:31` that
  withdrawing stops emission. `RecordEvents` reads the consent once: `RecordConsent` (granted),
  `CheckConsent`, `RecordConsent` (withdrawn), `InsertEvent`, and the rest of the
  batch is stored (`[][events' # events => consent[s] = "granted"]_vars` is refuted in 4 steps). What holds is
  that only a send under way at the withdrawal does so: `StoredWasPermitted`.
* **A funnel's bucket may be torn** (`Analytics`). An attempt at a rollup that was given up may still
  write: the older pass puts its count over the first step of the newer one and
  stops, and the funnel widens from one step to the next, until a later pass writes the
  bucket. What one pass wrote is exact (`BucketIsExact`) and narrows (`CountsNarrow`).
* **A user may be given a second org** (`Registration`). `handlers.go:81` of orgs says that "a duplicate
  webhook delivery is a no-op". It is while the first run is open; after it closed
  a new run inserts another org, grants it and moves the identity to it. A repeated
  first activity leaves an org with its member row and no tuple. What holds is that
  a run grants one org (`OneGrantPerRun`) and an identity names a granted one (`OrgIsGranted`).
* **A dual write may half-apply** (`Checkout`). `workflows/checkout.go:13` says that the pair of row and
  tuples cannot; when the grant is out of attempts, a pending row is left that nobody may
  read. What holds is that no order is charged, confirmed or failed in that state
  (`DecidedOrderHolds`, `PendingOnlyIfGaveUp`).

### Bounds

* *Calls.* Every property relates two requests or two orders at most, so two
  sends of one key show each violation, and the theorems do away with the bound.
  `payment` has three, as there are three attempts at a charge.
* *Attempts.* With two attempts each activity can succeed at first, succeed on a
  repeat, have a first attempt that took effect unnoticed, and run out. The
  code's three (`MaximumAttempts: 3`) add repetitions; `payment` runs with three.
* *Prices.* Times the quantity they give a total of zero (payment refuses it),
  one that fits, and one the column cannot hold; the product may also be deleted.
  `orderpayment` leaves out the one that does not fit, which ends before payment.
* *Seed runs* (`authzstore`). Three are one that dies early, one that creates a second
  store, and one that completes over what they left. Two calls on one client meet
  at its mutex, a third on another client grants. The theorems do away with the bounds.
* *`MaxRefundRuns`.* Bounds the refunds of one charge. Two are what the double
  refund needs; in `orderpayment`, where refunds only are the background, one.
* *Users* (`registration`). No action relates the records of two users, so one is
  enough; one console is, too, as two edits in a row are two of its requests.
* *`MaxRuns`.* Two runs of `RegisterUser` show what the second does to the
  first's org; the theorems hold for any number.
* *Analytics.* The batch holds the later step first and both events at one instant,
  on the midnight between the two days of the window: order of storage, ties and
  the half-open border in one. Two sends and two attempts are what two copies
  of an event and two passes over a bucket need. For a second session, a third
  step and a fourth event the run evaluates `Count` alone: `CountAssumption` compares
  it with the definition of a funnel on every table of up to four events of two
  sessions, three names and three instants. The theorems do away with all of
  these bounds (`CountIsExact`, `BucketsAreExact`).
* *Libraries.* Dividends of -9 to 9 and divisors of -4 to 4 have all remainders, ties
  and signs. Texts have up to four fraction digits at a scale of 2 and a rate
  scale of 3, so digits are kept, padded and refused. Ids have 5 bits in 3 characters of 2 bits:
  as in the code's 128 in 26, the first character has a bit too many, which is
  what a text out of range needs. Prefixes have up to three characters of two
  letters and the separator. The theorems do away with all of these bounds.
* No symmetry is used: the runs check liveness properties.
* Deadlock is not checked for `payment`, `checkout` and `orderpayment`, where everything
  may be answered and done (the product deleted), and for `libraries`, which ends when
  an input is picked. That no workflow stops early there is what `PollResolves`,
  `ChargeResolves` and `SagaEnds` say. Elsewhere a session can always decide again about
  its consent, an identity can always be edited, and a process can always restart.

### Fairness

But for `AuthzStore`, `FairSpec` assumes weak fairness of the workflows only, one
condition per workflow. Temporal persists a workflow and dispatches its next attempt until it
closes, and each attempt ends because `StartToCloseTimeout` ends it
(`checkout.go:55`, `charge.go:32`). No client, operator, HTTP handler or
cancellation is assumed to do anything. In `orderpayment` the payment side has
no fairness towards orders: requests may be served never. In `analytics` only
`FunnelRollup` is fair, and a pass may hang for ever.

In `AuthzStore` it is the calls that are fair: a goroutine that waits for a free
mutex gets it (Go's `sync.Mutex` does not starve a waiter), and a request to OpenFGA ends,
by its answer, an error or the end of the call's context. The seed and restarts are not.

Weak fairness suffices. An open workflow stays enabled until its own step, and
its error outcome is always possible; nothing is claimed about success.

## 4. What is proved

All proofs are checked by TLAPS from nothing. They assume what the modules
assume of their constants: bodies of requests have their fields, quantities and
prices are naturals, `MaxAttempts` is at least one, `Nobody` is no call and no
request, the seed has a tuple to write, the first character of an id carries no more
bits than the others. Sets of calls, operators, products, prices and inputs are
arbitrary, and may be infinite.

**Checkout** (`CheckoutProofs`). None of the safety properties is inductive. Why
is money taken only for readable orders? Because the charge comes after the
grant, and the grant is only left when both tuples are there, and no step
takes a tuple away. The inductive invariant `SagaInv` says this for each point
of the saga: what has been done when the workflow is there.
`RowBeforeGrant` (past `create`, a row), `GrantBeforePrice` (past `grant`, both
tuples), `TotalBeforeCharge`, `ChargeIsTotal` (a charge is only found at or
after the charge step and equals the total), `PaidWasCharged`, `StatusAtStep`
(which marks a row can carry where), `OneRowPerKey` (the unique index),
`HandleHoldsKey`, and `NotStarted` for ids no handler has used. From it:

* `TypeCorrect`, `SagaInvariant`;
* `ChargeMatches`: money only for an existing readable order, and its exact total;
* `ChargedOnce`: one order per Idempotency-Key is charged, at most (proved only);
* `DecidedOrders`: confirmed and failed orders are readable, confirmed ones charged;
* `PendingGaveUp`: which failures can leave an order pending;
* `Replays`: retries answered from the table agree (proved only; a corollary of
  `OneRowPerKey` and `HandleHoldsKey`);
* `Statuses`: `StatusHistory`, an action property;
* `Implements`: `Spec => KeepsPromise`, the refinement of `OncePerKey`.

**Payment** (`PaymentProofs`). The same shape, `ChargeInv`: the row precedes the
start, the tuple precedes the capture, the capture precedes the settled mark
and that precedes a refund, which is why `returned` is covered. From it
`TypeCorrect`, `ChargeInvariant`, `SameCharge`, `CapturedOnce`, `Covered`,
`Statuses` and `Implements`.

**OncePerKey** (`OncePerKeyProofs`). `AbstractOnce`: the abstract specification
takes the effect of a key once. With the two `Implements` it is a second route to
`ChargedOnce` and `CapturedOnce` that knows no handler and no retry.

**OrderPayment** (`OrderPaymentProofs`). Nothing of the two services is proved again: the
invariant `JInv` takes that of `CheckoutProofs` for `Saga` and that of `PaymentProofs` for
`P`, whose lemmas say that their steps keep them, and adds what ties the two
together. A request is sent by the charge step, where the total was recorded and
stays (`SentOnly`, `SentAfterTotal`); it is served further than its lookup only with a positive
amount (`ServedIsPositive`); the amount charged under an order is that of its row,
which the unique index keeps to one (`ChargeIsRow`); and a saga past the charge was
accepted by a request that has its row (`AcceptedHasRow`). With these every step of the
composition is a step of `Checkout` or hidden from it, which gives the
invariant of the saga and `Refines` (`ChargeIsOneStep`) at once. From `JInv` come
`JointTypeCorrect`, `OneCharge`, `Captured`, and `JointImplements`
(`KeepsPromise`: the row of a charge may appear after the saga moved on, and still only
for an order that was placed).

**Registration** (`RegistrationProofs`). `OrgIsGranted` speaks of the identity, but
an identity is written from two places: by the run, with the org it works on,
and by a console, with what it read some time ago. So `RegInv` says of a run
that its org was inserted from the first activity on (`RunHasOrg`) and granted
past the second (`GrantBeforeSet`), and of each copy in flight that the org in it
was granted (`CopyIsGranted`); orgs are deleted, tuples never are. `AdminsOfRuns`
(the tuple of a user's latest run is for that run's org) gives one grant per run,
and `RoleAfterIdentity` (the role goes to identities the workflow made, which
are not those that signed up) keeps the two populations apart. From it
`TypeCorrect`, `RegistrationInvariant`, `EdgeOrg`, `OneGrant`, `Operators`.

**AuthzStore** (`AuthzStoreProofs`). A completed run says nothing by itself about a
store, so `StoreInv` follows the run: it has a store of its own or the oldest
(`SeedHasStore`, `OneStorePerRun`), and what it counted as written is in that store
under a model (`WrittenIsThere`, `CompleteIsAll`). For the clients, whichever looked
whenever, there is one store to pin (`PinnedIsOldest`), tuples stay, and so what
was acknowledged is there for all (`GrantedIsThere`). From it `StoreInvariant`,
`TypeCorrect`, `Seeded`, `Answers`. `Implements` (`AsOneStore`) needs one fact more, that a
store has no tuples before it is there (`Fresh`): then the first store appears to callers
as the empty set `OneStore` starts from, every later one is a stutter, and so is a tuple the seed
writes to one of these. `OnlyGranted` is proved of `OneStore` and holds of the
clients by the refinement: nobody is allowed what neither the seed nor a call granted.

**Analytics** (`AnalyticsProofs`), in two parts. *Counting*: `Count` compares each
step of a session with the one before it, the definition of a traversal any two
of them. `ReachedIsTraversed` shows that they agree: where a pair of steps is out of
order there is a smallest later step that is, and it is out of order with the one
ahead of it. Hence `CountIsExact`, for any events, day and funnel, and
`CountsNarrow`. *Interleaving*: the inductive invariant has a half for the
collectors (a send past the gate was permitted, `GateIsConsent`; `StoredUpToNext`) and one for the passes: what a
pass at work has in hand was right when it read (`PassIsSound`), each row of
a pass is what it read there and of a day the pass will not read again
(`RowsAreOfPasses`), behind it every cell has a row (`PassedCellsHaveRows`), no
pass is at work that no attempt called (`PassesAreCalled`), and each turn that is
over left a funnel in `failed` or a pass that was answered 200 (`TurnsAreTaken`).
From it `TypeCorrect`, `OnlyPermitted`, `AnswersAreTrue`, `BucketsAreExact`,
`FailuresReported`. Sets of sessions and of batches may be infinite; the events
table is finite because it grows by one.

**Libraries** (`LibrariesProofs`). The four invariants of the run, for any scales, any
width of the encoding, any alphabet of letters and any set of inputs: numbers,
shares, texts and prefixes of any size. They are statements about numerals of any
length, and so inductions over data. The library's induction theorems are out of
reach, being about operators, but what is needed of induction can be said of a *set*:
`Induction` says that a set with 0, and with each number the next, has them all up
to a bound, and follows from the well-foundedness of `<`. A recursive function is a
`CHOOSE`, so nothing is known of it before one is shown to exist: `HornerSteps` does
this for `Horner`, by that induction, and all that is said of numerals is built on it.
`Power` is a one and zeros, as the provers know nothing of `^`; TLC compares the two
(`PowerAssumption`), and `PowerZero` and `PowerNext` are the definition of `^`.

* `QuoRem`, `Rounded`, `Shares`: truncated division in terms of the floor division
  of TLA+. What `divRound` returns is a nearest integer to the exact quotient, a tie
  broken as the mode says, for every sign of both operands; the extras of `Split`
  are as many as the units left over.
* `DigitsOfValue`, `ValueOfDigits`, `ValuePadded`: a numeral and its value determine
  each other, and zeros at the end are a factor. Used with radix 10 and with 2.
* `RoundsExactly` (`RoundsAsAsked`): `Mirror` gives the debt rounded as the credit is,
  `ExactQuotient` the product that is divided back.
* `SplitsExactly` (`SplitIsExact`): the shares, added by `Add` from the first to the last,
  are the amount (`SplitAddsUp`, an induction over the shares).
* `ReadsExactly` (`TextIsExact`): `UnitsDenoted`, padding only scales;
  `RoundedScaled`, a factor common to dividend and divisor does not change how the
  quotient is rounded, which is why a rate may be read at a scale of its own; and
  `TextReadsBack`, an amount is read back from the text it is written as.
* `IdsFaithful` (`IdsAreFaithful`): `GroupIs`, `CharOfBit` and `BitOfChar` say which
  character carries which bit; `DecodeEncode` and `EncodeDecode`, that the codec
  is a bijection onto the texts `Decodable` lets through; `OrderKept`, that it is
  monotone, as the first bit that differs is in the first character that does;
  `ParseAnyWire` and `OneSpelled`, that the last underscore parts what was joined.

### Only model-checked

* `PollResolves`, `ChargeResolves`, `SagaEnds`, `RegistrationResolves`, `RunEnds`, `CallEnds`: liveness is beyond the prover.
* The violations, which are about an instance by nature.

## 5. What is not modelled

* In the sagas, formatting, currencies and parsing of amounts: there an amount is a
  natural number of minor units, and all amounts of an order have one currency.
  `Money` has them, but for the check that a currency exists and the JSON and SQL forms.
* In `TypeId`, the random number an id is minted from.
* In `Analytics`, the summaries, who may ask for a pass, and the rollup of more than
  one run at a time.
* In platform, every workflow but `FunnelRollup`: the activities of erasure, retention, the
  audits and restore verification log or return an error and do nothing. What their
  workflows promise (an erasure that resumes, a scratch copy that is torn down) is
  about those bodies, which are not there.
* In `AuthzStore`, a write that reaches OpenFGA after its process died (`OneStore` allows it: a
  grant told to have failed may take effect at any time); a store given by `OPENFGA_STORE_ID`, which nothing in the repository
  sets, and reads that lag behind writes: the deployment does not turn OpenFGA's
  cache on.
* The `Authorize` decision of authz: it changes no state, and is a chain of guards
  that a property would restate; its tests go through the table.
* The dial with retries at start-up (`temporalmw`).
* Retry backoff, timeouts as durations, and workflow execution timeouts (the
  code sets none): time only says that an attempt ends.
* The reads (`GetOrder`, `ListOrders`, `GetCharge`): they change nothing. Who may
  read is `Readable`.
* In `Checkout`, an effect of an attempt that comes after the attempt was reported
  failed. For the one call that crosses services this is what `OrderPayment` is
  for; for statements of the orders database the connection's context ends with
  the attempt.
* The operator checks of cancel, refund and catalog: an operator who may is all
  the models have.
* In `Registration`: the insides of Kratos, sessions, names of users and orgs, the
  scripts that grant a role by hand, and identities being erased.
* The components marked `not_modelled` in `PROJECT.json`. They are most of the
  repository's lines: clients and servers generated from the OpenAPI contracts,
  code generators, request decoding, error formatting, spans, metrics, rendering.

## 6. What was done in which order, and what stays open

In order of what carries most risk: `Checkout`, `Payment`, `OncePerKey`,
`OrderPayment`; `Registration`; `Rollup` and `Analytics`; `Money` and `TypeId`;
`AuthzStore`; then the proofs about the composition and about the store, the
operations of catalog, the proofs about the two libraries, and `OneStore`. Open, because the code or the tools give no more today:

* **platform**: its workflows, once their activities have bodies.
* **A client that polls** meets a 403 between the 202 and the grant
  (`workflow-handle.ts` allows for it for some seconds); `PollResolves`
  speaks of the order's row, not of when it may be read. A model of the grace would
  need time.
* **Liveness** for every instance.
