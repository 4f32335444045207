------------------------------ MODULE Analytics ------------------------------
(***************************************************************************)
(* The analytics service, and the workflow of the platform service that    *)
(* drives its rollup: PUT /consent and POST /events, the pass over the     *)
(* buckets of a funnel that POST /funnels/{id}/rollup makes, and one run   *)
(* of the FunnelRollup workflow, which asks for one funnel after another.  *)
(*                                                                         *)
(* The events are delivered in batches, more than once if the collector    *)
(* sends a batch again.  Event ids are minted per insert, so the i-th      *)
(* event of send n of batch b is named <<b, n, i>>.  The request that      *)
(* attempt n makes for the k-th funnel is the pass <<k, n>>; it may        *)
(* outlive its attempt.                                                    *)
(***************************************************************************)
EXTENDS Rollup, Temporal, SequencesExt

CONSTANTS
  Sessions,     \* browser sessions
  Batches,      \* batches of events, by name
  Body,         \* the session and the sequence of events of each
  Funnels,      \* the funnels of funnels.yaml, by id
  Steps,        \* the steps of each
  Requested,    \* the sequence of funnel ids FunnelRollup is started with
  Now,          \* when it is started
  TrailingDays, \* rollupTrailingDays
  MaxBuckets,   \* maxRollupBuckets
  MaxSends      \* bound: how often a batch is sent

ASSUME BodyAssumption ==
  \A b \in Batches : Body[b].session \in Sessions /\ Body[b].events \in Seq([name : STRING, at : Nat])
ASSUME StepsAssumption == \A f \in Funnels : Steps[f] \in Seq(STRING) /\ IsFunnel(Steps[f])
ASSUME RequestedAssumption == Requested \in Seq(STRING)
ASSUME WindowAssumption == Now \in Nat /\ TrailingDays \in Nat \ {0} /\ MaxBuckets \in Nat /\ MaxSends \in Nat

VARIABLES
  consent,      \* the consent table: "none" without a row, "denied" if the state
                \* is withdrawn or refused, which a reader treats alike
  events,       \* the events table
  sends,        \* how often a batch was sent
  permitted,    \* history: the sends that came while their session had a grant
  at, next,     \* how far RecordEvents got with the latest send of a batch
  rows,         \* funnel_rollup, a row per funnel, bucket and step
  phase,        \* how far ComputeFunnelRollup got with a pass:
  day, wrote,   \*   the bucket it is at, and the steps of it it wrote
  counts,       \*   and the counts of that bucket
  truth,        \* history: what they were to be when the pass read the events
  turn, tries,  \* FunnelRollup: whose turn it is, attempts reported failed
  open,         \*   whether an attempt is under way
  failed        \*   the funnels it recorded as failed

batchVars == <<consent, events, sends, permitted, at, next>>
passVars  == <<rows, phase, day, wrote, counts, truth>>
runVars   == <<turn, tries, open, failed>>
vars      == <<batchVars, passVars, runVars>>

-----------------------------------------------------------------------------
Midnight == Day * (Now \div Day + 1)
Window   == Buckets(Midnight - TrailingDays * Day, Midnight)
Asked    == ToSet(Requested)
Passes   == (DOMAIN Requested) \X (1 .. MaxAttempts)
Funnel(p) == Requested[p[1]]
\* The primary key of funnel_rollup: funnel, bucket, step.
Cells    == UNION {{<<f, d, i>> : d \in DOMAIN Window, i \in DOMAIN Steps[f]} : f \in Funnels}
NoRow    == [sessions |-> 0, by |-> <<>>]

EventsOf(b, n) ==
  {[id |-> <<b, n, i>>, session |-> Body[b].session,
    name |-> Body[b].events[i].name, at |-> Body[b].events[i].at] : i \in DOMAIN Body[b].events}
AllEvents == UNION {EventsOf(b, n) : b \in Batches, n \in 1 .. MaxSends}

TypeOK ==
  /\ consent \in [Sessions -> {"none", "granted", "denied"}]
  /\ events \subseteq AllEvents
  /\ sends \in [Batches -> 0 .. MaxSends]
  /\ permitted \subseteq Batches \X (1 .. MaxSends)
  /\ at \in [Batches -> {"unsent", "insert", "stored", "dropped", "error"}]
  /\ next \in [Batches -> Nat]
  /\ \A b \in Batches : next[b] <= Len(Body[b].events)
  /\ rows \in [Cells -> [sessions : Nat, by : Passes \cup {<<>>}]]
  /\ phase \in [Passes -> {"none", "read", "write", "ok", "error"}]
  /\ day \in [Passes -> DOMAIN Window]
  /\ wrote \in [Passes -> Nat]
  /\ \A p \in Passes : wrote[p] <= IF Funnel(p) \in Funnels THEN Len(Steps[Funnel(p)]) - 1 ELSE 0
  /\ counts \in [Passes -> Seq(Nat)]
  /\ truth \in [Passes -> [DOMAIN Window -> Seq(Nat)]]
  /\ turn \in 1 .. Len(Requested) + 1
  /\ tries \in 0 .. MaxAttempts - 1
  /\ open \in BOOLEAN
  /\ failed \subseteq Asked

Init ==
  /\ consent = [s \in Sessions |-> "none"]
  /\ events = {}
  /\ sends = [b \in Batches |-> 0]
  /\ permitted = {}
  /\ at = [b \in Batches |-> "unsent"]
  /\ next = [b \in Batches |-> 0]
  /\ rows = [c \in Cells |-> NoRow]
  /\ phase = [p \in Passes |-> "none"]
  /\ day = [p \in Passes |-> 1]
  /\ wrote = [p \in Passes |-> 0]
  /\ counts = [p \in Passes |-> <<>>]
  /\ truth = [p \in Passes |-> [d \in DOMAIN Window |-> <<>>]]
  /\ turn = 1 /\ tries = 0 /\ open = FALSE /\ failed = {}

-----------------------------------------------------------------------------
(* Consent and events *)

\* An upsert: a decision replaces the one before it, and the row stays.
RecordConsent(s) ==
  /\ \E state \in {"granted", "denied"} : consent' = [consent EXCEPT ![s] = state]
  /\ UNCHANGED <<events, sends, permitted, at, next, passVars, runVars>>

\* A batch arrives, and the consent of its session is read once: without a
\* grant the batch is dropped whole.
CheckedBy(b, granted) ==
  /\ at[b] # "insert"
  /\ sends[b] < MaxSends
  /\ sends' = [sends EXCEPT ![b] = @ + 1]
  /\ permitted' = IF consent[Body[b].session] = "granted"
                    THEN permitted \cup {<<b, sends'[b]>>} ELSE permitted
  /\ next' = [next EXCEPT ![b] = 0]
  /\ \/ at' = [at EXCEPT ![b] = "error"]
     \/ at' = [at EXCEPT ![b] = CASE ~granted -> "dropped"
                                  [] granted /\ Body[b].events = <<>> -> "stored"
                                  [] granted /\ Body[b].events # <<>> -> "insert"]
  /\ UNCHANGED <<consent, events, passVars, runVars>>

\* Bug: any row is taken for a grant.
AnyConsent(b) == CheckedBy(b, consent[Body[b].session] # "none")

CheckConsent(b) == CheckedBy(b, consent[Body[b].session] = "granted")

\* Bug: an event that is not inserted is skipped.
InsertOrSkip(b) ==
  /\ at[b] = "insert"
  /\ \E e \in EventsOf(b, sends[b]) : e.id[3] = next[b] + 1 /\ events' \in {events, events \cup {e}}
  /\ next' = [next EXCEPT ![b] = @ + 1]
  /\ at' = [at EXCEPT ![b] = IF next'[b] = Len(Body[b].events) THEN "stored" ELSE @]
  /\ UNCHANGED <<consent, sends, permitted, passVars, runVars>>

\* One insert per event, in no transaction: a failure leaves those before it.
InsertEvent(b) ==
  /\ at[b] = "insert"
  /\ \E e \in EventsOf(b, sends[b]), out \in Outcomes :
       /\ e.id[3] = next[b] + 1
       /\ events' = IF TakesEffect(out) THEN events \cup {e} ELSE events
       /\ next' = IF Reported(out) THEN [next EXCEPT ![b] = @ + 1] ELSE next
       /\ at' = [at EXCEPT ![b] = CASE ~Reported(out) -> "error"
                                    [] Reported(out) /\ next'[b] = Len(Body[b].events) -> "stored"
                                    [] Reported(out) /\ next'[b] # Len(Body[b].events) -> @]
  /\ UNCHANGED <<consent, sends, permitted, passVars, runVars>>

-----------------------------------------------------------------------------
(* The rollup of one funnel *)

EndIn(p, answer) ==
  /\ phase' = [phase EXCEPT ![p] = answer]
  /\ day' = [day EXCEPT ![p] = 1]
  /\ wrote' = [wrote EXCEPT ![p] = 0]
  /\ counts' = [counts EXCEPT ![p] = <<>>]

\* Bug: the counts are those of the table as a whole.
CountAllDays(p) ==
  LET steps == Steps[Funnel(p)] IN
  /\ phase[p] = "read"
  /\ counts' = [counts EXCEPT ![p] =
       Count(steps, FirstSeen(events, <<0, Midnight>>, ToSet(steps)))]
  /\ truth' = [truth EXCEPT ![p][day[p]] =
       [i \in DOMAIN steps |-> Traversals(events, Window[day[p]][1] \div Day, steps, i)]]
  /\ phase' = [phase EXCEPT ![p] = "write"]
  /\ UNCHANGED <<batchVars, rows, day, wrote, runVars>>

\* The events of a bucket are read in one query, and counted.
ReadBucket(p) ==
  LET steps == Steps[Funnel(p)] IN
  /\ phase[p] = "read"
  /\ \/ EndIn(p, "error") /\ UNCHANGED truth
     \/ /\ counts' = [counts EXCEPT ![p] =
             Count(steps, FirstSeen(events, Window[day[p]], ToSet(steps)))]
        /\ truth' = [truth EXCEPT ![p][day[p]] =
             [i \in DOMAIN steps |-> Traversals(events, Window[day[p]][1] \div Day, steps, i)]]
        /\ phase' = [phase EXCEPT ![p] = "write"]
        /\ UNCHANGED <<day, wrote>>
  /\ UNCHANGED <<batchVars, rows, runVars>>

Upsert(p) ==
  rows' = [rows EXCEPT ![<<Funnel(p), day[p], wrote[p] + 1>>] =
             [sessions |-> counts[p][wrote[p] + 1], by |-> p]]

\* What follows a step of the bucket: the next step, the next bucket, the answer.
Advance(p) ==
  \/ /\ wrote[p] + 1 < Len(counts[p])
     /\ wrote' = [wrote EXCEPT ![p] = @ + 1]
     /\ UNCHANGED <<phase, day, counts>>
  \/ /\ wrote[p] + 1 = Len(counts[p]) /\ day[p] < Len(Window)
     /\ phase' = [phase EXCEPT ![p] = "read"]
     /\ day' = [day EXCEPT ![p] = @ + 1]
     /\ wrote' = [wrote EXCEPT ![p] = 0]
     /\ counts' = [counts EXCEPT ![p] = <<>>]
  \/ wrote[p] + 1 = Len(counts[p]) /\ day[p] = Len(Window) /\ EndIn(p, "ok")

\* Bug: a step nobody reached is not written.
WriteReached(p) ==
  /\ phase[p] = "write"
  /\ \/ counts[p][wrote[p] + 1] > 0 /\ Upsert(p)
     \/ counts[p][wrote[p] + 1] = 0 /\ UNCHANGED rows
  /\ Advance(p)
  /\ UNCHANGED <<batchVars, truth, runVars>>

\* The row of each step is replaced, zero or not, one by one.
WriteStep(p) ==
  /\ phase[p] = "write"
  /\ \/ Upsert(p) /\ Advance(p)
     \/ (Upsert(p) \/ UNCHANGED rows) /\ EndIn(p, "error")
  /\ UNCHANGED <<batchVars, truth, runVars>>

-----------------------------------------------------------------------------
(* One run of FunnelRollup *)

Running == turn <= Len(Requested)
Current == <<turn, tries + 1>>

\* An attempt calls the service, which refuses a funnel it does not know and a
\* window that is empty or too long; or does not reach it.
Call ==
  /\ Running /\ ~open
  /\ open' = TRUE
  /\ \/ UNCHANGED phase
     \/ phase' = [phase EXCEPT ![Current] =
                    IF Funnel(Current) \in Funnels /\ Len(Window) \in 1 .. MaxBuckets
                      THEN "read" ELSE "error"]
  /\ UNCHANGED <<batchVars, rows, day, wrote, counts, truth, turn, tries, failed>>

\* Bug: the attempts at a funnel are not counted from zero.
ReturnKeepsCount ==
  /\ Running /\ open
  /\ open' = FALSE
  /\ \E ok \in BOOLEAN :
       /\ ok => phase[Current] = "ok"
       /\ tries' = IF ok THEN 0 ELSE tries + 1
       /\ turn' = StepAfter(ok, tries, turn, turn + 1, turn + 1)
       /\ failed' = IF ~ok /\ tries + 1 = MaxAttempts THEN failed \cup {Funnel(Current)} ELSE failed
  /\ UNCHANGED <<batchVars, passVars>>

\* Bug: a funnel is asked for until it is answered.
ReturnForever ==
  /\ Running /\ open
  /\ open' = FALSE
  /\ turn' = IF phase[Current] = "ok" THEN turn + 1 ELSE turn
  /\ UNCHANGED <<batchVars, passVars, tries, failed>>

\* Bug: the first funnel that fails ends the run.
ReturnEarly ==
  /\ Running /\ open
  /\ open' = FALSE
  /\ \E ok \in BOOLEAN :
       /\ ok => phase[Current] = "ok"
       /\ tries' = TriesAfter(ok, tries)
       /\ turn' = StepAfter(ok, tries, turn, turn + 1, Len(Requested) + 1)
       /\ failed' = IF ~ok /\ tries + 1 = MaxAttempts THEN failed \cup {Funnel(Current)} ELSE failed
  /\ UNCHANGED <<batchVars, passVars>>

\* It ends well if the service answered 200, and may fail at any time.  A funnel
\* out of attempts is recorded, and the next one's turn comes all the same.
Return ==
  /\ Running /\ open
  /\ open' = FALSE
  /\ \E ok \in BOOLEAN :
       /\ ok => phase[Current] = "ok"
       /\ tries' = TriesAfter(ok, tries)
       /\ turn' = StepAfter(ok, tries, turn, turn + 1, turn + 1)
       /\ failed' = IF ~ok /\ tries + 1 = MaxAttempts THEN failed \cup {Funnel(Current)} ELSE failed
  /\ UNCHANGED <<batchVars, passVars>>

-----------------------------------------------------------------------------
RecordEvents(b) == CheckConsent(b) \/ InsertEvent(b)
ComputeFunnelRollup(p) == ReadBucket(p) \/ WriteStep(p)
FunnelRollup == Call \/ Return

Next ==
  \/ \E s \in Sessions : RecordConsent(s)
  \/ \E b \in Batches : RecordEvents(b)
  \/ \E p \in Passes : ComputeFunnelRollup(p)
  \/ FunnelRollup

Spec == Init /\ [][Next]_vars

\* Temporal dispatches the attempts of an open run and ends each by its timeout.
FairSpec == Spec /\ WF_vars(FunnelRollup)

-----------------------------------------------------------------------------
(* Properties *)

\* A send answered "stored" has all its events in the table, a dropped one none:
\* RecordEvents tells the collector the truth about a batch it accepted.
AnswerIsTrue ==
  \A b \in Batches :
    /\ at[b] = "stored" => EventsOf(b, sends[b]) \subseteq events
    /\ at[b] = "dropped" => EventsOf(b, sends[b]) \cap events = {}

\* A bucket written by one pass shows, for each step, how many sessions had
\* traversed the funnel up to it that day when the pass read the events, however
\* often an event was stored, in whatever order, and whatever other passes do.
BucketIsExact ==
  \A f \in Funnels, d \in DOMAIN Window, p \in Passes :
    (\A i \in DOMAIN Steps[f] : rows[<<f, d, i>>].by = p) =>
      \A i \in DOMAIN Steps[f] : rows[<<f, d, i>>].sessions = truth[p][d][i]

\* When the run has ended, every funnel it did not record as failed has its rows
\* for all steps of all days, whatever became of the funnels before it.
FailuresAreReported ==
  ~Running => \A f \in Asked \ failed :
    f \in Funnels /\ \A c \in Cells : c[1] = f => rows[c] # NoRow

\* Every event in the table is of a send that came while its session had a grant:
\* from a withdrawal to the next grant no send that comes stores anything, be it
\* the repetition of one that was permitted.  A send that was under way at the
\* withdrawal goes on to store its events.
StoredWasPermitted == \A e \in events : <<e.id[1], e.id[2]>> \in permitted

\* A run comes to an end although a pass may hang.
RunEnds == <>~Running
=============================================================================
