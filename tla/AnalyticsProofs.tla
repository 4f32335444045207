-------------------------- MODULE AnalyticsProofs --------------------------
(***************************************************************************)
(* Proofs about the funnel rollup, for any events, funnels and windows, and *)
(* about Analytics, for any sessions, batches and number of sends and      *)
(* attempts.                                                               *)
(***************************************************************************)
EXTENDS Analytics, TLAPS, FiniteSetTheorems, WellFoundedInduction

-----------------------------------------------------------------------------
(* Counting *)

LEMMA Smallest ==
  ASSUME NEW T \in SUBSET Nat, T # {}
  PROVE  \E x \in T : \A y \in T : x <= y
<1> DEFINE R == {ss \in Nat \X Nat : ss[1] < ss[2]}
<1>1. IsWellFoundedOn(R, Nat)
  BY NatLessThanWellFounded DEF OpToRel
<1> HIDE DEF R
<1>2. PICK x \in T : \A y \in T : ~ (<<y, x>> \in R)
  BY <1>1, WFMin, Zenon
<1>3. \A y \in T : y < x => <<y, x>> \in R
  BY DEF R
<1>4. ASSUME NEW y \in T PROVE x <= y
  <2>1. x \in Nat /\ y \in Nat /\ ~(y < x)
    BY <1>2, <1>3, <1>4
  <2> QED
    BY <2>1
<1> QED
  BY <1>4

\* The loop of Count and the definition of a traversal agree, of any session.
LEMMA ReachedIsTraversed ==
  ASSUME NEW found, \A e \in found : e.at \in Int, NEW bucket, NEW steps \in Seq(STRING),
         NEW s, NEW i \in 1 .. Len(steps)
  PROVE  LET seen  == FirstSeen(found, bucket, ToSet(steps))
             today == {e \in found : e.at >= bucket[1] /\ e.at < bucket[2]}
         IN  Reached(steps, seen, s, i) <=> Traversed(today, s, steps, i)
<1> DEFINE names == ToSet(steps)
           seen  == FirstSeen(found, bucket, names)
           today == {e \in found : e.at >= bucket[1] /\ e.at < bucket[2]}
           of(j) == {e \in today : e.session = s /\ e.name = steps[j]}
           First(e, j) == e \in of(j) /\ \A f \in of(j) : f.at >= e.at
           Row(r, j) == r \in seen /\ r.session = s /\ r.name = steps[j]
<1>1. \A j \in 1 .. Len(steps) : steps[j] \in names
  BY DEF ToSet
<1>2. \A j \in 1 .. Len(steps) : \A r : Row(r, j) => \E e : First(e, j) /\ r.at = e.at
  BY <1>1 DEF FirstSeen
<1>3. \A j \in 1 .. Len(steps) : \A e : First(e, j) => \E r : Row(r, j) /\ r.at = e.at
  <2> SUFFICES ASSUME NEW j \in 1 .. Len(steps), NEW e, First(e, j)
               PROVE  \E r : Row(r, j) /\ r.at = e.at
    OBVIOUS
  <2>1. [session |-> e.session, name |-> e.name, at |-> e.at] \in seen
    BY <1>1 DEF FirstSeen
  <2> QED
    BY <2>1
<1>4. Reached(steps, seen, s, i) <=>
        \A j \in 1 .. i : \E r : Row(r, j) /\ (j > 1 => \A q : Row(q, j - 1) => r.at >= q.at)
  BY DEF Reached
<1>5. Traversed(today, s, steps, i) <=>
        \A k \in 1 .. i : of(k) # {} /\ \A j \in 1 .. k : \E e \in of(j) : \A f \in of(k) : f.at >= e.at
  BY DEF Traversed
<1>6. \A j \in 1 .. Len(steps) : \A e \in of(j) : e.at \in Int
  OBVIOUS
<1> HIDE DEF seen, today, of
<1>7. ASSUME Traversed(today, s, steps, i)
      PROVE  Reached(steps, seen, s, i)
  <2> SUFFICES ASSUME NEW j \in 1 .. i
               PROVE  \E r : Row(r, j) /\ (j > 1 => \A q : Row(q, j - 1) => r.at >= q.at)
    BY <1>4
  <2>1. PICK e : First(e, j)
    BY <1>5, <1>7
  <2>2. PICK r : Row(r, j) /\ r.at = e.at
    BY <1>3, <2>1
  <2>3. ASSUME j > 1, NEW q, Row(q, j - 1)
        PROVE  r.at >= q.at
    <3>1. j - 1 \in 1 .. i /\ j - 1 \in 1 .. j /\ j - 1 \in 1 .. Len(steps)
      BY <2>3
    <3>2. PICK g : First(g, j - 1) /\ q.at = g.at
      BY <1>2, <2>3, <3>1
    <3>3. PICK h \in of(j - 1) : \A f \in of(j) : f.at >= h.at
      BY <1>5, <1>7, <3>1
    <3> QED
      BY <1>6, <2>1, <2>2, <3>1, <3>2, <3>3
  <2> QED
    BY <2>2, <2>3
<1>8. ASSUME Reached(steps, seen, s, i)
      PROVE  Traversed(today, s, steps, i)
  <2>1. \A k \in 1 .. i : \E e : First(e, k)
    BY <1>2, <1>4, <1>8
  <2>2. ASSUME NEW k \in 1 .. i, NEW j \in 1 .. k
        PROVE  \E e \in of(j) : \A f \in of(k) : f.at >= e.at
    <3>1. PICK e : First(e, j)
      BY <2>1, <2>2
    <3> DEFINE T == {l \in j .. k : \E f \in of(l) : ~(f.at >= e.at)}
    <3>2. ASSUME T # {} PROVE FALSE
      <4>0. T \in SUBSET Nat
        BY <2>2
      <4>1. PICK l \in T : \A m \in T : l <= m
        <5> HIDE DEF T
        <5> QED
          BY <3>2, <4>0, Smallest
      <4>2. PICK f \in of(l) : ~(f.at >= e.at)
        BY <4>1
      <4>3. l # j /\ l \in 1 .. i /\ l > 1 /\ l - 1 \in j .. k /\ l - 1 \in 1 .. i
        BY <3>1, <4>2
      <4>4. l - 1 \notin T
        BY <4>1, <4>3
      <4>5. PICK r : Row(r, l) /\ \A q : Row(q, l - 1) => r.at >= q.at
        BY <1>4, <1>8, <4>3
      <4>6. PICK g : First(g, l) /\ r.at = g.at
        BY <1>2, <4>3, <4>5
      <4>7. PICK h : First(h, l - 1)
        BY <2>1, <4>3
      <4>8. PICK q : Row(q, l - 1) /\ q.at = h.at
        BY <1>3, <4>3, <4>7
      <4>9. h.at >= e.at
        BY <4>3, <4>4, <4>7
      <4>10. f.at >= g.at /\ g.at >= h.at
        BY <4>2, <4>5, <4>6, <4>8
      <4>11. e.at \in Int /\ f.at \in Int /\ g.at \in Int /\ h.at \in Int
        BY <1>6, <3>1, <4>2, <4>3, <4>6, <4>7
      <4> QED
        BY <4>2, <4>9, <4>10, <4>11
    <3> QED
      BY <3>1, <3>2
  <2> QED
    BY <1>5, <2>1, <2>2
<1> QED
  BY <1>7, <1>8 DEF seen, today

\* A day, as the bucket of a window and as a quotient.
LEMMA DayOf ==
  ASSUME NEW t \in Int, NEW d \in Int
  PROVE  t \div Day = d <=> t >= Day * d /\ t < Day * d + Day
<1> DEFINE q == t \div Day  r == t % Day
<1>1. Day \in Nat /\ Day > 0
  BY DayAssumption
<1>2. q \in Int /\ r \in 0 .. Day - 1 /\ t = Day * q + r
  BY <1>1
<1> HIDE DEF q, r
<1>3. Day * q \in Int /\ Day * d \in Int /\ Day * q - Day * d = Day * (q - d)
  BY <1>1, <1>2
<1>4. q > d => Day * (q - d) >= Day
  BY <1>1, <1>2
<1>5. q < d => Day * (q - d) <= -Day
  BY <1>1, <1>2
<1>6. q = d => Day * (q - d) = 0
  BY <1>1, <1>2
<1>7. q = d <=> t >= Day * d /\ t < Day * d + Day
  BY <1>1, <1>2, <1>3, <1>4, <1>5, <1>6
<1> QED
  BY <1>7 DEF q

\* The counts of a bucket, from the seen of the query, are how many sessions
\* traversed the funnel that day by the definition: for any events, stored
\* however often and in whatever order (funnelrollup.Count).
THEOREM CountIsExact ==
  ASSUME NEW found, \A e \in found : e.at \in Int, NEW d \in Int,
         NEW steps \in Seq(STRING), NEW i \in 1 .. Len(steps)
  PROVE  Count(steps, FirstSeen(found, <<Day * d, Day * d + Day>>, ToSet(steps)))[i] =
           Traversals(found, d, steps, i)
PROOF
<1> DEFINE bucket == <<Day * d, Day * d + Day>>
           seen   == FirstSeen(found, bucket, ToSet(steps))
           today  == OnDay(found, d)
<1>1. today = {e \in found : e.at >= bucket[1] /\ e.at < bucket[2]}
  BY DayOf DEF OnDay
<1>2. \A s : Reached(steps, seen, s, i) <=> Traversed(today, s, steps, i)
  BY <1>1, ReachedIsTraversed
<1>3. \A r \in seen : \E e \in today : e.session = r.session
  BY <1>1 DEF FirstSeen
<1>4. \A s : Reached(steps, seen, s, i) => \E r \in seen : r.session = s
  BY DEF Reached
<1>5. Traversals(found, d, steps, i) =
        Cardinality({s \in {e.session : e \in today} : Traversed(today, s, steps, i)})
  BY DEF Traversals
<1>6. Count(steps, seen)[i] =
        Cardinality({s \in {r.session : r \in seen} : Reached(steps, seen, s, i)})
  BY DEF Count
<1> HIDE DEF seen, today
<1>7. {s \in {r.session : r \in seen} : Reached(steps, seen, s, i)} =
        {s \in {e.session : e \in today} : Traversed(today, s, steps, i)}
  BY <1>2, <1>3, <1>4
<1> QED
  BY <1>5, <1>6, <1>7 DEF seen, today

\* What a query finds and a definition counts is finite with the table.
LEMMA FinitelyManySessions ==
  ASSUME NEW found, IsFiniteSet(found)
  PROVE  IsFiniteSet({e.session : e \in found})
<1> DEFINE f == [e \in found |-> e.session]
<1>1. f \in Surjection(found, {e.session : e \in found})
  BY DEF Surjection
<1> QED
  BY <1>1, FS_Surjection

\* Of one query, no step shows more sessions than a step ahead of it: the
\* monotonicity the documentation of Count promises.
THEOREM CountsNarrow ==
  ASSUME NEW steps, NEW seen, IsFiniteSet(seen),
         NEW i \in DOMAIN steps, NEW j \in DOMAIN steps, i \in Nat, j \in Nat, i <= j
  PROVE  Count(steps, seen)[i] >= Count(steps, seen)[j]
PROOF
<1> DEFINE At(k) == {s \in {r.session : r \in seen} : Reached(steps, seen, s, k)}
<1>1. At(j) \subseteq At(i)
  BY DEF Reached
<1>2. IsFiniteSet(At(i))
  BY FinitelyManySessions, FS_Subset
<1>3. Cardinality(At(j)) <= Cardinality(At(i)) /\ IsFiniteSet(At(j))
  BY <1>1, <1>2, FS_Subset
<1>4. Count(steps, seen)[i] = Cardinality(At(i)) /\ Count(steps, seen)[j] = Cardinality(At(j))
  BY DEF Count
<1> HIDE DEF At
<1> QED
  BY <1>2, <1>3, <1>4, FS_CardinalityType

-----------------------------------------------------------------------------
(* The inductive invariant *)

\* A send past the gate came while its session had a grant.
GateIsConsent == \A b \in Batches : at[b] = "insert" => <<b, sends[b]>> \in permitted

\* No event is of a send to come, and a send being inserted has stored its
\* events up to next.
StoredUpToNext ==
  /\ \A e \in events : e.id[2] <= sends[e.id[1]]
  /\ \A b \in Batches : at[b] = "insert" =>
       /\ sends[b] > 0 /\ next[b] < Len(Body[b].events)
       /\ \A e \in EventsOf(b, sends[b]) : e.id[3] <= next[b] => e \in events

\* A pass under way is at a day of its window and, when it writes, at a step of
\* that day, of which it has the counts that were right when it read the events.
PassIsSound ==
  \A p \in Passes :
    /\ phase[p] \in {"read", "write", "ok"} => Funnel(p) \in Funnels
    /\ phase[p] = "read" => wrote[p] = 0
    /\ phase[p] = "write" =>
         /\ Len(counts[p]) = Len(Steps[Funnel(p)]) /\ wrote[p] < Len(counts[p])
         /\ \A i \in DOMAIN Steps[Funnel(p)] : counts[p][i] = truth[p][day[p]][i]

\* A pass that is not under way is at the beginning.
PassIsIdle ==
  \A p \in Passes : phase[p] \notin {"read", "write"} => day[p] = 1 /\ wrote[p] = 0

\* A row shows what its pass was to write there, and the pass will not read the
\* events of that day again.
RowsAreOfPasses ==
  \A c \in Cells, p \in Passes : rows[c].by = p =>
    /\ Funnel(p) = c[1] /\ phase[p] # "none"
    /\ rows[c].sessions = truth[p][c[2]][c[3]]
    /\ phase[p] = "read" => c[2] < day[p]
    /\ phase[p] = "write" => c[2] <= day[p]

\* A pass under way has left a row at each cell it came by, one that answered well
\* at all.
PassedCellsHaveRows ==
  \A p \in Passes, c \in Cells : Funnel(p) = c[1] =>
    /\ phase[p] = "ok" => rows[c] # NoRow
    /\ phase[p] \in {"read", "write"} /\ (c[2] < day[p] \/ (c[2] = day[p] /\ c[3] <= wrote[p])) =>
         rows[c] # NoRow

\* No pass is under way that no attempt called.
PassesAreCalled ==
  \A p \in Passes : phase[p] # "none" =>
    p[1] < turn \/ (p[1] = turn /\ (p[2] <= tries \/ (open /\ p[2] = tries + 1)))

\* A turn that is over left the funnel recorded, or a pass that answered well.
TurnsAreTaken ==
  \A k \in DOMAIN Requested : k < turn =>
    Requested[k] \in failed \/ \E p \in Passes : p[1] = k /\ phase[p] = "ok"

BatchInv ==
  /\ IsFiniteSet(events)
  /\ GateIsConsent
  /\ StoredUpToNext
  /\ AnswerIsTrue
  /\ StoredWasPermitted

PassInv ==
  /\ PassIsSound
  /\ PassIsIdle
  /\ RowsAreOfPasses
  /\ PassedCellsHaveRows
  /\ PassesAreCalled
  /\ TurnsAreTaken

IInv == TypeOK /\ BatchInv /\ PassInv

-----------------------------------------------------------------------------
(* The instance: its window, its events, its cells *)

\* The window is the trailing days up to the next midnight, a bucket each.
LEMMA WindowShape ==
  /\ DOMAIN Window = 1 .. TrailingDays /\ Len(Window) = TrailingDays /\ 1 \in DOMAIN Window
  /\ \A d \in DOMAIN Window : \E k \in Int :
       Window[d] = <<Day * k, Day * k + Day>> /\ Window[d][1] \div Day = k
<1> DEFINE n == Now \div Day  from == Midnight - TrailingDays * Day  k0 == n + 1 - TrailingDays
<1>1. Day \in Nat /\ Day > 0 /\ n \in Int /\ TrailingDays \in Nat /\ TrailingDays > 0 /\ k0 \in Int
  BY DayAssumption, WindowAssumption
<1> HIDE DEF n
<1>2. Midnight = Day * (n + 1)
  BY DEF Midnight, n
<1>3. from = Day * k0 /\ from \in Int /\ Midnight \in Int
  BY <1>1, <1>2
<1>4. from \div Day = k0
  BY <1>1, <1>3, DayOf
<1>5. Midnight - Day * k0 = Day * TrailingDays
  BY <1>1, <1>2
<1>6. Day * TrailingDays > 0 /\ Day * TrailingDays \in Int
  BY <1>1
<1>7. from < Midnight
  BY <1>3, <1>5, <1>6
<1>8. (Day * TrailingDays + Day - 1) \div Day = TrailingDays
  BY <1>1, <1>6, DayOf
<1>9. Window = [i \in 1 .. TrailingDays |-> <<Day * k0 + (i - 1) * Day, Day * k0 + i * Day>>]
  BY <1>3, <1>4, <1>5, <1>7, <1>8 DEF Window, Buckets
<1>10. ASSUME NEW d \in 1 .. TrailingDays
       PROVE  LET k == k0 + d - 1 IN
              k \in Int /\ Window[d] = <<Day * k, Day * k + Day>> /\ Window[d][1] \div Day = k
  <2> DEFINE k == k0 + d - 1
  <2>1. k \in Int /\ Day * k0 + (d - 1) * Day = Day * k /\ Day * k0 + d * Day = Day * k + Day
    BY <1>1
  <2>2. Day * k \in Int /\ (Day * k) \div Day = k
    BY <1>1, <2>1, DayOf
  <2> QED
    BY <1>9, <2>1, <2>2
<1>11. DOMAIN Window = 1 .. TrailingDays /\ Len(Window) = TrailingDays
  BY <1>1, <1>9
<1>12. 1 \in DOMAIN Window
  BY <1>1, <1>11
<1>13. ASSUME NEW d \in DOMAIN Window
       PROVE  \E k \in Int : Window[d] = <<Day * k, Day * k + Day>> /\ Window[d][1] \div Day = k
  BY <1>10, <1>11
<1> QED
  BY <1>11, <1>12, <1>13

LEMMA InSeq ==
  ASSUME NEW S, NEW q \in Seq(S), NEW i \in DOMAIN q
  PROVE  q[i] \in S
  OBVIOUS

\* The events of a send are named for it and are of its session.
LEMMA EventsOfSend ==
  ASSUME NEW b \in Batches, NEW n, NEW e \in EventsOf(b, n)
  PROVE  /\ e.id[1] = b /\ e.id[2] = n /\ e.id[3] \in DOMAIN Body[b].events
         /\ e.session = Body[b].session /\ e.at \in Nat
         /\ n \in 1 .. MaxSends => e \in AllEvents
<1>1. PICK i \in DOMAIN Body[b].events :
        e = [id |-> <<b, n, i>>, session |-> Body[b].session,
             name |-> Body[b].events[i].name, at |-> Body[b].events[i].at]
  BY DEF EventsOf
<1>2. Body[b].events[i].at \in Nat
  <2>1. Body[b].events \in Seq([name : STRING, at : Nat])
    BY BodyAssumption
  <2>2. Body[b].events[i] \in [name : STRING, at : Nat]
    BY <1>1, <2>1, InSeq, Zenon
  <2> QED
    BY <2>2
<1>3. n \in 1 .. MaxSends => e \in AllEvents
  BY DEF AllEvents
<1> QED
  BY <1>1, <1>2, <1>3

\* Of the events of a send there is one for each place in the batch.
LEMMA EventAt ==
  ASSUME NEW b \in Batches, NEW n, NEW e \in EventsOf(b, n), NEW f \in EventsOf(b, n),
         e.id[3] = f.id[3]
  PROVE  e = f
  BY DEF EventsOf

LEMMA StoredTimes ==
  ASSUME TypeOK
  PROVE  \A e \in events : e.at \in Nat
  BY EventsOfSend DEF TypeOK, AllEvents

LEMMA PassOf ==
  \A p \in Passes : p # <<>> /\ p[1] \in DOMAIN Requested /\ p[2] \in 1 .. MaxAttempts /\ p = <<p[1], p[2]>>
<1> SUFFICES ASSUME NEW k \in DOMAIN Requested, NEW n \in 1 .. MaxAttempts
             PROVE  <<k, n>> # <<>>
  BY DEF Passes
<1>1. Len(<<k, n>>) # Len(<<>>)
  OBVIOUS
<1> QED
  BY <1>1

LEMMA CellOf ==
  /\ \A c \in Cells : c[1] \in Funnels /\ c[2] \in DOMAIN Window /\ c[3] \in DOMAIN Steps[c[1]]
                   /\ c = <<c[1], c[2], c[3]>>
  /\ \A f \in Funnels : \A d \in DOMAIN Window, i \in DOMAIN Steps[f] : <<f, d, i>> \in Cells
<1>1. ASSUME NEW c \in Cells
      PROVE  c[1] \in Funnels /\ c[2] \in DOMAIN Window /\ c[3] \in DOMAIN Steps[c[1]]
             /\ c = <<c[1], c[2], c[3]>>
  <2>1. PICK f \in Funnels : c \in {<<f, d, i>> : d \in DOMAIN Window, i \in DOMAIN Steps[f]}
    BY DEF Cells
  <2> QED
    BY <2>1
<1>2. ASSUME NEW f \in Funnels, NEW d \in DOMAIN Window, NEW i \in DOMAIN Steps[f]
      PROVE  <<f, d, i>> \in Cells
  <2>1. <<f, d, i>> \in {<<f, q, j>> : q \in DOMAIN Window, j \in DOMAIN Steps[f]}
    OBVIOUS
  <2> QED
    BY <2>1 DEF Cells
<1> QED
  BY <1>1, <1>2

\* What a pass reads from a finite table is a sequence of counts, and the one of
\* the definition of the funnel.
LEMMA CountsOfDay ==
  ASSUME TypeOK, IsFiniteSet(events), NEW f \in Funnels, NEW d \in DOMAIN Window
  PROVE  LET steps == Steps[f]
             read  == Count(steps, FirstSeen(events, Window[d], ToSet(steps)))
             right == [i \in DOMAIN steps |-> Traversals(events, Window[d][1] \div Day, steps, i)]
         IN  read = right /\ read \in Seq(Nat) /\ Len(read) = Len(steps)
<1> DEFINE steps == Steps[f]
           read  == Count(steps, FirstSeen(events, Window[d], ToSet(steps)))
           right == [i \in DOMAIN steps |-> Traversals(events, Window[d][1] \div Day, steps, i)]
<1>1. steps \in Seq(STRING) /\ DOMAIN steps = 1 .. Len(steps)
  BY StepsAssumption
<1>2. PICK k \in Int : Window[d] = <<Day * k, Day * k + Day>> /\ Window[d][1] \div Day = k
  BY WindowShape
<1>3. \A e \in events : e.at \in Int
  BY StoredTimes
<1>4. \A i \in DOMAIN steps : read[i] = right[i]
  <2> SUFFICES ASSUME NEW i \in 1 .. Len(steps)
               PROVE  read[i] = right[i]
    BY <1>1
  <2>1. read[i] = Traversals(events, k, steps, i)
    BY <1>1, <1>2, <1>3, CountIsExact
  <2> QED
    BY <1>1, <1>2, <2>1
<1>5. \A i \in DOMAIN steps : right[i] \in Nat
  <2> SUFFICES ASSUME NEW i \in DOMAIN steps
               PROVE  Traversals(events, k, steps, i) \in Nat
    BY <1>2
  <2> DEFINE today == OnDay(events, k)
             T == {s \in {e.session : e \in today} : Traversed(today, s, steps, i)}
  <2>1. IsFiniteSet(today)
    BY FS_Subset DEF OnDay
  <2>2. IsFiniteSet(T)
    BY <2>1, FinitelyManySessions, FS_Subset
  <2>3. Traversals(events, k, steps, i) = Cardinality(T)
    BY DEF Traversals
  <2> HIDE DEF T
  <2> QED
    BY <2>2, <2>3, FS_CardinalityType
<1>6. read = [i \in DOMAIN steps |-> read[i]]
  BY DEF Count
<1> HIDE DEF read, right
<1>7. read = [i \in 1 .. Len(steps) |-> right[i]]
  BY <1>1, <1>4, <1>6
<1>8. right = [i \in 1 .. Len(steps) |-> right[i]]
  BY <1>1 DEF right
<1>9. Len(steps) \in Nat
  BY <1>1
<1>10. right \in [1 .. Len(steps) -> Nat]
  BY <1>1, <1>5, <1>8
<1>11. right \in Seq(Nat) /\ Len(right) = Len(steps)
  BY <1>9, <1>10
<1> QED
  BY <1>7, <1>8, <1>11 DEF read, right

-----------------------------------------------------------------------------
(* The initial states *)

LEMMA InitHolds == Init => IInv
<1> SUFFICES ASSUME Init PROVE IInv
  OBVIOUS
<1>1. \A f \in Funnels : Len(Steps[f]) >= 2
  BY StepsAssumption DEF IsFunnel
<1>2. 0 \in 0 .. MaxAttempts - 1 /\ 0 \in 0 .. MaxSends
  BY MaxAttemptsAssumption, WindowAssumption
<1>3. \A b \in Batches : 0 <= Len(Body[b].events)
  BY BodyAssumption
<1>4. \A p \in Passes : 0 <= IF Funnel(p) \in Funnels THEN Len(Steps[Funnel(p)]) - 1 ELSE 0
  BY <1>1, StepsAssumption
<1>5. <<>> \in Seq(Nat) /\ 1 \in 1 .. Len(Requested) + 1
  BY RequestedAssumption
<1>6. NoRow \in [sessions : Nat, by : Passes \cup {<<>>}]
  BY DEF NoRow
<1>7. TypeOK
  BY <1>2, <1>3, <1>4, <1>5, <1>6, WindowShape DEF Init, TypeOK
<1>8. BatchInv
  BY FS_EmptySet DEF Init, BatchInv, GateIsConsent, StoredUpToNext, AnswerIsTrue, StoredWasPermitted
<1>9. \A k \in DOMAIN Requested : ~(k < 1)
  BY RequestedAssumption
<1>10. PassInv
  BY <1>9, PassOf DEF Init, PassInv, PassIsSound, PassIsIdle, RowsAreOfPasses, PassedCellsHaveRows, PassesAreCalled,
              TurnsAreTaken, NoRow
<1> QED
  BY <1>7, <1>8, <1>10 DEF IInv

-----------------------------------------------------------------------------
(* Consent and events *)

LEMMA ConsentStep ==
  ASSUME IInv, NEW s \in Sessions, RecordConsent(s)
  PROVE  TypeOK' /\ BatchInv'
<1>1. PICK state \in {"granted", "denied"} : consent' = [consent EXCEPT ![s] = state]
  BY DEF RecordConsent
<1> USE DEF IInv
<1>2. TypeOK'
  BY <1>1 DEF TypeOK, RecordConsent, passVars, runVars
<1>3. GateIsConsent' /\ StoredWasPermitted'
  BY <1>1 DEF TypeOK, RecordConsent, BatchInv, GateIsConsent, StoredWasPermitted
<1>4. (IsFiniteSet(events) /\ StoredUpToNext /\ AnswerIsTrue)'
  BY DEF RecordConsent, BatchInv, StoredUpToNext, AnswerIsTrue
<1> QED
  BY <1>2, <1>3, <1>4 DEF BatchInv

LEMMA CheckStep ==
  ASSUME IInv, NEW b \in Batches, CheckConsent(b)
  PROVE  TypeOK' /\ BatchInv'
<1> USE DEF IInv
<1> DEFINE n == sends[b] + 1
<1>1. /\ sends' = [sends EXCEPT ![b] = n] /\ sends[b] < MaxSends
      /\ next' = [next EXCEPT ![b] = 0]
      /\ permitted' = IF consent[Body[b].session] = "granted"
                        THEN permitted \cup {<<b, n>>} ELSE permitted
      /\ UNCHANGED <<consent, events, passVars, runVars>>
  BY DEF CheckConsent, CheckedBy, TypeOK
<1>2. /\ at' = [at EXCEPT ![b] = at'[b]]
      /\ at'[b] \in {"insert", "stored", "dropped", "error"}
      /\ at'[b] = "insert" => consent[Body[b].session] = "granted" /\ Body[b].events # <<>>
      /\ at'[b] = "stored" => Body[b].events = <<>>
  BY DEF CheckConsent, CheckedBy, TypeOK
<1>3. sends[b] \in Nat /\ n \in 1 .. MaxSends /\ sends' \in [Batches -> 0 .. MaxSends]
  BY <1>1, WindowAssumption DEF TypeOK
<1>4. \A a \in Batches : Body[a].events \in Seq([name : STRING, at : Nat]) /\ Body[a].session \in Sessions
  BY BodyAssumption
<1>5. TypeOK'
  <2>1. at' \in [Batches -> {"unsent", "insert", "stored", "dropped", "error"}]
    BY <1>2 DEF TypeOK
  <2>2. next' \in [Batches -> Nat] /\ \A a \in Batches : next'[a] <= Len(Body[a].events)
    BY <1>1, <1>4 DEF TypeOK
  <2> QED
    BY <1>1, <1>3, <2>1, <2>2 DEF TypeOK, passVars, runVars
<1>6. EventsOf(b, n) \cap events = {}
  <2> SUFFICES ASSUME NEW e \in EventsOf(b, n), e \in events
               PROVE  FALSE
    OBVIOUS
  <2>1. e.id[1] = b /\ e.id[2] = n
    BY EventsOfSend
  <2>2. e.id[2] <= sends[e.id[1]]
    BY DEF BatchInv, StoredUpToNext
  <2> QED
    BY <1>3, <2>1, <2>2
<1>7. GateIsConsent' /\ StoredWasPermitted'
  BY <1>1, <1>2, <1>4 DEF TypeOK, BatchInv, GateIsConsent, StoredWasPermitted
<1>8. StoredUpToNext'
  <2>1. ASSUME NEW e \in events PROVE e.id[2] <= sends'[e.id[1]]
    <3>1. PICK a \in Batches, k \in 1 .. MaxSends : e \in EventsOf(a, k)
      BY DEF TypeOK, AllEvents
    <3>2. e.id[1] = a /\ e.id[2] = k /\ e.id[2] <= sends[a]
      BY <3>1, EventsOfSend DEF BatchInv, StoredUpToNext
    <3> QED
      BY <1>1, <1>3, <3>2 DEF TypeOK
  <2>2. ASSUME NEW a \in Batches, at'[a] = "insert"
        PROVE  /\ sends'[a] > 0 /\ next'[a] < Len(Body[a].events)
               /\ \A e \in EventsOf(a, sends'[a]) : e.id[3] <= next'[a] => e \in events'
    <3>1. CASE a = b
      <4>1. Body[b].events # <<>> /\ Len(Body[b].events) > 0
        BY <1>2, <1>4, <2>2, <3>1
      <4>2. sends'[b] = n /\ next'[b] = 0
        BY <1>1 DEF TypeOK
      <4>3. ASSUME NEW e \in EventsOf(b, n) PROVE e.id[3] > 0
        <5>1. e.id[3] \in DOMAIN Body[b].events
          BY EventsOfSend
        <5> QED
          BY <1>4, <5>1
      <4>4. ASSUME NEW e \in EventsOf(b, n) PROVE e.id[3] \in Nat
        <5>1. e.id[3] \in DOMAIN Body[b].events
          BY EventsOfSend
        <5> QED
          BY <1>4, <5>1
      <4> QED
        BY <1>3, <3>1, <4>1, <4>2, <4>3, <4>4
    <3>2. CASE a # b
      BY <1>1, <1>2, <2>2, <3>2 DEF TypeOK, BatchInv, StoredUpToNext
    <3> QED
      BY <3>1, <3>2
  <2> QED
    BY <1>1, <2>1, <2>2 DEF StoredUpToNext
<1>9. AnswerIsTrue'
  <2> SUFFICES ASSUME NEW a \in Batches
               PROVE  /\ at'[a] = "stored" => EventsOf(a, sends'[a]) \subseteq events'
                      /\ at'[a] = "dropped" => EventsOf(a, sends'[a]) \cap events' = {}
    BY DEF AnswerIsTrue
  <2>1. CASE a = b
    <3>1. Body[b].events = <<>> => EventsOf(b, n) = {}
      BY DEF EventsOf
    <3>2. sends'[b] = n
      BY <1>1 DEF TypeOK
    <3> QED
      BY <1>1, <1>2, <1>6, <2>1, <3>1, <3>2
  <2>2. CASE a # b
    BY <1>1, <1>2, <2>2 DEF TypeOK, BatchInv, AnswerIsTrue
  <2> QED
    BY <2>1, <2>2
<1> QED
  BY <1>1, <1>5, <1>7, <1>8, <1>9 DEF BatchInv

LEMMA InsertStep ==
  ASSUME IInv, NEW b \in Batches, InsertEvent(b)
  PROVE  TypeOK' /\ BatchInv'
<1> USE DEF IInv
<1> DEFINE n == sends[b]
<1>1. PICK e \in EventsOf(b, n), out \in Outcomes :
       /\ e.id[3] = next[b] + 1
       /\ events' = IF TakesEffect(out) THEN events \cup {e} ELSE events
       /\ next' = IF Reported(out) THEN [next EXCEPT ![b] = @ + 1] ELSE next
       /\ at' = [at EXCEPT ![b] = CASE ~Reported(out) -> "error"
                                    [] Reported(out) /\ next'[b] = Len(Body[b].events) -> "stored"
                                    [] Reported(out) /\ next'[b] # Len(Body[b].events) -> @]
  BY DEF InsertEvent
<1>2. at[b] = "insert" /\ UNCHANGED <<consent, sends, permitted, passVars, runVars>>
  BY DEF InsertEvent
<1>3. /\ next[b] \in Nat /\ next[b] < Len(Body[b].events) /\ n \in 1 .. MaxSends
      /\ Body[b].events \in Seq([name : STRING, at : Nat])
  BY <1>2, BodyAssumption, WindowAssumption DEF TypeOK, BatchInv, StoredUpToNext
<1>4. e.id[1] = b /\ e.id[2] = n /\ e.session = Body[b].session /\ e \in AllEvents
  BY <1>3, EventsOfSend
<1>5. events \subseteq events' /\ events' \subseteq events \cup {e}
  BY <1>1
<1>6. /\ at' = [at EXCEPT ![b] = at'[b]] /\ at'[b] \in {"insert", "stored", "error"}
      /\ at'[b] # "error" => Reported(out)
      /\ at'[b] = "insert" => next'[b] # Len(Body[b].events)
      /\ at'[b] = "stored" => next'[b] = Len(Body[b].events)
  BY <1>1, <1>2 DEF TypeOK
<1>7. /\ next' = [next EXCEPT ![b] = next'[b]] /\ next'[b] \in {next[b], next[b] + 1}
      /\ Reported(out) => next'[b] = next[b] + 1 /\ e \in events'
  BY <1>1 DEF TypeOK, Reported, TakesEffect
<1>8. Reported(out) => \A f \in EventsOf(b, n) : f.id[3] <= next'[b] => f \in events'
  <2> SUFFICES ASSUME Reported(out), NEW f \in EventsOf(b, n), f.id[3] <= next'[b]
               PROVE  f \in events'
    OBVIOUS
  <2>1. f.id[3] \in Nat
    <3>1. f.id[3] \in DOMAIN Body[b].events
      BY EventsOfSend
    <3> QED
      BY <1>3, <3>1
  <2>2. CASE f.id[3] = next[b] + 1
    BY <1>1, <1>7, <2>2, EventAt
  <2>3. CASE f.id[3] <= next[b]
    BY <1>2, <1>5, <2>3 DEF BatchInv, StoredUpToNext
  <2> QED
    BY <1>3, <1>7, <2>1, <2>2, <2>3
<1>9. TypeOK'
  <2>1. next' \in [Batches -> Nat]
    <3>1. next'[b] \in Nat
      BY <1>3, <1>7
    <3>2. next \in [Batches -> Nat]
      BY DEF TypeOK
    <3> QED
      BY <1>7, <3>1, <3>2
  <2>2. next'[b] <= Len(Body[b].events)
    BY <1>3, <1>7
  <2>3. \A a \in Batches : next'[a] <= Len(Body[a].events)
    BY <1>7, <2>2 DEF TypeOK
  <2>4. at' \in [Batches -> {"unsent", "insert", "stored", "dropped", "error"}]
    BY <1>6 DEF TypeOK
  <2>5. events' \subseteq AllEvents
    BY <1>4, <1>5 DEF TypeOK
  <2> QED
    BY <1>2, <2>1, <2>3, <2>4, <2>5 DEF TypeOK, passVars, runVars
<1>10. IsFiniteSet(events')
  <2>1. IsFiniteSet(events \cup {e})
    BY FS_AddElement DEF BatchInv
  <2> QED
    BY <1>5, <2>1, FS_Subset
<1>11. GateIsConsent' /\ StoredWasPermitted'
  BY <1>2, <1>4, <1>5, <1>6 DEF TypeOK, BatchInv, GateIsConsent, StoredWasPermitted
<1>12. StoredUpToNext'
  <2>1. \A f \in events' : f.id[2] <= sends'[f.id[1]]
    BY <1>2, <1>3, <1>4, <1>5 DEF BatchInv, StoredUpToNext
  <2>2. ASSUME NEW a \in Batches, at'[a] = "insert"
        PROVE  /\ sends'[a] > 0 /\ next'[a] < Len(Body[a].events)
               /\ \A f \in EventsOf(a, sends'[a]) : f.id[3] <= next'[a] => f \in events'
    <3>1. CASE a = b
      BY <1>2, <1>3, <1>6, <1>7, <1>8, <2>2, <3>1
    <3>2. CASE a # b
      BY <1>2, <1>5, <1>6, <1>7, <2>2, <3>2 DEF TypeOK, BatchInv, StoredUpToNext
    <3> QED
      BY <3>1, <3>2
  <2> QED
    BY <2>1, <2>2 DEF StoredUpToNext
<1>13. AnswerIsTrue'
  <2> SUFFICES ASSUME NEW a \in Batches
               PROVE  /\ at'[a] = "stored" => EventsOf(a, sends'[a]) \subseteq events'
                      /\ at'[a] = "dropped" => EventsOf(a, sends'[a]) \cap events' = {}
    BY DEF AnswerIsTrue
  <2>1. CASE a = b
    <3>1. \A f \in EventsOf(b, n) : f.id[3] <= Len(Body[b].events)
      <4> SUFFICES ASSUME NEW f \in EventsOf(b, n)
                   PROVE  f.id[3] <= Len(Body[b].events)
        OBVIOUS
      <4>1. f.id[3] \in DOMAIN Body[b].events
        BY EventsOfSend
      <4> QED
        BY <1>3, <4>1
    <3> QED
      BY <1>2, <1>6, <1>8, <2>1, <3>1
  <2>2. CASE a # b
    <3>1. at'[a] = at[a] /\ sends'[a] = sends[a]
      BY <1>2, <1>6, <2>2 DEF TypeOK
    <3>2. e \notin EventsOf(a, sends[a])
      BY <1>4, <2>2, EventsOfSend
    <3> QED
      BY <1>5, <3>1, <3>2 DEF BatchInv, AnswerIsTrue
  <2> QED
    BY <2>1, <2>2
<1> QED
  BY <1>9, <1>10, <1>11, <1>12, <1>13 DEF BatchInv

\* Nothing of the passes is touched by the collectors, and the other way around.
LEMMA BatchLeavesPasses ==
  ASSUME IInv, UNCHANGED <<passVars, runVars>>
  PROVE  PassInv'
<1>1. UNCHANGED <<rows, phase, day, wrote, counts, truth, turn, tries, open, failed>>
  BY DEF passVars, runVars
<1> QED
  BY <1>1 DEF IInv, PassInv, PassIsSound, PassIsIdle, RowsAreOfPasses, PassedCellsHaveRows, PassesAreCalled,
              TurnsAreTaken

LEMMA PassLeavesBatches ==
  ASSUME IInv, UNCHANGED batchVars
  PROVE  BatchInv'
  BY DEF IInv, batchVars, BatchInv, GateIsConsent, StoredUpToNext, AnswerIsTrue, StoredWasPermitted

-----------------------------------------------------------------------------
(* The rollup of one funnel *)

\* A pass under way that goes on or ends leaves the run where it was.
LEMMA MoveLeavesRun ==
  ASSUME IInv, NEW p \in Passes, phase[p] \in {"read", "write"},
         phase' = [phase EXCEPT ![p] = phase'[p]], phase'[p] # "none", UNCHANGED runVars
  PROVE  PassesAreCalled' /\ TurnsAreTaken'
<1>1. \A q \in Passes : (phase'[q] # "none" => phase[q] # "none") /\ (phase[q] = "ok" => phase'[q] = "ok")
  BY DEF IInv, TypeOK
<1> QED
  BY <1>1 DEF IInv, PassInv, PassesAreCalled, TurnsAreTaken, runVars

\* A pass under way is of a funnel that is defined, with a cell for each step.
LEMMA PassType ==
  ASSUME IInv, NEW p \in Passes, phase[p] \in {"read", "write"}
  PROVE  /\ Funnel(p) \in Funnels /\ DOMAIN Steps[Funnel(p)] = 1 .. Len(Steps[Funnel(p)])
         /\ Len(Steps[Funnel(p)]) \in Nat /\ Len(Steps[Funnel(p)]) >= 2
         /\ day[p] \in DOMAIN Window /\ wrote[p] \in Nat
         /\ wrote[p] <= Len(Steps[Funnel(p)]) - 1
<1>1. Funnel(p) \in Funnels
  BY DEF IInv, PassInv, PassIsSound
<1> QED
  BY <1>1, StepsAssumption DEF IInv, TypeOK, IsFunnel

LEMMA ReadStep ==
  ASSUME IInv, NEW p \in Passes, ReadBucket(p)
  PROVE  TypeOK' /\ PassInv'
<1> USE DEF IInv
<1> DEFINE F == Funnel(p)
<1>1. phase[p] = "read" /\ UNCHANGED <<batchVars, rows, runVars>>
  BY DEF ReadBucket
<1>2. /\ F \in Funnels /\ DOMAIN Steps[F] = 1 .. Len(Steps[F]) /\ Len(Steps[F]) \in Nat
      /\ Len(Steps[F]) >= 2 /\ day[p] \in DOMAIN Window /\ wrote[p] = 0
  BY <1>1, PassType DEF PassInv, PassIsSound
<1>3. PassesAreCalled' /\ TurnsAreTaken'
  <2>1. phase' = [phase EXCEPT ![p] = phase'[p]] /\ phase'[p] # "none"
    BY DEF ReadBucket, EndIn, TypeOK
  <2> QED
    BY <1>1, <2>1, MoveLeavesRun
<1>4. CASE EndIn(p, "error") /\ UNCHANGED truth
  <2>1. TypeOK'
    <3>1. 0 <= IF F \in Funnels THEN Len(Steps[F]) - 1 ELSE 0
      BY <1>2
    <3>2. <<>> \in Seq(Nat)
      OBVIOUS
    <3> QED
      BY <1>1, <1>4, <3>1, <3>2, WindowShape DEF TypeOK, EndIn, batchVars, runVars
  <2>2. \A q \in Passes : q # p => /\ phase'[q] = phase[q] /\ day'[q] = day[q]
                                  /\ wrote'[q] = wrote[q] /\ counts'[q] = counts[q]
    BY <1>4 DEF EndIn, TypeOK
  <2>3. phase'[p] = "error" /\ UNCHANGED <<rows, truth>>
    BY <1>1, <1>4 DEF EndIn, TypeOK
  <2>4. PassIsSound'
    BY <2>2, <2>3 DEF PassInv, PassIsSound
  <2>5. RowsAreOfPasses'
    BY <1>1, <2>2, <2>3 DEF PassInv, RowsAreOfPasses
  <2>6. PassedCellsHaveRows'
    BY <2>2, <2>3 DEF PassInv, PassedCellsHaveRows
  <2>7. PassIsIdle'
    BY <1>4, <2>2 DEF PassInv, PassIsIdle, EndIn, TypeOK
  <2> QED
    BY <1>3, <2>1, <2>4, <2>5, <2>6, <2>7 DEF PassInv
<1>5. CASE phase'[p] # "error"
  <2> DEFINE read  == Count(Steps[F], FirstSeen(events, Window[day[p]], ToSet(Steps[F])))
             right == [i \in DOMAIN Steps[F] |-> Traversals(events, Window[day[p]][1] \div Day, Steps[F], i)]
  <2>1. /\ counts' = [counts EXCEPT ![p] = read] /\ truth' = [truth EXCEPT ![p][day[p]] = right]
        /\ phase' = [phase EXCEPT ![p] = "write"] /\ UNCHANGED <<day, wrote>>
    BY <1>5 DEF ReadBucket, EndIn, TypeOK
  <2>2. read = right /\ read \in Seq(Nat) /\ Len(read) = Len(Steps[F])
    BY <1>2, CountsOfDay DEF BatchInv
  <2> HIDE DEF read, right
  <2>3. /\ \A q \in Passes : q # p => phase'[q] = phase[q] /\ counts'[q] = counts[q] /\ truth'[q] = truth[q]
        /\ phase'[p] = "write" /\ counts'[p] = read
        /\ truth'[p] = [truth[p] EXCEPT ![day[p]] = right]
    BY <2>1 DEF TypeOK
  <2>4. truth[p] \in [DOMAIN Window -> Seq(Nat)]
    BY DEF TypeOK
  <2>5. /\ truth'[p] \in [DOMAIN Window -> Seq(Nat)] /\ truth'[p][day[p]] = right
        /\ \A d \in DOMAIN Window : d # day[p] => truth'[p][d] = truth[p][d]
    BY <1>2, <2>2, <2>3, <2>4
  <2>6. TypeOK'
    <3>1. truth' = [truth EXCEPT ![p] = truth'[p]]
      BY <2>1, <2>3 DEF TypeOK
    <3>2. truth' \in [Passes -> [DOMAIN Window -> Seq(Nat)]]
      BY <2>5, <3>1 DEF TypeOK
    <3>3. counts' \in [Passes -> Seq(Nat)] /\ phase' \in [Passes -> {"none", "read", "write", "ok", "error"}]
      BY <2>1, <2>2 DEF TypeOK
    <3> QED
      BY <1>1, <2>1, <3>2, <3>3 DEF TypeOK, batchVars, runVars
  <2>7. PassIsSound'
    <3> SUFFICES ASSUME NEW q \in Passes
                 PROVE  /\ phase'[q] \in {"read", "write", "ok"} => Funnel(q) \in Funnels
                        /\ phase'[q] = "read" => wrote'[q] = 0
                        /\ phase'[q] = "write" =>
                             /\ Len(counts'[q]) = Len(Steps[Funnel(q)]) /\ wrote'[q] < Len(counts'[q])
                             /\ \A i \in DOMAIN Steps[Funnel(q)] : counts'[q][i] = truth'[q][day'[q]][i]
      BY DEF PassIsSound
    <3>1. CASE q = p
      BY <1>2, <2>1, <2>2, <2>3, <2>5, <3>1
    <3>2. CASE q # p
      BY <2>1, <2>3, <3>2 DEF PassInv, PassIsSound
    <3> QED
      BY <3>1, <3>2
  <2>8. RowsAreOfPasses'
    <3> SUFFICES ASSUME NEW c \in Cells, NEW q \in Passes, rows[c].by = q
                 PROVE  /\ Funnel(q) = c[1] /\ phase'[q] # "none"
                        /\ rows[c].sessions = truth'[q][c[2]][c[3]]
                        /\ phase'[q] = "read" => c[2] < day'[q]
                        /\ phase'[q] = "write" => c[2] <= day'[q]
      BY <1>1 DEF RowsAreOfPasses
    <3>1. CASE q = p
      <4>1. c[2] \in DOMAIN Window /\ c[2] < day[p] /\ c[2] \in Int /\ day[p] \in Int
        BY <1>1, <1>2, <3>1, CellOf, WindowShape DEF PassInv, RowsAreOfPasses
      <4>2. c[2] # day[p]
        BY <4>1
      <4>3. \A d \in DOMAIN Window : d # day[p] => truth'[p][d] = truth[p][d]
        BY <2>5
      <4>4. truth'[p][c[2]] = truth[p][c[2]]
        BY <4>1, <4>2, <4>3
      <4> QED
        BY <2>1, <2>3, <3>1, <4>1, <4>4 DEF PassInv, RowsAreOfPasses
    <3>2. CASE q # p
      BY <2>1, <2>3, <3>2 DEF PassInv, RowsAreOfPasses
    <3> QED
      BY <3>1, <3>2
  <2>9. PassedCellsHaveRows'
    BY <1>1, <2>1, <2>3 DEF PassInv, PassedCellsHaveRows
  <2>10. PassIsIdle'
    BY <2>1, <2>3 DEF PassInv, PassIsIdle
  <2> QED
    BY <1>3, <2>6, <2>7, <2>8, <2>9, <2>10 DEF PassInv
<1> QED
  BY <1>4, <1>5 DEF ReadBucket, EndIn, TypeOK

\* A write leaves no cell without a row that had one, and only its own cell may
\* come to show something else.
LEMMA UpsertWrites ==
  ASSUME IInv, NEW p \in Passes, phase[p] = "write", Upsert(p)
  PROVE  LET here == <<Funnel(p), day[p], wrote[p] + 1>>
         IN  /\ here \in Cells
             /\ rows' \in [Cells -> [sessions : Nat, by : Passes \cup {<<>>}]]
             /\ \A c \in Cells : c # here => rows'[c] = rows[c]
             /\ rows'[here].by = p /\ rows'[here].sessions = truth[p][day[p]][wrote[p] + 1]
             /\ rows'[here] # NoRow
<1> USE DEF IInv
<1> DEFINE F == Funnel(p)  i == wrote[p] + 1  here == <<F, day[p], i>>
<1>1. /\ F \in Funnels /\ DOMAIN Steps[F] = 1 .. Len(Steps[F]) /\ Len(Steps[F]) \in Nat
      /\ day[p] \in DOMAIN Window /\ wrote[p] \in Nat
      /\ Len(counts[p]) = Len(Steps[F]) /\ wrote[p] < Len(counts[p])
  BY PassType DEF PassInv, PassIsSound
<1>2. i \in DOMAIN Steps[F]
  BY <1>1
<1>3. counts[p][i] = truth[p][day[p]][i]
  BY <1>2 DEF PassInv, PassIsSound
<1>4. here \in Cells
  BY <1>1, <1>2, CellOf
<1>5. counts[p][i] \in Nat
  BY <1>1, <1>2 DEF TypeOK
<1>6. rows' = [rows EXCEPT ![here] = [sessions |-> counts[p][i], by |-> p]]
  BY DEF Upsert
<1> HIDE DEF here, i
<1>7. [sessions |-> counts[p][i], by |-> p] # NoRow
  BY PassOf DEF NoRow
<1> QED
  BY <1>3, <1>4, <1>5, <1>6, <1>7 DEF TypeOK, here, i

LEMMA WriteStepHolds ==
  ASSUME IInv, NEW p \in Passes, WriteStep(p)
  PROVE  TypeOK' /\ PassInv'
<1> USE DEF IInv
<1> DEFINE F == Funnel(p)  here == <<F, day[p], wrote[p] + 1>>
<1>1. phase[p] = "write" /\ UNCHANGED <<batchVars, truth, runVars>>
  BY DEF WriteStep
<1>2. /\ F \in Funnels /\ DOMAIN Steps[F] = 1 .. Len(Steps[F]) /\ Len(Steps[F]) \in Nat
      /\ Len(Steps[F]) >= 2 /\ day[p] \in DOMAIN Window /\ wrote[p] \in Nat
      /\ Len(counts[p]) = Len(Steps[F]) /\ wrote[p] < Len(counts[p])
  BY <1>1, PassType DEF PassInv, PassIsSound
<1>3. Upsert(p) \/ UNCHANGED rows
  BY DEF WriteStep
<1>4. /\ rows' \in [Cells -> [sessions : Nat, by : Passes \cup {<<>>}]]
      /\ \A c \in Cells : c # here => rows'[c] = rows[c]
      /\ Upsert(p) => rows'[here].by = p
      /\ rows'[here] = rows[here] \/ (rows'[here].by = p /\ rows'[here].sessions = truth[p][day[p]][wrote[p] + 1])
      /\ \A c \in Cells : rows[c] # NoRow => rows'[c] # NoRow
      /\ Upsert(p) => rows'[here] # NoRow
  <2>1. CASE Upsert(p)
    BY <1>1, <2>1, UpsertWrites
  <2>2. CASE UNCHANGED rows /\ ~Upsert(p)
    BY <2>2 DEF TypeOK
  <2> QED
    BY <1>3, <2>1, <2>2
<1>5. \/ /\ Upsert(p) /\ wrote[p] + 1 < Len(counts[p])
         /\ wrote' = [wrote EXCEPT ![p] = @ + 1] /\ UNCHANGED <<phase, day, counts>>
      \/ /\ Upsert(p) /\ wrote[p] + 1 = Len(counts[p]) /\ day[p] < Len(Window)
         /\ phase' = [phase EXCEPT ![p] = "read"] /\ day' = [day EXCEPT ![p] = @ + 1]
         /\ wrote' = [wrote EXCEPT ![p] = 0] /\ counts' = [counts EXCEPT ![p] = <<>>]
      \/ /\ Upsert(p) /\ wrote[p] + 1 = Len(counts[p]) /\ day[p] = Len(Window) /\ EndIn(p, "ok")
      \/ EndIn(p, "error")
  BY DEF WriteStep, Advance
<1>6. /\ phase' = [phase EXCEPT ![p] = phase'[p]] /\ phase'[p] \in {"read", "write", "ok", "error"}
      /\ day' = [day EXCEPT ![p] = day'[p]] /\ day'[p] \in DOMAIN Window
      /\ wrote' = [wrote EXCEPT ![p] = wrote'[p]] /\ wrote'[p] \in Nat
      /\ counts' = [counts EXCEPT ![p] = counts'[p]]
      /\ phase'[p] \in {"ok", "error"} => day'[p] = 1
      /\ \/ counts'[p] = counts[p] /\ phase'[p] = "write" /\ wrote'[p] = wrote[p] + 1
            /\ wrote'[p] < Len(counts[p]) /\ day'[p] = day[p] /\ Upsert(p)
         \/ counts'[p] = <<>> /\ wrote'[p] = 0 /\ phase'[p] = "read" /\ day'[p] = day[p] + 1
            /\ wrote[p] + 1 = Len(counts[p]) /\ Upsert(p)
         \/ counts'[p] = <<>> /\ wrote'[p] = 0 /\ phase'[p] = "ok"
            /\ day[p] = Len(Window) /\ wrote[p] + 1 = Len(counts[p]) /\ Upsert(p)
         \/ counts'[p] = <<>> /\ wrote'[p] = 0 /\ phase'[p] = "error"
  <2>1. CASE /\ Upsert(p) /\ wrote[p] + 1 < Len(counts[p])
             /\ wrote' = [wrote EXCEPT ![p] = @ + 1] /\ UNCHANGED <<phase, day, counts>>
    BY <1>1, <1>2, <2>1 DEF TypeOK
  <2>2. CASE /\ Upsert(p) /\ wrote[p] + 1 = Len(counts[p]) /\ day[p] < Len(Window)
             /\ phase' = [phase EXCEPT ![p] = "read"] /\ day' = [day EXCEPT ![p] = @ + 1]
             /\ wrote' = [wrote EXCEPT ![p] = 0] /\ counts' = [counts EXCEPT ![p] = <<>>]
    <3>1. day[p] + 1 \in DOMAIN Window
      BY <1>2, <2>2, WindowShape, WindowAssumption
    <3> QED
      BY <2>2, <3>1 DEF TypeOK
  <2>3. CASE Upsert(p) /\ wrote[p] + 1 = Len(counts[p]) /\ day[p] = Len(Window) /\ EndIn(p, "ok")
    BY <2>3, WindowShape DEF TypeOK, EndIn
  <2>4. CASE EndIn(p, "error")
    BY <2>4, WindowShape DEF TypeOK, EndIn
  <2> QED
    BY <1>5, <2>1, <2>2, <2>3, <2>4
<1>7. \A q \in Passes : q # p => /\ phase'[q] = phase[q] /\ day'[q] = day[q]
                                /\ wrote'[q] = wrote[q] /\ counts'[q] = counts[q]
  BY <1>6 DEF TypeOK
<1>8. PassesAreCalled' /\ TurnsAreTaken'
  BY <1>1, <1>6, MoveLeavesRun
<1>9. TypeOK'
  <2>1. wrote'[p] <= IF F \in Funnels THEN Len(Steps[F]) - 1 ELSE 0
    BY <1>2, <1>6
  <2>2. wrote' \in [Passes -> Nat]
    BY <1>6 DEF TypeOK
  <2>3. \A q \in Passes : wrote'[q] <= IF Funnel(q) \in Funnels THEN Len(Steps[Funnel(q)]) - 1 ELSE 0
    BY <1>7, <2>1 DEF TypeOK
  <2>4. counts'[p] \in Seq(Nat)
    <3>1. <<>> \in Seq(Nat) /\ counts[p] \in Seq(Nat)
      BY DEF TypeOK
    <3> QED
      BY <1>6, <3>1
  <2>5. counts' \in [Passes -> Seq(Nat)]
    BY <1>6, <2>4 DEF TypeOK
  <2>6. phase' \in [Passes -> {"none", "read", "write", "ok", "error"}] /\ day' \in [Passes -> DOMAIN Window]
    BY <1>6 DEF TypeOK
  <2> QED
    BY <1>1, <1>4, <2>2, <2>3, <2>5, <2>6 DEF TypeOK, batchVars, runVars
<1>10. PassIsSound'
  <2> SUFFICES ASSUME NEW q \in Passes
               PROVE  /\ phase'[q] \in {"read", "write", "ok"} => Funnel(q) \in Funnels
                      /\ phase'[q] = "read" => wrote'[q] = 0
                      /\ phase'[q] = "write" =>
                           /\ Len(counts'[q]) = Len(Steps[Funnel(q)]) /\ wrote'[q] < Len(counts'[q])
                           /\ \A i \in DOMAIN Steps[Funnel(q)] : counts'[q][i] = truth'[q][day'[q]][i]
    BY DEF PassIsSound
  <2>1. CASE q = p
    BY <1>1, <1>2, <1>6, <2>1 DEF PassInv, PassIsSound
  <2>2. CASE q # p
    BY <1>1, <1>7, <2>2 DEF PassInv, PassIsSound
  <2> QED
    BY <2>1, <2>2
<1>11. RowsAreOfPasses'
  <2> SUFFICES ASSUME NEW c \in Cells, NEW q \in Passes, rows'[c].by = q
               PROVE  /\ Funnel(q) = c[1] /\ phase'[q] # "none"
                      /\ rows'[c].sessions = truth[q][c[2]][c[3]]
                      /\ phase'[q] = "read" => c[2] < day'[q]
                      /\ phase'[q] = "write" => c[2] <= day'[q]
    BY <1>1 DEF RowsAreOfPasses
  <2>1. c[2] \in Int /\ day[p] \in Int
    BY <1>2, CellOf, WindowShape
  <2>2. CASE rows'[c] = rows[c] /\ q # p
    BY <1>7, <2>2 DEF PassInv, RowsAreOfPasses
  <2>3. CASE rows'[c] = rows[c] /\ q = p
    <3>1. Funnel(p) = c[1] /\ rows[c].sessions = truth[p][c[2]][c[3]] /\ c[2] <= day[p]
      BY <1>1, <2>3 DEF PassInv, RowsAreOfPasses
    <3> QED
      BY <1>6, <2>1, <2>3, <3>1
  <2>4. CASE rows'[c] # rows[c]
    <3>1. c = here /\ q = p /\ rows'[c].sessions = truth[p][day[p]][wrote[p] + 1]
      BY <1>4, <2>4
    <3>2. c[1] = F /\ c[2] = day[p] /\ c[3] = wrote[p] + 1
      BY <3>1
    <3> QED
      BY <1>6, <2>1, <3>1, <3>2
  <2> QED
    BY <2>2, <2>3, <2>4
<1>12. PassedCellsHaveRows'
  <2> SUFFICES ASSUME NEW q \in Passes, NEW c \in Cells, Funnel(q) = c[1],
                      \/ phase'[q] = "ok"
                      \/ /\ phase'[q] \in {"read", "write"}
                         /\ c[2] < day'[q] \/ (c[2] = day'[q] /\ c[3] <= wrote'[q])
               PROVE  rows'[c] # NoRow
    BY DEF PassedCellsHaveRows
  <2>1. CASE q # p
    BY <1>4, <1>7, <2>1 DEF PassInv, PassedCellsHaveRows
  <2>2. CASE q = p
    <3>1. /\ c[2] \in 1 .. Len(Window) /\ c[3] \in 1 .. Len(Steps[F]) /\ c = <<F, c[2], c[3]>>
          /\ day[p] \in 1 .. Len(Window) /\ Len(Window) \in Nat
      BY <1>2, <2>2, CellOf, WindowShape, WindowAssumption
    <3>2. \/ c[2] < day[p]
          \/ c[2] = day[p] /\ c[3] <= wrote[p]
          \/ c[2] = day[p] /\ c[3] = wrote[p] + 1
      <4> DEFINE x == c[2]  y == c[3]
      <4>1. x \in Int /\ y \in Int /\ x <= Len(Window) /\ 1 <= y /\ y <= Len(Steps[F])
            /\ day[p] \in Int /\ wrote[p] \in Int
        BY <1>2, <3>1
      <4>2. \/ /\ day'[p] = day[p] /\ wrote'[p] = wrote[p] + 1
               /\ x < day'[p] \/ (x = day'[p] /\ y <= wrote'[p])
            \/ /\ day'[p] = day[p] + 1 /\ wrote'[p] = 0 /\ wrote[p] + 1 = Len(Steps[F])
               /\ x < day'[p] \/ (x = day'[p] /\ y <= wrote'[p])
            \/ day[p] = Len(Window) /\ wrote[p] + 1 = Len(Steps[F])
        BY <1>2, <1>6, <2>2
      <4> DEFINE d == day[p]  w == wrote[p]
      <4>3. d \in Int /\ w \in Int /\ x <= Len(Window) /\ Len(Window) \in Int /\ Len(Steps[F]) \in Int
        BY <1>2, <3>1, <4>1
      <4>4. \/ x < d \/ (x = d /\ y <= w + 1)
            \/ x < d + 1 /\ w + 1 = Len(Steps[F])
            \/ x = d + 1 /\ y <= 0
            \/ d = Len(Window) /\ w + 1 = Len(Steps[F])
        BY <4>2
      <4> HIDE DEF x, y, d, w
      <4>5. x < d \/ (x = d /\ y <= w) \/ (x = d /\ y = w + 1)
        BY <4>1, <4>3, <4>4
      <4> QED
        BY <4>5 DEF x, y, d, w
    <3>3. c = here => rows'[c] # NoRow
      BY <1>4, <1>6, <2>2
    <3>4. (c[2] < day[p] \/ (c[2] = day[p] /\ c[3] <= wrote[p])) => rows[c] # NoRow
      BY <1>1, <2>2 DEF PassInv, PassedCellsHaveRows
    <3> QED
      BY <1>4, <3>1, <3>2, <3>3, <3>4
  <2> QED
    BY <2>1, <2>2
<1>13. PassIsIdle'
  BY <1>6, <1>7 DEF PassInv, PassIsIdle
<1> QED
  BY <1>8, <1>9, <1>10, <1>11, <1>12, <1>13 DEF PassInv

-----------------------------------------------------------------------------
(* One run of FunnelRollup *)

LEMMA TurnType ==
  ASSUME IInv
  PROVE  /\ turn \in Nat /\ tries \in Nat /\ Len(Requested) \in Nat
         /\ Running => Current \in Passes /\ turn \in DOMAIN Requested /\ Funnel(Current) \in Asked
<1>1. /\ turn \in 1 .. Len(Requested) + 1 /\ tries \in 0 .. MaxAttempts - 1
      /\ Len(Requested) \in Nat /\ DOMAIN Requested = 1 .. Len(Requested)
  BY RequestedAssumption DEF IInv, TypeOK
<1>2. tries + 1 \in 1 .. MaxAttempts
  BY <1>1, MaxAttemptsAssumption
<1>3. Running => turn \in DOMAIN Requested
  BY <1>1 DEF Running
<1>4. Running => Funnel(Current) \in Asked
  BY <1>3 DEF Funnel, Current, Asked, ToSet
<1> QED
  BY <1>1, <1>2, <1>3, <1>4 DEF Passes, Current

LEMMA CallStep ==
  ASSUME IInv, Call
  PROVE  TypeOK' /\ PassInv'
<1> USE DEF IInv
<1>1. /\ Current \in Passes /\ ~open /\ open' /\ turn \in Nat /\ tries \in Nat
      /\ UNCHANGED <<batchVars, rows, day, wrote, counts, truth, turn, tries, failed>>
  BY TurnType DEF Call
<1>2. phase[Current] = "none"
  BY <1>1 DEF PassInv, PassesAreCalled, Current
<1>3. /\ phase' = [phase EXCEPT ![Current] = phase'[Current]]
      /\ phase'[Current] \in {"none", "read", "error"}
      /\ phase'[Current] = "read" => Funnel(Current) \in Funnels
  BY <1>1, <1>2 DEF Call, TypeOK
<1>4. TypeOK'
  BY <1>1, <1>3 DEF TypeOK, batchVars
<1>5. \A c \in Cells : rows[c].by # Current
  BY <1>1, <1>2 DEF PassInv, RowsAreOfPasses
<1>6. \A q \in Passes : q # Current => phase'[q] = phase[q]
  BY <1>3 DEF TypeOK
<1>7. wrote[Current] = 0 /\ day[Current] = 1
  BY <1>1, <1>2 DEF PassInv, PassIsIdle
<1>8. PassIsSound'
  BY <1>1, <1>3, <1>6, <1>7 DEF PassInv, PassIsSound
<1>9. RowsAreOfPasses'
  BY <1>1, <1>5, <1>6 DEF PassInv, RowsAreOfPasses
<1>10. PassedCellsHaveRows'
  <2> SUFFICES ASSUME NEW c \in Cells, Funnel(Current) = c[1]
               PROVE  ~(c[2] < 1) /\ ~(c[2] = 1 /\ c[3] <= 0)
    BY <1>1, <1>3, <1>6, <1>7 DEF PassInv, PassedCellsHaveRows
  <2>1. c[2] \in DOMAIN Window /\ c[3] \in DOMAIN Steps[c[1]] /\ c[1] \in Funnels
    BY CellOf
  <2>2. c[2] \in 1 .. TrailingDays /\ c[3] \in 1 .. Len(Steps[c[1]])
    BY <2>1, WindowShape, StepsAssumption
  <2> QED
    BY <2>2
<1>11. PassesAreCalled'
  BY <1>1, <1>6 DEF PassInv, PassesAreCalled, Current
<1>12. TurnsAreTaken'
  BY <1>1, <1>2, <1>6 DEF PassInv, TurnsAreTaken
<1>13. PassIsIdle'
  BY <1>1, <1>2, <1>6 DEF PassInv, PassIsIdle
<1> QED
  BY <1>4, <1>8, <1>9, <1>10, <1>11, <1>12, <1>13 DEF PassInv

LEMMA ReturnStep ==
  ASSUME IInv, Return
  PROVE  TypeOK' /\ PassInv'
<1> USE DEF IInv
<1>1. /\ Running /\ Current \in Passes /\ open /\ ~open' /\ turn \in DOMAIN Requested
      /\ Funnel(Current) \in Asked /\ UNCHANGED <<batchVars, passVars>>
      /\ turn \in Nat /\ tries \in Nat /\ Len(Requested) \in Nat /\ turn \in 1 .. Len(Requested) + 1
  BY TurnType DEF Return, TypeOK
<1>2. PICK ok \in BOOLEAN :
       /\ ok => phase[Current] = "ok"
       /\ tries' = TriesAfter(ok, tries)
       /\ turn' = StepAfter(ok, tries, turn, turn + 1, turn + 1)
       /\ failed' = IF ~ok /\ tries + 1 = MaxAttempts THEN failed \cup {Funnel(Current)} ELSE failed
  BY DEF Return
<1>3. /\ tries' \in 0 .. MaxAttempts - 1
      /\ \/ ok /\ turn' = turn + 1
         \/ ~ok /\ turn' = turn + 1 /\ Funnel(Current) \in failed'
         \/ ~ok /\ turn' = turn /\ tries' = tries + 1
      /\ failed \subseteq failed' /\ failed' \subseteq Asked
  BY <1>1, <1>2, MaxAttemptsAssumption DEF TypeOK, TriesAfter, StepAfter
<1>4. TypeOK'
  <2>1. turn + 1 \in 1 .. Len(Requested) + 1
    BY <1>1 DEF Running
  <2>2. turn' \in 1 .. Len(Requested) + 1 /\ open' \in BOOLEAN
    BY <1>1, <1>3, <2>1 DEF Return
  <2> QED
    BY <1>1, <1>3, <2>2 DEF TypeOK, batchVars, passVars
<1>5. (PassIsSound /\ PassIsIdle /\ RowsAreOfPasses /\ PassedCellsHaveRows)'
  BY <1>1 DEF PassInv, PassIsSound, PassIsIdle, RowsAreOfPasses, PassedCellsHaveRows, passVars
<1>6. PassesAreCalled'
  <2> SUFFICES ASSUME NEW p \in Passes, phase[p] # "none"
               PROVE  p[1] < turn' \/ (p[1] = turn' /\ p[2] <= tries')
    BY <1>1 DEF PassesAreCalled, passVars
  <2>1. p[1] < turn \/ (p[1] = turn /\ (p[2] <= tries \/ p[2] = tries + 1))
    BY DEF PassInv, PassesAreCalled
  <2>2. p[1] \in Nat /\ p[2] \in Nat
    BY PassOf, RequestedAssumption
  <2> QED
    BY <1>1, <1>3, <2>1, <2>2
<1>7. TurnsAreTaken'
  <2> SUFFICES ASSUME NEW k \in DOMAIN Requested, k < turn'
               PROVE  Requested[k] \in failed' \/ \E p \in Passes : p[1] = k /\ phase[p] = "ok"
    BY <1>1 DEF TurnsAreTaken, passVars
  <2>1. k \in Nat
    BY RequestedAssumption
  <2>2. CASE k < turn
    BY <1>3, <2>2 DEF PassInv, TurnsAreTaken
  <2>3. CASE k = turn /\ turn' = turn + 1
    BY <1>1, <1>2, <1>3, <2>3 DEF Funnel, Current
  <2> QED
    BY <1>1, <1>3, <2>1, <2>2, <2>3
<1> QED
  BY <1>4, <1>5, <1>6, <1>7 DEF PassInv

-----------------------------------------------------------------------------
(* The theorems *)

LEMMA NextHolds == IInv /\ [Next]_vars => IInv'
<1> SUFFICES ASSUME IInv, [Next]_vars PROVE IInv'
  OBVIOUS
<1>1. ASSUME NEW s \in Sessions, RecordConsent(s) PROVE IInv'
  BY <1>1, ConsentStep, BatchLeavesPasses DEF IInv, RecordConsent
<1>2. ASSUME NEW b \in Batches, CheckConsent(b) PROVE IInv'
  BY <1>2, CheckStep, BatchLeavesPasses DEF IInv, CheckConsent, CheckedBy
<1>3. ASSUME NEW b \in Batches, InsertEvent(b) PROVE IInv'
  BY <1>3, InsertStep, BatchLeavesPasses DEF IInv, InsertEvent
<1>4. ASSUME NEW p \in Passes, ReadBucket(p) PROVE IInv'
  BY <1>4, ReadStep, PassLeavesBatches DEF IInv, ReadBucket
<1>5. ASSUME NEW p \in Passes, WriteStep(p) PROVE IInv'
  BY <1>5, WriteStepHolds, PassLeavesBatches DEF IInv, WriteStep
<1>6. CASE Call
  BY <1>6, CallStep, PassLeavesBatches DEF IInv, Call
<1>7. CASE Return
  BY <1>7, ReturnStep, PassLeavesBatches DEF IInv, Return
<1>8. CASE UNCHANGED vars
  <2>1. UNCHANGED <<batchVars, passVars, runVars>>
    BY <1>8 DEF vars
  <2>2. TypeOK'
    BY <2>1 DEF IInv, TypeOK, batchVars, passVars, runVars
  <2> QED
    BY <2>1, <2>2, BatchLeavesPasses, PassLeavesBatches DEF IInv
<1> QED
  BY <1>1, <1>2, <1>3, <1>4, <1>5, <1>6, <1>7, <1>8
     DEF Next, RecordEvents, ComputeFunnelRollup, FunnelRollup

\* The inductive invariant, of which the theorems below are the parts and the
\* consequences: what each send, pass and turn has done at each point of it.
THEOREM AnalyticsInvariant == Spec => []IInv
PROOF
<1> QED
  BY InitHolds, NextHolds, PTL DEF Spec

\* Every variable keeps its type; counts are finite, the table growing by one
\* event at a time.
THEOREM TypeCorrect == Spec => []TypeOK
PROOF
<1>1. IInv => TypeOK
  BY DEF IInv
<1> QED
  BY <1>1, AnalyticsInvariant, PTL

\* RecordEvents stores an event only of a send that came under a grant, however
\* decisions and sends cross and however often a batch is sent.
THEOREM OnlyPermitted == Spec => []StoredWasPermitted
PROOF
<1>1. IInv => StoredWasPermitted
  BY DEF IInv, BatchInv
<1> QED
  BY <1>1, AnalyticsInvariant, PTL

\* RecordEvents tells the collector the truth about a send it accepted or dropped.
THEOREM AnswersAreTrue == Spec => []AnswerIsTrue
PROOF
<1>1. IInv => AnswerIsTrue
  BY DEF IInv, BatchInv
<1> QED
  BY <1>1, AnalyticsInvariant, PTL

\* ComputeFunnelRollup: a bucket that one pass wrote shows the counts the
\* definition of the funnel gives for what the pass read.
THEOREM BucketsAreExact == Spec => []BucketIsExact
PROOF
<1>1. IInv => BucketIsExact
  <2> SUFFICES ASSUME IInv, NEW f \in Funnels, NEW d \in DOMAIN Window, NEW p \in Passes,
                      \A i \in DOMAIN Steps[f] : rows[<<f, d, i>>].by = p,
                      NEW i \in DOMAIN Steps[f]
               PROVE  rows[<<f, d, i>>].sessions = truth[p][d][i]
    BY DEF BucketIsExact
  <2>1. <<f, d, i>> \in Cells
    BY CellOf
  <2> QED
    BY <2>1 DEF IInv, PassInv, RowsAreOfPasses
<1> QED
  BY <1>1, AnalyticsInvariant, PTL

\* FunnelRollup: when a run has ended each funnel asked for is recorded as failed
\* or has the rows of its whole window.
THEOREM FailuresReported == Spec => []FailuresAreReported
PROOF
<1>1. IInv => FailuresAreReported
  <2> SUFFICES ASSUME IInv, ~Running, NEW f \in Asked \ failed
               PROVE  f \in Funnels /\ \A c \in Cells : c[1] = f => rows[c] # NoRow
    BY DEF FailuresAreReported
  <2>1. PICK k \in DOMAIN Requested : f = Requested[k]
    BY DEF Asked, ToSet
  <2>2. k < turn
    <3>1. k \in 1 .. Len(Requested) /\ turn \in Nat /\ Len(Requested) \in Nat
      BY TurnType, RequestedAssumption
    <3> QED
      BY <3>1 DEF Running
  <2>3. PICK p \in Passes : p[1] = k /\ phase[p] = "ok"
    BY <2>1, <2>2 DEF IInv, PassInv, TurnsAreTaken
  <2> QED
    BY <2>1, <2>3 DEF IInv, PassInv, PassIsSound, PassedCellsHaveRows, Funnel
<1> QED
  BY <1>1, AnalyticsInvariant, PTL
=============================================================================
