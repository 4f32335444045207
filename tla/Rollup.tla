------------------------------- MODULE Rollup -------------------------------
(***************************************************************************)
(* How the analytics service turns stored events into the counts of a      *)
(* funnel: the day buckets of a window, the query for the first occurrence *)
(* of each step, and the count of the sessions that reach a step in order. *)
(*                                                                         *)
(* An event is a record with a session, a name and the time it occurred    *)
(* at; a time is a natural number, and a day lasts Day of them.            *)
(***************************************************************************)
EXTENDS Integers, FiniteSets, Sequences

CONSTANT Day            \* 24 hours

ASSUME DayAssumption == Day \in Nat \ {0}

-----------------------------------------------------------------------------
(* The code *)

\* What Load of funnels.yaml accepts: two steps or more, and no step twice.
IsFunnel(steps) ==
  Len(steps) >= 2 /\ \A i, j \in DOMAIN steps : steps[i] = steps[j] => i = j

\* The half-open buckets of a half-open window, aligned to midnight.
Buckets(from, to) ==
  LET start == Day * (from \div Day)
      days  == IF from < to THEN (to - start + Day - 1) \div Day ELSE 0
  IN  [i \in 1 .. days |-> <<start + (i - 1) * Day, start + i * Day>>]

\* FunnelStepFirstSeen: one row for each session and step name with an event in
\* the bucket, with the time of the first one.
FirstSeen(events, bucket, names) ==
  LET found == {e \in events : e.at >= bucket[1] /\ e.at < bucket[2] /\ e.name \in names}
      first == {e \in found :
                  \A f \in found : f.session = e.session /\ f.name = e.name => f.at >= e.at}
  IN  {[session |-> e.session, name |-> e.name, at |-> e.at] : e \in first}

\* The loop over the steps of a session comes to step i: no step up to it is
\* missing, or was first seen before the one ahead of it.
Reached(steps, rows, s, i) ==
  \A j \in 1 .. i : \E r \in rows :
    /\ r.session = s /\ r.name = steps[j]
    /\ j > 1 => \A q \in rows : q.session = s /\ q.name = steps[j - 1] => r.at >= q.at

Count(steps, rows) ==
  [i \in DOMAIN steps |->
     Cardinality({s \in {r.session : r \in rows} : Reached(steps, rows, s, i)})]

-----------------------------------------------------------------------------
(* What it is to compute: a session has traversed a funnel up to step i on   *)
(* a day when, of any two of these steps, the first event of the earlier one *)
(* is not after any of the later one.                                        *)

OnDay(events, day) == {e \in events : e.at \div Day = day}

Traversed(events, s, steps, i) ==
  LET of(j) == {e \in events : e.session = s /\ e.name = steps[j]} IN
  \A k \in 1 .. i :
    /\ of(k) # {}
    /\ \A j \in 1 .. k : \E e \in of(j) : \A f \in of(k) : f.at >= e.at

Traversals(events, day, steps, i) ==
  LET today == OnDay(events, day) IN
  Cardinality({s \in {e.session : e \in today} : Traversed(today, s, steps, i)})
=============================================================================
