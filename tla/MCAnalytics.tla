---------------------------- MODULE MCAnalytics ----------------------------
(***************************************************************************)
(* An instance of Analytics for TLC: a funnel of two steps and one that is *)
(* asked for and not defined; two days of two instants; a batch whose two  *)
(* events, the later step first, share the midnight between the days.      *)
(***************************************************************************)
EXTENDS Analytics

CONSTANTS s1, b1

MCBody      ==
  b1 :> [session |-> s1, events |-> <<[name |-> "added", at |-> 2], [name |-> "viewed", at |-> 2]>>]
MCFunnels   == {"checkout"}
MCSteps     == "checkout" :> <<"viewed", "added">>
MCRequested == <<"gone", "checkout">>

\* Count gives the sessions that traversed the funnel and narrows from step to
\* step: on every table of up to four events, of two sessions, three steps and
\* three instants, ties and repetitions among them.
Histories ==
  LET steps == <<"viewed", "added", "paid">>
      occurred == [session : {1, 2}, name : ToSet(steps), at : Day .. 2 * Day]
  IN  [steps : {steps}, events : {ToSet(h) : h \in [1 .. 4 -> occurred]}]

ASSUME CountAssumption ==
  \A h \in Histories :
    LET count == Count(h.steps, FirstSeen(h.events, <<Day, 2 * Day>>, ToSet(h.steps))) IN
    \A i \in DOMAIN h.steps :
      /\ count[i] = Traversals(h.events, 1, h.steps, i)
      /\ \A j \in 1 .. i : count[j] >= count[i]
=============================================================================
