-------------------------- MODULE OncePerKeyProofs --------------------------
(***************************************************************************)
(* That the abstract specification does say once per key.                  *)
(***************************************************************************)
EXTENDS OncePerKey, TLAPS

\* The invariant behind it: a key places one item, and effects follow placing.
IInv ==
  /\ TakenOnce
  /\ \A i, j \in placed : KeyOf[i] = KeyOf[j] => i = j

\* Whatever the order in which items are placed, taken, decided and undone, a
\* key's effect happens for one item.
THEOREM AbstractOnce == Spec => []TakenOnce
<1>1. Init => IInv
  BY DEF Init, IInv, TakenOnce
<1>2. IInv /\ [Next]_abstract => IInv'
  <2> SUFFICES ASSUME IInv, [Next]_abstract PROVE IInv'
    OBVIOUS
  <2>1. ASSUME NEW i \in Items, Place(i) PROVE IInv'
    BY <2>1 DEF Place, IInv, TakenOnce
  <2>2. ASSUME NEW i \in Items, Take(i) \/ Accept(i) \/ Reject(i) PROVE IInv'
    <3>1. placed' = placed /\ taken' \subseteq taken \cup {i} /\ i \in placed
      BY <2>2 DEF Take, Accept, Reject
    <3> QED
      BY <3>1 DEF IInv, TakenOnce
  <2>3. ASSUME NEW i \in Items, Show(i) \/ Undo(i) PROVE IInv'
    BY <2>3 DEF Show, Undo, IInv, TakenOnce
  <2>4. CASE UNCHANGED abstract
    BY <2>4 DEF abstract, IInv, TakenOnce
  <2> QED
    BY <2>1, <2>2, <2>3, <2>4 DEF Next
<1>3. IInv => TakenOnce
  BY DEF IInv
<1> QED
  BY <1>1, <1>2, <1>3, PTL DEF Spec
=============================================================================
