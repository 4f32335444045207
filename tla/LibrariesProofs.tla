-------------------------- MODULE LibrariesProofs --------------------------
(***************************************************************************)
(* Proofs about the money library and the id library, for any scale, any   *)
(* width of an id and any inputs.  Both are about numerals, and a fact of  *)
(* numerals is an induction over their length: it is made with the set of  *)
(* the lengths it holds for (Induction), which rests on the least-number   *)
(* principle.  What Horner's rule computes is a recursive function; that   *)
(* there is one is shown first (HornerSteps), and then used by its steps.  *)
(***************************************************************************)
EXTENDS Libraries, WellFoundedInduction, FiniteSetTheorems, SequenceTheorems, TLAPS

-----------------------------------------------------------------------------
(* Induction *)

\* A set of numbers has a least one.
LEMMA Smallest ==
  ASSUME NEW T \in SUBSET Nat, T # {}
  PROVE  \E x \in T : \A y \in T : x <= y
<1> DEFINE R == {ss \in Nat \X Nat : ss[1] < ss[2]}
<1>1. IsWellFoundedOn(R, Nat)
  BY NatLessThanWellFounded DEF OpToRel
<1> HIDE DEF R
<1>2. PICK x \in T : \A y \in T : ~ (<<y, x>> \in R)
  BY <1>1, WFMin, Zenon
<1>3. \A y \in T : y < x => <<y, x>> \in R
  BY DEF R
<1>4. ASSUME NEW y \in T PROVE x <= y
  <2>1. x \in Nat /\ y \in Nat /\ ~(y < x)
    BY <1>2, <1>3, <1>4
  <2> QED
    BY <2>1
<1> QED
  BY <1>4

\* A set of numbers that has the first one and with each the next has them all.
\* (The induction theorems of the library are about an operator, which the
\* provers cannot instantiate; a set they can.)
LEMMA Induction ==
  ASSUME NEW n \in Nat, NEW S, 0 \in S, \A i \in 0 .. n - 1 : i \in S => i + 1 \in S
  PROVE  \A i \in 0 .. n : i \in S
<1> DEFINE T == {i \in 0 .. n : i \notin S}
<1> SUFFICES ASSUME T # {} PROVE FALSE
  OBVIOUS
<1>1. T \in SUBSET Nat
  OBVIOUS
<1>2. PICK m \in T : \A i \in T : m <= i
  <2> HIDE DEF T
  <2> QED
    BY <1>1, Smallest
<1>3. m - 1 \in 0 .. n - 1 /\ m - 1 \notin T
  BY <1>2
<1> QED
  BY <1>2, <1>3

-----------------------------------------------------------------------------
(* Positional notation *)

\* v is what Horner's rule has of the first n digits, and of fewer.
Follows(v, r, f, d, n) ==
  v[0] = f /\ \A i \in 1 .. n : v[i] = r * v[i - 1] + d[i]

\* Two functions that follow Horner's rule are the same,
LEMMA HornerSame ==
  ASSUME NEW r, NEW f, NEW d, NEW n \in Nat
  PROVE  \A v, w : Follows(v, r, f, d, n) /\ Follows(w, r, f, d, n) => v[n] = w[n]
<1> SUFFICES ASSUME NEW v, NEW w, Follows(v, r, f, d, n), Follows(w, r, f, d, n)
             PROVE  v[n] = w[n]
  OBVIOUS
<1> DEFINE S == {i \in 0 .. n : v[i] = w[i]}
<1>1. 0 \in S
  BY DEF Follows
<1>2. ASSUME NEW i \in 0 .. n - 1, i \in S PROVE i + 1 \in S
  <2>1. i + 1 \in 1 .. n /\ (i + 1) - 1 = i
    OBVIOUS
  <2>2. v[i + 1] = r * v[i] + d[i + 1] /\ w[i + 1] = r * w[i] + d[i + 1]
    BY <2>1 DEF Follows
  <2> QED
    BY <1>2, <2>1, <2>2
<1>3. \A i \in 0 .. n : i \in S
  <2> HIDE DEF S
  <2> QED
    BY <1>1, <1>2, Induction
<1> QED
  BY <1>3

\* and there is one, whose last value Horner is.
LEMMA HornerSteps ==
  ASSUME NEW r \in Int, NEW f \in Int, NEW d \in Seq(Int)
  PROVE  \E v \in [0 .. Len(d) -> Int] :
           Follows(v, r, f, d, Len(d)) /\ Horner(r, f, d) = v[Len(d)]
<1> DEFINE n == Len(d)
           S == {m \in 0 .. n : \E v \in [0 .. m -> Int] : Follows(v, r, f, d, m)}
<1>1. n \in Nat /\ \A i \in 1 .. n : d[i] \in Int
  OBVIOUS
<1> HIDE DEF n
<1>2. 0 \in S
  <2> DEFINE w == [i \in 0 .. 0 |-> f]
  <2>1. w \in [0 .. 0 -> Int] /\ Follows(w, r, f, d, 0) /\ 0 \in 0 .. n
    BY <1>1 DEF Follows
  <2> HIDE DEF w
  <2> QED
    BY <2>1
<1>3. ASSUME NEW m \in 0 .. n - 1, m \in S PROVE m + 1 \in S
  <2>1. PICK v \in [0 .. m -> Int] : Follows(v, r, f, d, m)
    BY <1>3
  <2> DEFINE next == r * v[m] + d[m + 1]
             w == [i \in 0 .. m + 1 |-> IF i = m + 1 THEN next ELSE v[i]]
  <2>0. m \in Nat /\ m + 1 \in 1 .. n /\ v[m] \in Int /\ d[m + 1] \in Int
    BY <1>1
  <2>2. next \in Int
    BY <2>0
  <2> HIDE DEF next
  <2>3. w \in [0 .. m + 1 -> Int]
    BY <2>0, <2>2
  <2>4. ASSUME NEW i \in 1 .. m + 1 PROVE w[i] = r * w[i - 1] + d[i]
    <3>1. i - 1 \in 0 .. m /\ w[i - 1] = v[i - 1]
      BY <2>0
    <3>2. CASE i = m + 1
      BY <2>0, <3>1, <3>2 DEF next
    <3>3. CASE i # m + 1
      <4>1. i \in 1 .. m /\ w[i] = v[i]
        BY <2>0, <3>3
      <4> QED
        BY <2>1, <3>1, <4>1 DEF Follows
    <3> QED
      BY <3>2, <3>3
  <2>5. w[0] = f
    BY <2>0, <2>1 DEF Follows
  <2>6. Follows(w, r, f, d, m + 1)
    BY <2>4, <2>5 DEF Follows
  <2>7. m + 1 \in 0 .. n
    BY <2>0, <1>1
  <2> HIDE DEF w
  <2> QED
    BY <2>3, <2>6, <2>7
<1>4. n \in S
  <2>1. n \in 0 .. n
    BY <1>1
  <2> HIDE DEF S
  <2> QED
    BY <1>1, <1>2, <1>3, <2>1, Induction
<1>5. PICK v \in [0 .. n -> Int] : Follows(v, r, f, d, n)
  BY <1>4
<1> DEFINE Equation(u) == u = [i \in 0 .. n |-> IF i = 0 THEN f ELSE r * u[i - 1] + d[i]]
           value == CHOOSE u : Equation(u)
<1>6. Equation(v)
  <2>1. v = [i \in 0 .. n |-> v[i]]
    OBVIOUS
  <2>2. \A i \in 0 .. n : v[i] = IF i = 0 THEN f ELSE r * v[i - 1] + d[i]
    BY <1>1, <1>5 DEF Follows
  <2> QED
    BY <2>1, <2>2
<1>7. Equation(value)
  <2> HIDE DEF Equation
  <2> QED
    BY <1>6, Zenon
<1>8. Follows(value, r, f, d, n)
  <2> HIDE DEF value
  <2>1. value[0] = f
    BY <1>1, <1>7
  <2>2. ASSUME NEW i \in 1 .. n PROVE value[i] = r * value[i - 1] + d[i]
    BY <1>1, <1>7
  <2> QED
    BY <2>1, <2>2 DEF Follows
<1>9. value[n] = v[n]
  <2>1. \A x, y : Follows(x, r, f, d, n) /\ Follows(y, r, f, d, n) => x[n] = y[n]
    BY <1>1, HornerSame
  <2> HIDE DEF value
  <2> QED
    BY <1>5, <1>8, <2>1
<1>10. Horner(r, f, d) = value[n]
  BY DEF Horner, n
<1> QED
  BY <1>5, <1>9, <1>10 DEF n

\* So whatever follows the rule tells what Horner is.
LEMMA HornerIs ==
  ASSUME NEW r \in Int, NEW f \in Int, NEW d \in Seq(Int), NEW w, Follows(w, r, f, d, Len(d))
  PROVE  Horner(r, f, d) = w[Len(d)]
<1>1. PICK v \in [0 .. Len(d) -> Int] : Follows(v, r, f, d, Len(d)) /\ Horner(r, f, d) = v[Len(d)]
  BY HornerSteps, Zenon
<1>2. Len(d) \in Nat /\ Len(d) \in 0 .. Len(d)
  OBVIOUS
<1>3. \A x, y : Follows(x, r, f, d, Len(d)) /\ Follows(y, r, f, d, Len(d)) => x[Len(d)] = y[Len(d)]
  BY <1>2, HornerSame
<1> QED
  BY <1>1, <1>2, <1>3

\* What Zeros writes: so many digits, each a zero.
LEMMA ZerosAre ==
  ASSUME NEW n \in Nat
  PROVE  Zeros(n) \in Seq(Int) /\ Len(Zeros(n)) = n /\ \A i \in 1 .. n : Zeros(n)[i] = 0
BY DEF Zeros

\* Power is what ^ is: the empty product, and a factor more each time.
LEMMA PowerZero ==
  ASSUME NEW r \in Int
  PROVE  Power(r, 0) = 1
<1> DEFINE w == [i \in 0 .. 0 |-> 1]
<1>1. Zeros(0) \in Seq(Int) /\ Len(Zeros(0)) = 0
  BY ZerosAre
<1>2. Follows(w, r, 1, Zeros(0), Len(Zeros(0))) /\ w[Len(Zeros(0))] = 1
  BY <1>1 DEF Follows
<1>3. 1 \in Int
  OBVIOUS
<1> HIDE DEF w
<1>4. Horner(r, 1, Zeros(0)) = w[Len(Zeros(0))]
  BY <1>1, <1>2, <1>3, HornerIs, SMT
<1> QED
  BY <1>2, <1>4 DEF Power

\* One zero more is one factor more.
LEMMA PowerNext ==
  ASSUME NEW r \in Int, NEW n \in Nat
  PROVE  Power(r, n) \in Int /\ Power(r, n + 1) = r * Power(r, n)
<1> DEFINE d == Zeros(n)  e == Zeros(n + 1)
<1>1. /\ d \in Seq(Int) /\ Len(d) = n /\ \A i \in 1 .. n : d[i] = 0
      /\ e \in Seq(Int) /\ Len(e) = n + 1 /\ \A i \in 1 .. n + 1 : e[i] = 0
      /\ 1 \in Int
  BY ZerosAre
<1> HIDE DEF d, e
<1>2. PICK v \in [0 .. Len(e) -> Int] : Follows(v, r, 1, e, Len(e)) /\ Horner(r, 1, e) = v[Len(e)]
  BY <1>1, HornerSteps, Zenon
<1>3. Follows(v, r, 1, d, Len(d))
  BY <1>1, <1>2 DEF Follows
<1>4. Horner(r, 1, d) = v[n]
  BY <1>1, <1>3, HornerIs, SMT
<1>5. n + 1 \in 1 .. n + 1 /\ (n + 1) - 1 = n
  OBVIOUS
<1>6. v[n + 1] = r * v[n] + e[n + 1]
  BY <1>1, <1>2, <1>5 DEF Follows
<1>7. v[n] \in Int /\ e[n + 1] = 0
  BY <1>1, <1>2
<1>8. v[n + 1] = r * v[n]
  BY <1>6, <1>7
<1> QED
  BY <1>1, <1>2, <1>4, <1>7, <1>8 DEF Power, d, e

\* A power of a positive radix is positive.
LEMMA PowerPositive ==
  ASSUME NEW r \in Nat \ {0}, NEW n \in Nat
  PROVE  Power(r, n) \in Nat \ {0}
<1> DEFINE S == {i \in 0 .. n : Power(r, i) \in Nat \ {0}}
<1>1. 0 \in S
  BY PowerZero
<1>2. ASSUME NEW i \in 0 .. n - 1, i \in S PROVE i + 1 \in S
  <2>1. Power(r, i + 1) = r * Power(r, i)
    BY PowerNext
  <2>2. r * Power(r, i) \in Nat \ {0}
    BY <1>2
  <2> QED
    BY <2>1, <2>2
<1> HIDE DEF S
<1>3. n \in S
  BY <1>1, <1>2, Induction
<1> QED
  BY <1>3 DEF S

\* The powers of a radix multiply by adding the places.
LEMMA PowerSum ==
  ASSUME NEW r \in Nat \ {0}, NEW m \in Nat, NEW n \in Nat
  PROVE  Power(r, m + n) = Power(r, m) * Power(r, n)
<1> DEFINE S == {i \in 0 .. n : Power(r, m + i) = Power(r, m) * Power(r, i)}
<1>1. 0 \in S
  BY PowerZero, PowerPositive
<1>2. ASSUME NEW i \in 0 .. n - 1, i \in S PROVE i + 1 \in S
  <2>1. /\ Power(r, i + 1) = r * Power(r, i)
        /\ Power(r, (m + i) + 1) = r * Power(r, m + i)
        /\ m + (i + 1) = (m + i) + 1
    BY PowerNext
  <2>2. r \in Int /\ Power(r, m) \in Int /\ Power(r, i) \in Int
    BY PowerPositive
  <2>3. \A a, b, c \in Int : a * (b * c) = b * (a * c)
    OBVIOUS
  <2>4. r * Power(r, m + i) = Power(r, m) * (r * Power(r, i))
    BY <1>2, <2>2, <2>3
  <2> QED
    BY <2>1, <2>4
<1> HIDE DEF S
<1>3. n \in S
  BY <1>1, <1>2, Induction
<1> QED
  BY <1>3 DEF S

-----------------------------------------------------------------------------
(* Division *)

\* A quotient is known by its remainder being one.
LEMMA Quotient ==
  ASSUME NEW a \in Int, NEW b \in Nat \ {0}, NEW q \in Int, NEW t \in 0 .. b - 1, a = q * b + t
  PROVE  a \div b = q /\ a % b = t
<1> DEFINE p == a \div b  s == a % b
<1>1. p \in Int /\ s \in 0 .. b - 1 /\ a = b * p + s
  OBVIOUS
<1> HIDE DEF p, s
<1>2. \A x, y \in Int : x < y => b * x + b <= b * y
  <2> SUFFICES ASSUME NEW x \in Int, NEW y \in Int, x < y PROVE b * x + b <= b * y
    OBVIOUS
  <2>1. y - x - 1 \in Nat
    OBVIOUS
  <2>2. b * (y - x - 1) >= 0
    BY <2>1
  <2>3. b * (y - x - 1) = b * y - (b * x + b)
    OBVIOUS
  <2>4. b * y \in Int /\ b * x + b \in Int
    OBVIOUS
  <2> QED
    BY <2>2, <2>3, <2>4
<1>3. b * q = q * b /\ b * q \in Int /\ b * p \in Int
  BY <1>1
<1>4. p = q
  <2>1. CASE p < q
    <3>1. b * p + b <= b * q
      BY <1>1, <1>2, <2>1
    <3> QED
      BY <1>1, <1>3, <3>1
  <2>2. CASE q < p
    <3>1. b * q + b <= b * p
      BY <1>1, <1>2, <2>2
    <3> QED
      BY <1>1, <1>3, <3>1
  <2> QED
    BY <1>1, <2>1, <2>2
<1>5. s = t
  BY <1>1, <1>3, <1>4
<1> QED
  BY <1>4, <1>5 DEF p, s

\* Dividing by a product is dividing by one factor after the other.
LEMMA Quotient2 ==
  ASSUME NEW a \in Nat, NEW b \in Nat \ {0}, NEW c \in Nat \ {0}
  PROVE  a \div (c * b) = (a \div b) \div c
<1> DEFINE p == a \div b  t == a % b  q == p \div c  s == p % c
<1>1. p \in Nat /\ t \in 0 .. b - 1 /\ a = b * p + t
  OBVIOUS
<1>2. q \in Nat /\ s \in 0 .. c - 1 /\ p = c * q + s
  BY <1>1
<1> HIDE DEF p, t, q, s
<1>3. c * b \in Nat \ {0}
  OBVIOUS
<1>4. b * (c * q + s) = q * (c * b) + b * s
  BY <1>2
<1>5. b * s + t \in 0 .. c * b - 1
  <2>1. b * s + b <= b * c
    <3>1. c - s - 1 \in Nat
      BY <1>2
    <3>2. b * (c - s - 1) >= 0
      BY <3>1
    <3>3. b * (c - s - 1) = b * c - (b * s + b)
      BY <1>2
    <3>4. b * s + b \in Int /\ b * c \in Int
      BY <1>2
    <3> QED
      BY <3>2, <3>3, <3>4
  <2>2. b * s >= 0 /\ b * s \in Int /\ b * c = c * b /\ c * b \in Int
    BY <1>2
  <2> QED
    BY <1>1, <2>1, <2>2
<1>6. a = q * (c * b) + (b * s + t)
  <2>1. b * s \in Int /\ q * (c * b) \in Int
    BY <1>2, <1>3
  <2> QED
    BY <1>1, <1>2, <1>4, <2>1
<1>7. a \in Int /\ q \in Int
  BY <1>2
<1> HIDE DEF p, t, q, s
<1>8. a \div (c * b) = q
  BY <1>3, <1>5, <1>6, <1>7, Quotient
<1> QED
  BY <1>8 DEF q, p

-----------------------------------------------------------------------------
(* The digits of a value *)

\* The digits from one place to another are a number below the power of them.
LEMMA HornerBetween ==
  ASSUME NEW r \in Nat \ {0}, NEW d \in Seq(0 .. r - 1), NEW v \in [0 .. Len(d) -> Int],
         Follows(v, r, 0, d, Len(d)), NEW i \in 0 .. Len(d), NEW n \in 0 .. Len(d) - i
  PROVE  \E t \in 0 .. Power(r, n) - 1 : v[i + n] = v[i] * Power(r, n) + t
<1> DEFINE P(k) == \E t \in 0 .. Power(r, k) - 1 : v[i + k] = v[i] * Power(r, k) + t
           S == {k \in 0 .. n : P(k)}
<1>0. Len(d) \in Nat /\ i \in Nat /\ n \in Nat /\ v[i] \in Int
  OBVIOUS
<1>1. 0 \in S
  <2>1. Power(r, 0) = 1 /\ i + 0 = i /\ v[i] * 1 + 0 = v[i] /\ 0 \in 0 .. 1 - 1
    BY <1>0, PowerZero
  <2> QED
    BY <2>1, <1>0
<1>2. ASSUME NEW k \in 0 .. n - 1, k \in S PROVE k + 1 \in S
  <2>1. PICK t \in 0 .. Power(r, k) - 1 : v[i + k] = v[i] * Power(r, k) + t
    BY <1>2
  <2> DEFINE p == Power(r, k)  c == d[i + k + 1]  u == r * t + c
  <2>2. p \in Nat \ {0} /\ Power(r, k + 1) = r * p /\ c \in 0 .. r - 1
    <3>1. i + k + 1 \in 1 .. Len(d) /\ k \in Nat /\ r \in Int
      BY <1>0
    <3>2. c \in 0 .. r - 1
      BY <3>1
    <3> QED
      BY <3>1, <3>2, PowerPositive, PowerNext
  <2>3. v[i + k + 1] = r * v[i + k] + c
    <3>1. i + k + 1 \in 1 .. Len(d) /\ (i + k + 1) - 1 = i + k
      BY <1>0
    <3> QED
      BY <3>1 DEF Follows
  <2>t. t \in 0 .. p - 1
    OBVIOUS
  <2> HIDE DEF p, c
  <2>4. u \in 0 .. r * p - 1
    <3>1. p - 1 - t \in Nat /\ t \in Nat /\ p \in Nat
      BY <2>2, <2>t
    <3>2. r * (p - 1 - t) >= 0 /\ r * t >= 0 /\ r * t \in Int /\ r * p \in Int
      BY <3>1
    <3>3. r * (p - 1 - t) = r * p - r - r * t
      BY <3>1
    <3>4. r * t + r <= r * p
      BY <3>2, <3>3
    <3>5. \A x, y \in Int : x >= 0 /\ x + r <= y => x + c \in 0 .. y - 1
      BY <2>2
    <3> QED
      BY <3>2, <3>4, <3>5
  <2>5. v[i + k + 1] = v[i] * (r * p) + u
    <3>1. r * (v[i] * p + t) = v[i] * (r * p) + r * t
      BY <1>0, <2>2
    <3>2. r * t \in Int /\ v[i] * (r * p) \in Int
      BY <1>0, <2>2
    <3> QED
      BY <2>1, <2>2, <2>3, <3>1, <3>2 DEF p
  <2>6. i + (k + 1) = i + k + 1 /\ k + 1 \in 0 .. n
    BY <1>0
  <2> HIDE DEF u
  <2> QED
    BY <2>2, <2>4, <2>5, <2>6
<1>3. n \in Nat /\ n \in 0 .. n
  BY <1>0
<1> HIDE DEF S
<1>4. n \in S
  BY <1>1, <1>2, <1>3, Induction
<1> QED
  BY <1>4 DEF S

\* Horner's rule on digits of the radix, from zero: the values of its steps.
LEMMA ValueSteps ==
  ASSUME NEW r \in Nat \ {0}, NEW d \in Seq(0 .. r - 1)
  PROVE  /\ d \in Seq(Int)
         /\ \E v \in [0 .. Len(d) -> Int] :
              Follows(v, r, 0, d, Len(d)) /\ v[0] = 0 /\ Value(r, d) = v[Len(d)]
<1>1. d \in Seq(Int) /\ r \in Int /\ 0 \in Int
  OBVIOUS
<1>2. PICK v \in [0 .. Len(d) -> Int] : Follows(v, r, 0, d, Len(d)) /\ Horner(r, 0, d) = v[Len(d)]
  BY <1>1, HornerSteps, Zenon
<1>3. v[0] = 0
  BY <1>2 DEF Follows
<1> QED
  BY <1>1, <1>2, <1>3 DEF Value

\* Digits make a number of no more places than they are.
LEMMA ValueBelow ==
  ASSUME NEW r \in Nat \ {0}, NEW d \in Seq(0 .. r - 1)
  PROVE  Value(r, d) \in 0 .. Power(r, Len(d)) - 1
<1> DEFINE n == Len(d)
<1>1. PICK v \in [0 .. n -> Int] : Follows(v, r, 0, d, n) /\ v[0] = 0 /\ Value(r, d) = v[n]
  BY ValueSteps
<1>2. n \in Nat /\ 0 \in 0 .. n /\ n \in 0 .. n - 0
  OBVIOUS
<1>3. \E t \in 0 .. Power(r, n) - 1 : v[0 + n] = v[0] * Power(r, n) + t
  BY <1>1, <1>2, HornerBetween
<1>4. Power(r, n) \in Nat /\ 0 + n = n
  BY <1>2, PowerPositive
<1> HIDE DEF n
<1>5. \A p \in Nat : \A t \in 0 .. p - 1 : 0 * p + t = t
  OBVIOUS
<1>6. v[n] \in 0 .. Power(r, n) - 1
  BY <1>1, <1>3, <1>4, <1>5
<1> QED
  BY <1>1, <1>6 DEF n

\* Reading digits and taking them out again gives them back,
LEMMA DigitsOfValue ==
  ASSUME NEW r \in Nat \ {0}, NEW d \in Seq(0 .. r - 1)
  PROVE  /\ \A i \in 1 .. Len(d) : Digit(r, Value(r, d), Len(d) - i) = d[i]
         /\ Digits(r, Value(r, d), Len(d)) = d
<1> DEFINE n == Len(d)
<1>1. PICK v \in [0 .. n -> Int] : Follows(v, r, 0, d, n) /\ v[0] = 0 /\ Value(r, d) = v[n]
  BY ValueSteps
<1>2. n \in Nat /\ \A i \in 1 .. n : d[i] \in 0 .. r - 1
  OBVIOUS
<1> HIDE DEF n
<1>3. ASSUME NEW i \in 1 .. n PROVE Digit(r, v[n], n - i) = d[i]
  <2> DEFINE p == Power(r, n - i)
  <2>1. i \in 0 .. n /\ n - i \in 0 .. n - i /\ n - i \in Nat /\ i + (n - i) = n
    BY <1>2
  <2>2. \E t \in 0 .. p - 1 : v[i + (n - i)] = v[i] * p + t
    BY <1>1, <2>1, HornerBetween, Zenon DEF n
  <2>3. p \in Nat \ {0}
    BY <2>1, PowerPositive
  <2>4. v[n] \in Int /\ v[i] \in Int /\ v[i - 1] \in Int
    BY <1>1, <1>2
  <2> HIDE DEF p
  <2>5. v[n] \div p = v[i]
    <3>1. PICK t \in 0 .. p - 1 : v[n] = v[i] * p + t
      BY <2>1, <2>2
    <3> QED
      BY <2>3, <2>4, <3>1, Quotient, Zenon
  <2>6. v[i] = r * v[i - 1] + d[i]
    BY <1>1 DEF Follows
  <2>7. d[i] \in 0 .. r - 1 /\ r * v[i - 1] = v[i - 1] * r
    BY <1>2, <2>4
  <2>8. v[i] % r = d[i]
    BY <2>4, <2>6, <2>7, Quotient
  <2> QED
    BY <2>5, <2>8 DEF Digit, p
<1>4. Digits(r, v[n], n) = [i \in 1 .. n |-> d[i]]
  BY <1>3 DEF Digits
<1>5. d = [i \in 1 .. n |-> d[i]]
  BY DEF n
<1> QED
  BY <1>1, <1>3, <1>4, <1>5 DEF n

\* and so does taking out as many digits as a number has and reading them.
LEMMA ValueOfDigits ==
  ASSUME NEW r \in Nat \ {0}, NEW places \in Nat, NEW n \in Nat, n < Power(r, places)
  PROVE  /\ Digits(r, n, places) \in Seq(0 .. r - 1)
         /\ Len(Digits(r, n, places)) = places
         /\ Value(r, Digits(r, n, places)) = n
<1> DEFINE d == Digits(r, n, places)
           w == [i \in 0 .. places |-> n \div Power(r, places - i)]
<1>1. ASSUME NEW i \in 0 .. places
      PROVE  Power(r, places - i) \in Nat \ {0} /\ n \div Power(r, places - i) \in Nat
  <2>1. places - i \in Nat
    OBVIOUS
  <2>2. Power(r, places - i) \in Nat \ {0}
    BY <2>1, PowerPositive
  <2> QED
    BY <2>2
<1>2. \A i \in 1 .. places : Digit(r, n, places - i) \in 0 .. r - 1
  BY <1>1 DEF Digit
<1>3. /\ d \in Seq(0 .. r - 1) /\ d \in Seq(Int) /\ Len(d) = places
      /\ \A i \in 1 .. places : d[i] = Digit(r, n, places - i)
  BY <1>2 DEF Digits
<1> HIDE DEF d
<1>4. w[0] = 0
  <2>1. Power(r, places) \in Nat \ {0} /\ n = 0 * Power(r, places) + n /\ n \in 0 .. Power(r, places) - 1
    BY PowerPositive
  <2>2. n \div Power(r, places) = 0
    BY <2>1, Quotient
  <2> QED
    BY <2>2
<1>5. ASSUME NEW i \in 1 .. places PROVE w[i] = r * w[i - 1] + d[i]
  <2> DEFINE p == Power(r, places - i)
  <2>1. p \in Nat \ {0} /\ places - i \in Nat /\ places - i + 1 = places - (i - 1)
    BY PowerPositive
  <2>2. Power(r, places - (i - 1)) = r * p
    BY <2>1, PowerNext
  <2>3. d[i] = (n \div p) % r
    BY <1>3 DEF Digit
  <2>4. w[i] = n \div p /\ w[i - 1] = n \div (r * p)
    BY <2>2
  <2> HIDE DEF p, w
  <2>5. n \div (r * p) = (n \div p) \div r
    BY <2>1, Quotient2
  <2>6. n \div p \in Nat
    BY <2>1
  <2>7. \A a \in Nat : a = r * (a \div r) + (a % r)
    OBVIOUS
  <2> QED
    BY <2>3, <2>4, <2>5, <2>6, <2>7
<1>6. Follows(w, r, 0, d, Len(d))
  BY <1>3, <1>4, <1>5 DEF Follows
<1>7. w[places] = n
  <2>1. Power(r, places - places) = 1
    BY PowerZero
  <2> QED
    BY <2>1
<1>8. r \in Int /\ 0 \in Int
  OBVIOUS
<1> HIDE DEF w
<1>9. Horner(r, 0, d) = w[Len(d)]
  BY <1>3, <1>6, <1>8, HornerIs, Zenon
<1> QED
  BY <1>3, <1>7, <1>9 DEF Value, d

\* Zeros after the digits move them up.
LEMMA ValuePadded ==
  ASSUME NEW r \in Nat \ {0}, NEW d \in Seq(0 .. r - 1), NEW n \in Nat
  PROVE  /\ d \o Zeros(n) \in Seq(0 .. r - 1)
         /\ Len(d \o Zeros(n)) = Len(d) + n
         /\ Value(r, d \o Zeros(n)) = Value(r, d) * Power(r, n)
<1> DEFINE e == d \o Zeros(n)  m == Len(d)
<1>1. /\ e \in Seq(0 .. r - 1) /\ Len(e) = m + n /\ m \in Nat /\ m = Len(d)
      /\ \A i \in 1 .. m : e[i] = d[i]
      /\ \A i \in 1 .. n : e[m + i] = 0
  <2> DEFINE z == Zeros(n)
  <2>1. z \in Seq(0 .. r - 1) /\ Len(z) = n /\ \A i \in 1 .. n : z[i] = 0
    BY DEF Zeros
  <2> HIDE DEF z
  <2>2. e = d \o z
    BY DEF z
  <2> HIDE DEF e
  <2>3. d \in Seq(0 .. r - 1) /\ m = Len(d) /\ m \in Nat
    OBVIOUS
  <2> HIDE DEF m
  <2>4. e \in Seq(0 .. r - 1) /\ Len(e) = m + n
    <3>1. z \in Seq(0 .. r - 1)
      BY <2>1
    <3> QED
      BY <2>1, <2>2, <2>3, <3>1, ConcatProperties, Zenon
  <2>5. \A i \in 1 .. m : e[i] = d[i]
    BY <2>1, <2>2, <2>3
  <2>6. \A i \in 1 .. n : e[m + i] = z[i]
    BY <2>1, <2>2, <2>3
  <2> QED
    BY <2>1, <2>3, <2>4, <2>5, <2>6
<1> HIDE DEF e, m
<1>2. PICK v \in [0 .. m + n -> Int] : Follows(v, r, 0, e, m + n) /\ v[0] = 0 /\ Value(r, e) = v[m + n]
  <2>1. PICK v \in [0 .. Len(e) -> Int] : Follows(v, r, 0, e, Len(e)) /\ v[0] = 0 /\ Value(r, e) = v[Len(e)]
    BY <1>1, ValueSteps
  <2>2. Len(e) = m + n
    BY <1>1
  <2> QED
    BY <2>1, <2>2
<1>3. Follows(v, r, 0, d, m)
  BY <1>1, <1>2 DEF Follows
<1>4. d \in Seq(Int) /\ r \in Int /\ 0 \in Int
  OBVIOUS
<1>5. Value(r, d) = v[m]
  <2>1. Horner(r, 0, d) = v[Len(d)]
    BY <1>1, <1>3, <1>4, HornerIs, Zenon
  <2> QED
    BY <1>1, <2>1 DEF Value
<1> DEFINE S == {k \in 0 .. n : v[m + k] = v[m] * Power(r, k)}
<1>6. v[m] \in Int
  BY <1>1
<1>7. 0 \in S
  BY <1>1, <1>6, PowerZero
<1>8. ASSUME NEW k \in 0 .. n - 1, k \in S PROVE k + 1 \in S
  <2> DEFINE j == m + (k + 1)
  <2>1. /\ j \in 1 .. m + n /\ j - 1 = m + k /\ m + k \in 0 .. m + n
        /\ k \in Nat /\ k + 1 \in 1 .. n /\ r \in Int
    BY <1>1
  <2>2. e[j] = 0
    BY <1>1, <2>1
  <2> HIDE DEF j
  <2>3. v[j] = r * v[j - 1] + e[j]
    BY <1>2, <2>1 DEF Follows
  <2>4. v[j - 1] \in Int /\ v[j - 1] = v[m] * Power(r, k)
    BY <1>8, <2>1
  <2>5. Power(r, k + 1) = r * Power(r, k) /\ Power(r, k) \in Int
    BY <2>1, PowerNext
  <2>6. \A a, b \in Int : r * (a * b) + 0 = a * (r * b)
    OBVIOUS
  <2>7. v[j] = v[m] * Power(r, k + 1)
    BY <1>6, <2>2, <2>3, <2>4, <2>5, <2>6
  <2> QED
    BY <2>1, <2>7 DEF j
<1> HIDE DEF S
<1>9. n \in S
  <2>1. n \in 0 .. n
    OBVIOUS
  <2> QED
    BY <1>7, <1>8, <2>1, Induction
<1> QED
  BY <1>1, <1>2, <1>5, <1>9 DEF S, e

-----------------------------------------------------------------------------
(* Division of amounts *)

\* What big.Int's QuoRem promises: the quotient and the remainder make up the
\* dividend, and the remainder is smaller than the divisor and has the sign of
\* the dividend.
LEMMA QuoRem ==
  ASSUME NEW n \in Int, NEW d \in Int \ {0}
  PROVE  /\ Quo(n, d) \in Int /\ Rem(n, d) \in Int
         /\ n = Quo(n, d) * d + Rem(n, d)
         /\ Magnitude(Rem(n, d)) \in Nat /\ Magnitude(Rem(n, d)) < Magnitude(d)
         /\ n >= 0 => Rem(n, d) >= 0
         /\ n <= 0 => Rem(n, d) <= 0
         /\ Magnitude(n) = Magnitude(Quo(n, d) * d) + Magnitude(Rem(n, d))
PROOF
<1> DEFINE N == Magnitude(n)  D == Magnitude(d)  q == N \div D  r == N % D
<1>1. N \in Nat /\ D \in Nat /\ D > 0
  BY DEF Magnitude
<1>2. q \in Nat /\ r \in 0 .. D - 1 /\ N = D * q + r
  BY <1>1
<1> HIDE DEF q, r
<1>3. Quo(n, d) = (IF Opposite(n, d) THEN -q ELSE q) /\ Rem(n, d) = (IF n < 0 THEN -r ELSE r)
  BY DEF Quo, Rem, q, r
<1>4. Quo(n, d) * d = IF n < 0 THEN -(D * q) ELSE D * q
  BY <1>1, <1>2, <1>3 DEF Opposite, Magnitude
<1>5. D * q \in Nat
  BY <1>1, <1>2
<1> QED
  BY <1>1, <1>2, <1>3, <1>4, <1>5 DEF Opposite, Magnitude

\* DivRound, under Div and MulRate, for every dividend, divisor and mode: what it
\* returns is a nearest integer to the exact quotient, a tie broken as the mode
\* says, or for Down the next one toward zero.
THEOREM Rounded ==
  ASSUME NEW n \in Int, NEW d \in Int \ {0}, NEW mode \in Modes
  PROVE  IsRounded(DivRound(n, d, mode), n, d, mode)
PROOF
<1> DEFINE q == Quo(n, d)  r == Rem(n, d)  P == q * d  D == Magnitude(d)
           s == IF Opposite(n, d) THEN -1 ELSE 1
<1>1. /\ q \in Int /\ r \in Int /\ P \in Int /\ n = P + r
      /\ Magnitude(r) \in Nat /\ Magnitude(r) < D /\ D \in Nat \ {0}
      /\ n >= 0 => r >= 0
      /\ n <= 0 => r <= 0
      /\ Magnitude(n) = Magnitude(P) + Magnitude(r)
  <2>1. D \in Nat \ {0}
    BY DEF Magnitude
  <2>2. q * d \in Int
    BY QuoRem
  <2> QED
    BY <2>1, <2>2, QuoRem
<1>2. (q + s) * d = P + s * d /\ s * d = (IF n < 0 THEN -D ELSE D)
  BY <1>1 DEF Opposite, Magnitude
<1>3. q % 2 \in {0, 1} /\ (q % 2 = 1 => (q + s) % 2 = 0)
  BY <1>1
<1>4. DivRound(n, d, mode) = IF RoundAway(n, d, mode) THEN q + s ELSE q
  BY <1>1 DEF DivRound
<1>5. RoundAway(n, d, mode) <=>
        /\ mode # "Down" /\ r # 0
        /\ \/ 2 * Magnitude(r) > D
           \/ 2 * Magnitude(r) = D /\ (mode = "HalfUp" \/ q % 2 = 1)
  BY DEF RoundAway
<1> HIDE DEF q, r, D
<1>6. CASE RoundAway(n, d, mode)
  <2>1. n - (q + s) * d = IF n < 0 THEN r + D ELSE r - D
    BY <1>1, <1>2
  <2>2. Magnitude(n - (q + s) * d) = D - Magnitude(r)
    BY <2>1, <1>1 DEF Magnitude
  <2>3. Magnitude((q + s) * d) = Magnitude(P) + D
    BY <1>1, <1>2, <1>5, <1>6 DEF Magnitude
  <2> HIDE DEF P, s
  <2>4. 2 * Magnitude(n - (q + s) * d) = D => Magnitude((q + s) * d) > Magnitude(n)
    BY <2>2, <2>3, <1>1 DEF Magnitude
  <2>5. mode # "Down" /\ 2 * Magnitude(r) >= D
    BY <1>1, <1>5, <1>6
  <2>6. 2 * Magnitude(n - (q + s) * d) <= D
    BY <2>2, <2>5, <1>1
  <2>7. ASSUME 2 * Magnitude(n - (q + s) * d) = D, mode = "HalfEven"
        PROVE  (q + s) % 2 = 0
    <3>1. 2 * Magnitude(r) = D
      BY <2>2, <2>7, <1>1
    <3> QED
      BY <3>1, <2>7, <1>1, <1>3, <1>5, <1>6
  <2>8. IsRounded(q + s, n, d, mode)
    BY <2>4, <2>5, <2>6, <2>7 DEF IsRounded, D
  <2> QED
    BY <2>8, <1>4, <1>6
<1>7. CASE ~RoundAway(n, d, mode)
  <2>1. Magnitude(n - q * d) = Magnitude(r) /\ Magnitude(q * d) <= Magnitude(n)
    BY <1>1 DEF Magnitude
  <2>2. r = 0 => Magnitude(r) = 0
    BY DEF Magnitude
  <2> HIDE DEF P, s
  <2>3. mode # "Down" => 2 * Magnitude(r) <= D
    BY <2>2, <1>1, <1>5, <1>7
  <2>4. mode # "Down" /\ 2 * Magnitude(r) = D => mode = "HalfEven" /\ q % 2 = 0
    BY <2>2, <1>1, <1>3, <1>5, <1>7 DEF Modes
  <2>5. IsRounded(q, n, d, mode)
    BY <2>1, <2>3, <2>4, <1>1 DEF IsRounded, D
  <2> QED
    BY <2>5, <1>4, <1>7
<1> QED
  BY <1>6, <1>7

\* The two results DivRound chooses between (divRound).
LEMMA DivRoundIs ==
  ASSUME NEW n \in Int, NEW d \in Int \ {0}, NEW mode \in Modes
  PROVE  /\ DivRound(n, d, mode) \in Int
         /\ ~RoundAway(n, d, mode) => DivRound(n, d, mode) = Quo(n, d)
         /\ RoundAway(n, d, mode) =>
              DivRound(n, d, mode) = Quo(n, d) + (IF Opposite(n, d) THEN -1 ELSE 1)
<1>1. Quo(n, d) \in Int
  BY QuoRem
<1> QED
  BY <1>1 DEF DivRound

\* What divides is divided exactly, in any mode.
LEMMA ExactQuotient ==
  ASSUME NEW q \in Int, NEW d \in Int \ {0}, NEW mode \in Modes
  PROVE  DivRound(q * d, d, mode) = q
<1>1. q * d \in Int
  OBVIOUS
<1>2. Magnitude(q * d) = Magnitude(q) * Magnitude(d) + 0
  BY DEF Magnitude
<1>3. Magnitude(q) \in Int /\ Magnitude(d) \in Nat \ {0} /\ 0 \in 0 .. Magnitude(d) - 1
  BY DEF Magnitude
<1>4. Magnitude(q * d) \in Int
  BY <1>1 DEF Magnitude
<1>5. Magnitude(q * d) \div Magnitude(d) = Magnitude(q) /\ Magnitude(q * d) % Magnitude(d) = 0
  BY <1>2, <1>3, <1>4, Quotient
<1>6. q # 0 => (Opposite(q * d, d) <=> q < 0)
  BY DEF Opposite
<1>7. Quo(q * d, d) = q
  BY <1>5, <1>6 DEF Quo, Magnitude
<1>8. Rem(q * d, d) = 0
  BY <1>5 DEF Rem
<1>9. ~RoundAway(q * d, d, mode)
  BY <1>8 DEF RoundAway
<1> QED
  BY <1>1, <1>7, <1>9, DivRoundIs

\* A debt is rounded as the credit of the same size.
LEMMA Mirror ==
  ASSUME NEW n \in Int, NEW d \in Int \ {0}, NEW mode \in Modes
  PROVE  DivRound(-n, d, mode) = -DivRound(n, d, mode)
<1>1. -n \in Int /\ Magnitude(-n) = Magnitude(n) /\ Quo(n, d) \in Int /\ Rem(n, d) \in Int
  BY QuoRem DEF Magnitude
<1>2. CASE n = 0
  <2>1. 0 \in Int /\ 0 * d = 0
    OBVIOUS
  <2>2. DivRound(0, d, mode) = 0
    BY <2>1, ExactQuotient
  <2>3. -n = 0
    <3>1. \A x \in Int : x + n = 0 => x = 0
      BY <1>2
    <3>2. -n + n = 0
      OBVIOUS
    <3> QED
      BY <1>1, <3>1, <3>2
  <2> QED
    BY <1>2, <2>2, <2>3
<1>3. CASE n # 0
  <2> DEFINE k == Magnitude(n) \div Magnitude(d)  r == Magnitude(n) % Magnitude(d)
  <2>1. Opposite(-n, d) <=> ~Opposite(n, d)
    BY <1>3 DEF Opposite
  <2>2. Magnitude(n) \in Nat /\ Magnitude(d) \in Nat \ {0}
    BY DEF Magnitude
  <2>3. k \in Int /\ r \in Int
    BY <2>2
  <2>4. /\ Quo(n, d) = (IF Opposite(n, d) THEN -k ELSE k)
        /\ Quo(-n, d) = (IF Opposite(-n, d) THEN -k ELSE k)
    BY <1>1 DEF Quo
  <2>5. /\ Rem(n, d) = (IF n < 0 THEN -r ELSE r)
        /\ Rem(-n, d) = (IF -n < 0 THEN -r ELSE r)
    BY <1>1 DEF Rem
  <2> HIDE DEF k, r
  <2>6. Quo(-n, d) = -Quo(n, d)
    BY <2>1, <2>3, <2>4
  <2>7. Rem(-n, d) = -Rem(n, d)
    BY <1>3, <2>3, <2>5
  <2>8. Magnitude(Rem(-n, d)) = Magnitude(Rem(n, d)) /\ (Rem(-n, d) = 0 <=> Rem(n, d) = 0)
    BY <1>1, <2>7 DEF Magnitude
  <2>9. Quo(-n, d) % 2 = 1 <=> Quo(n, d) % 2 = 1
    BY <1>1, <2>6
  <2>10. RoundAway(-n, d, mode) <=> RoundAway(n, d, mode)
    BY <2>8, <2>9 DEF RoundAway
  <2> DEFINE q == Quo(n, d)
  <2>11. /\ ~RoundAway(n, d, mode) => DivRound(n, d, mode) = q
         /\ RoundAway(n, d, mode) =>
              DivRound(n, d, mode) = q + (IF Opposite(n, d) THEN -1 ELSE 1)
    BY DivRoundIs
  <2>12. /\ ~RoundAway(-n, d, mode) => DivRound(-n, d, mode) = -q
         /\ RoundAway(-n, d, mode) =>
              DivRound(-n, d, mode) = -q + (IF Opposite(-n, d) THEN -1 ELSE 1)
    BY <1>1, <2>6, DivRoundIs
  <2>13. q \in Int
    BY <1>1
  <2> HIDE DEF q
  <2> QED
    BY <2>1, <2>10, <2>11, <2>12, <2>13
<1> QED
  BY <1>2, <1>3

-----------------------------------------------------------------------------
(* Split *)

\* The leading shares, as many as there are units left over, take one of them.
LEMMA ShareIs ==
  ASSUME NEW units \in Int, NEW n \in Nat \ {0}
  PROVE  LET base == Quo(units, n)
             left == Magnitude(Rem(units, n))
             one  == IF units < 0 THEN -1 ELSE 1
         IN  /\ base \in Int /\ left \in 0 .. n - 1
             /\ units = n * base + one * left
             /\ \A i \in 1 .. n : Share(units, n, i) = base + (IF i <= left THEN one ELSE 0)
             /\ units >= 0 => base >= 0
             /\ units < 0 => base <= 0
<1> DEFINE base == Quo(units, n)  left == Magnitude(Rem(units, n))
           one  == IF units < 0 THEN -1 ELSE 1
<1>1. /\ base \in Int /\ Rem(units, n) \in Int /\ units = base * n + Rem(units, n)
      /\ left \in Nat /\ left < n
      /\ units >= 0 => Rem(units, n) >= 0
      /\ units <= 0 => Rem(units, n) <= 0
  <2>1. n \in Int \ {0} /\ Magnitude(n) = n
    BY DEF Magnitude
  <2> QED
    BY <2>1, QuoRem
<1>2. (units >= 0 => base >= 0) /\ (units < 0 => base <= 0)
  BY DEF Quo, Opposite, Magnitude
<1>3. \A i \in 1 .. n : Share(units, n, i) = base + (IF i <= left THEN one ELSE 0)
  BY <1>1 DEF Share
<1>4. units = n * base + one * left
  BY <1>1 DEF Magnitude
<1> QED
  BY <1>1, <1>2, <1>3, <1>4

\* Split, for every amount and number of shares: the shares that take one more
\* are as many as there are units left over, so base and extras make up the
\* amount; and of two shares the earlier is the larger, by one at most.
THEOREM Shares ==
  ASSUME NEW units \in Int, NEW n \in Nat \ {0}
  PROVE  LET base  == Quo(units, n)
             extra == {i \in 1 .. n : Share(units, n, i) # base}
         IN  /\ IsFiniteSet(extra)
             /\ units = n * base + (IF units < 0 THEN -1 ELSE 1) * Cardinality(extra)
             /\ \A i \in extra : Share(units, n, i) = base + (IF units < 0 THEN -1 ELSE 1)
             /\ \A i, j \in 1 .. n : i <= j =>
                  Magnitude(Share(units, n, i)) - Magnitude(Share(units, n, j)) \in {0, 1}
PROOF
<1> DEFINE base  == Quo(units, n)  left == Magnitude(Rem(units, n))
           extra == {i \in 1 .. n : Share(units, n, i) # base}
           one   == IF units < 0 THEN -1 ELSE 1
<1>1. /\ base \in Int /\ left \in 0 .. n - 1
      /\ units = n * base + one * left
      /\ \A i \in 1 .. n : Share(units, n, i) = base + (IF i <= left THEN one ELSE 0)
      /\ units >= 0 => base >= 0
      /\ units < 0 => base <= 0
  BY ShareIs
<1>2. extra = 1 .. left
  BY <1>1
<1>3. IsFiniteSet(extra) /\ Cardinality(extra) = left
  <2> HIDE DEF left
  <2>1. /\ IsFiniteSet(1 .. left)
        /\ Cardinality(1 .. left) = IF 1 > left THEN 0 ELSE left - 1 + 1
    <3>1. 1 \in Int /\ left \in Int
      BY <1>1
    <3> QED
      BY <3>1, FS_Interval, Zenon
  <2>2. Cardinality(1 .. left) = left
    BY <1>1, <2>1
  <2> QED
    BY <1>2, <2>1, <2>2
<1>4. \A i, j \in 1 .. n : i <= j =>
        Magnitude(Share(units, n, i)) - Magnitude(Share(units, n, j)) \in {0, 1}
  <2> HIDE DEF base, left
  <2> QED
    BY <1>1 DEF Magnitude
<1> QED
  BY <1>1, <1>2, <1>3, <1>4

\* The sum of the first i shares, which Add makes of them one by one.
LEMMA SplitAddsUp ==
  ASSUME NEW units \in Int, NEW n \in Nat \ {0}
  PROVE  IsSplit(Split(Amount(units, "EUR"), n), Amount(units, "EUR"))
<1> DEFINE base == Quo(units, n)  left == Magnitude(Rem(units, n))
           one  == IF units < 0 THEN -1 ELSE 1
           a == Amount(units, "EUR")  shares == Split(a, n)
           up(i) == i * base + one * (IF i <= left THEN i ELSE left)
           Equation(u) == u = [i \in 0 .. Len(shares) |->
                                 IF i = 0 THEN Amount(0, a.currency) ELSE Add(u[i - 1], shares[i])]
           sum == CHOOSE u : Equation(u)
           w == [i \in 0 .. n |-> Amount(up(i), "EUR")]
<1>1. /\ base \in Int /\ left \in 0 .. n - 1
      /\ units = n * base + one * left
      /\ \A i \in 1 .. n : Share(units, n, i) = base + (IF i <= left THEN one ELSE 0)
      /\ \A i, j \in 1 .. n : i <= j =>
           Magnitude(Share(units, n, i)) - Magnitude(Share(units, n, j)) \in {0, 1}
  BY ShareIs, Shares
<1>2. a.units = units /\ a.currency = "EUR"
  BY DEF Amount
<1>3. shares = [i \in 1 .. n |-> Amount(Share(units, n, i), "EUR")]
  BY <1>2 DEF Split
<1>4. Len(shares) = n /\ DOMAIN shares = 1 .. n
  BY <1>3
<1>5. \A i \in 1 .. n : shares[i].units = Share(units, n, i)
  BY <1>3 DEF Amount
<1> HIDE DEF shares, base, left
<1>6. up(0) = 0 /\ \A i \in 1 .. n : up(i) = up(i - 1) + Share(units, n, i)
  <2>1. up(0) = 0
    BY <1>1
  <2>2. ASSUME NEW i \in 1 .. n PROVE up(i) = up(i - 1) + Share(units, n, i)
    <3>1. i * base = (i - 1) * base + base
      BY <1>1
    <3>2. (i - 1) * base \in Int
      BY <1>1
    <3>3. one * (IF i <= left THEN i ELSE left) =
            one * (IF i - 1 <= left THEN i - 1 ELSE left) + (IF i <= left THEN one ELSE 0)
      BY <1>1
    <3> QED
      BY <1>1, <3>1, <3>2, <3>3
  <2> QED
    BY <2>1, <2>2
<1> HIDE DEF up
<1>7. \A x, y : Add(Amount(x, "EUR"), Amount(y, "EUR")) = Amount(x + y, "EUR")
  BY DEF Add, Amount
<1>8. \A i \in 1 .. n : w[i] = Add(w[i - 1], shares[i])
  BY <1>3, <1>6, <1>7
<1>9. Equation(w)
  <2>1. w[0] = Amount(0, a.currency)
    BY <1>2, <1>6
  <2>2. w = [i \in 0 .. n |-> w[i]]
    OBVIOUS
  <2> HIDE DEF w
  <2>3. \A i \in 0 .. n : i # 0 => i \in 1 .. n
    OBVIOUS
  <2>4. \A i \in 0 .. n : w[i] = IF i = 0 THEN Amount(0, a.currency) ELSE Add(w[i - 1], shares[i])
    BY <1>8, <2>1, <2>3
  <2> QED
    BY <1>4, <2>2, <2>4
<1>10. Equation(sum)
  <2> HIDE DEF Equation, w
  <2> QED
    BY <1>9, Zenon
<1>11. sum[n] = w[n]
  <2> DEFINE S == {i \in 0 .. n : sum[i] = w[i]}
  <2> HIDE DEF sum
  <2>1. 0 \in S
    BY <1>2, <1>6, <1>4, <1>10
  <2>2. ASSUME NEW i \in 0 .. n - 1, i \in S PROVE i + 1 \in S
    <3>1. i + 1 \in 1 .. n /\ i + 1 \in 0 .. n /\ i + 1 # 0 /\ (i + 1) - 1 = i
      OBVIOUS
    <3>2. sum[i + 1] = Add(sum[i], shares[i + 1])
      BY <1>4, <1>10, <3>1
    <3> HIDE DEF w
    <3>3. w[i + 1] = Add(w[i], shares[i + 1])
      BY <1>8, <3>1
    <3> QED
      BY <2>2, <3>1, <3>2, <3>3
  <2>3. n \in 0 .. n
    OBVIOUS
  <2> HIDE DEF S
  <2>4. n \in S
    BY <2>1, <2>2, <2>3, Induction
  <2> QED
    BY <2>4 DEF S
<1>12. up(n) = units
  BY <1>1 DEF up
<1>13. sum[Len(shares)] = a
  BY <1>4, <1>11, <1>12
<1>14. \A i, j \in DOMAIN shares : i <= j =>
         Magnitude(shares[i].units) - Magnitude(shares[j].units) \in {0, 1}
  BY <1>1, <1>4, <1>5
<1> QED
  BY <1>13, <1>14 DEF IsSplit, shares

-----------------------------------------------------------------------------
(* Decimal text *)

\* A positive factor common to both sides changes no comparison.
LEMMA Cancel ==
  ASSUME NEW x \in Int, NEW y \in Int, NEW k \in Nat \ {0}
  PROVE  (x * k < y * k <=> x < y) /\ (x * k <= y * k <=> x <= y) /\ (x * k = y * k <=> x = y)
<1>1. \A z \in Int : (z * k >= 0 <=> z >= 0) /\ (z * k > 0 <=> z > 0)
  <2> SUFFICES ASSUME NEW z \in Int PROVE (z * k >= 0 <=> z >= 0) /\ (z * k > 0 <=> z > 0)
    OBVIOUS
  <2>1. CASE z > 0
    <3>1. z * k > 0
      BY <2>1
    <3> QED
      BY <2>1, <3>1
  <2>2. CASE z = 0
    BY <2>2
  <2>3. CASE z < 0
    <3>1. z * k < 0
      BY <2>3
    <3> QED
      BY <2>3, <3>1
  <2> QED
    BY <2>1, <2>2, <2>3
<1>2. y - x \in Int /\ (y - x) * k = y * k - x * k /\ y * k \in Int /\ x * k \in Int
  OBVIOUS
<1> QED
  BY <1>1, <1>2

\* Rounding a quotient does not depend on the scale its two sides are read at.
LEMMA RoundedScaled ==
  ASSUME NEW q \in Int, NEW n \in Int, NEW d \in Nat \ {0}, NEW k \in Nat \ {0}, NEW mode \in Modes,
         IsRounded(q, n * k, d * k, mode)
  PROVE  IsRounded(q, n, d, mode)
<1>1. \A x \in Int : Magnitude(x * k) = Magnitude(x) * k /\ Magnitude(x) \in Int
  <2> SUFFICES ASSUME NEW x \in Int PROVE Magnitude(x * k) = Magnitude(x) * k /\ Magnitude(x) \in Int
    OBVIOUS
  <2>1. x * k < 0 <=> x < 0
    <3>1. 0 * k = 0 /\ 0 \in Int
      OBVIOUS
    <3>2. (x * k < 0 * k <=> x < 0)
      BY <3>1, Cancel
    <3> QED
      BY <3>1, <3>2
  <2>2. (-x) * k = -(x * k)
    OBVIOUS
  <2> QED
    BY <2>1, <2>2 DEF Magnitude
<1>2. q * (d * k) = (q * d) * k /\ n * k - q * (d * k) = (n - q * d) * k
  OBVIOUS
<1>3. q * d \in Int /\ n - q * d \in Int /\ d \in Int
  OBVIOUS
<1> DEFINE off == Magnitude(n - q * d)  D == Magnitude(d)  P == Magnitude(q * d)  N == Magnitude(n)
<1>4. /\ Magnitude(n * k - q * (d * k)) = off * k /\ Magnitude(d * k) = D * k
      /\ Magnitude(q * (d * k)) = P * k /\ Magnitude(n * k) = N * k
      /\ off \in Int /\ D \in Int /\ P \in Int /\ N \in Int
  BY <1>1, <1>2, <1>3
<1> HIDE DEF off, D, P, N
<1>5. 2 * (off * k) = (2 * off) * k /\ 2 * off \in Int
  BY <1>4
<1>6. CASE mode = "Down"
  <2>1. off * k < D * k /\ P * k <= N * k
    BY <1>4, <1>6 DEF IsRounded
  <2>2. off < D /\ P <= N
    BY <1>4, <2>1, Cancel
  <2> QED
    BY <1>6, <2>2 DEF IsRounded, off, D, P, N
<1>7. CASE mode # "Down"
  <2>1. /\ (2 * off) * k <= D * k
        /\ (2 * off) * k = D * k => IF mode = "HalfEven" THEN q % 2 = 0 ELSE P * k > N * k
    BY <1>4, <1>5, <1>7 DEF IsRounded
  <2>2. 2 * off <= D /\ (2 * off = D <=> (2 * off) * k = D * k) /\ (N < P <=> N * k < P * k)
    BY <1>4, <1>5, <2>1, Cancel
  <2>3. N < P <=> P > N
    BY <1>4
  <2>4. N * k < P * k <=> P * k > N * k
    BY <1>4
  <2> QED
    BY <1>7, <2>1, <2>2, <2>3, <2>4 DEF IsRounded, off, D, P, N
<1> QED
  BY <1>6, <1>7

\* What a decimal text denotes, in units of its own last digit.
Denoted(text) ==
  LET minor == text.whole * Power(10, Len(text.frac)) + Value(10, text.frac) IN
  IF text.negative THEN -minor ELSE minor

\* Padding with zeros moves the point and nothing else: the units read are what
\* the text denotes, scaled (Parse and parseRate).
LEMMA UnitsDenoted ==
  ASSUME NEW negative \in BOOLEAN, NEW whole \in Nat, NEW frac \in Seq(0 .. 9), NEW text,
         text.negative = negative, text.whole = whole, text.frac = frac,
         NEW places \in Nat, Len(frac) <= places
  PROVE  /\ Denoted(text) \in Int
         /\ Units(text, places) = Denoted(text) * Power(10, places - Len(frac))
<1> DEFINE m == Len(frac)  k == Power(10, places - m)  v == Value(10, frac)
<1>1. m \in Nat /\ places - m \in Nat /\ m + (places - m) = places
  OBVIOUS
<1>2. 10 \in Nat \ {0} /\ frac \in Seq(0 .. 10 - 1)
  OBVIOUS
<1>3. k \in Nat \ {0} /\ Power(10, m) \in Nat \ {0} /\ Power(10, places) = Power(10, m) * k
  <2>1. Power(10, m + (places - m)) = Power(10, m) * Power(10, places - m)
    BY <1>1, <1>2, PowerSum, Zenon
  <2> QED
    BY <1>1, <1>2, <2>1, PowerPositive
<1>4. Value(10, frac \o Zeros(places - m)) = v * k
  BY <1>1, <1>2, ValuePadded, Zenon
<1>5. v \in Nat
  <2>1. v \in 0 .. Power(10, m) - 1
    BY <1>2, ValueBelow, Zenon
  <2> QED
    BY <1>3, <2>1
<1> HIDE DEF m, k, v
<1>6. whole * Power(10, places) + v * k = (whole * Power(10, m) + v) * k
  BY <1>3, <1>5
<1>7. Units(text, places) = (IF negative THEN -((whole * Power(10, m) + v) * k)
                                         ELSE (whole * Power(10, m) + v) * k)
  BY <1>4, <1>6 DEF Units, m
<1>8. Denoted(text) = IF negative THEN -(whole * Power(10, m) + v) ELSE whole * Power(10, m) + v
  BY DEF Denoted, m, v
<1>9. whole * Power(10, m) + v \in Int
  BY <1>3, <1>5
<1> QED
  BY <1>3, <1>7, <1>8, <1>9 DEF k, m

\* Of finitely many digits there is a last one that is not a zero, or none is not.
LEMMA LastDigit ==
  ASSUME NEW n \in Nat, NEW d \in Seq(0 .. 9), Len(d) = n
  PROVE  \E m \in 0 .. n : /\ {i \in 1 .. n : \E j \in i .. n : d[j] # 0} = 1 .. m
                           /\ m > 0 => d[m] # 0
                           /\ \A j \in m + 1 .. n : d[j] = 0
<1> DEFINE T == {k \in 0 .. n : \A j \in k + 1 .. n : d[j] = 0}
<1>1. n \in T /\ T \in SUBSET Nat
  OBVIOUS
<1>2. PICK m \in T : \A k \in T : m <= k
  <2> HIDE DEF T
  <2> QED
    BY <1>1, Smallest
<1>3. m \in 0 .. n /\ \A j \in m + 1 .. n : d[j] = 0
  BY <1>2
<1>4. ASSUME m > 0 PROVE d[m] # 0
  <2> SUFFICES ASSUME d[m] = 0 PROVE FALSE
    OBVIOUS
  <2>1. m - 1 \in 0 .. n /\ \A j \in (m - 1) + 1 .. n : j = m \/ j \in m + 1 .. n
    BY <1>3, <1>4
  <2>2. m - 1 \in T
    BY <1>3, <2>1
  <2> QED
    BY <1>2, <1>3, <2>2
<1>5. ASSUME NEW i \in 1 .. n PROVE (\E j \in i .. n : d[j] # 0) <=> i <= m
  <2>1. CASE i <= m
    <3>1. m \in i .. n /\ m > 0
      BY <1>3, <2>1
    <3> QED
      BY <1>4, <2>1, <3>1
  <2>2. CASE ~(i <= m)
    <3>1. \A j \in i .. n : j \in m + 1 .. n
      BY <1>3, <2>2
    <3> QED
      BY <1>3, <2>2, <3>1
  <2> QED
    BY <2>1, <2>2
<1>6. {i \in 1 .. n : \E j \in i .. n : d[j] # 0} = 1 .. m
  <2>1. {i \in 1 .. n : \E j \in i .. n : d[j] # 0} = {i \in 1 .. n : i <= m}
    BY <1>5
  <2>2. {i \in 1 .. n : i <= m} = 1 .. m
    BY <1>3
  <2> QED
    BY <2>1, <2>2
<1> QED
  BY <1>3, <1>4, <1>6

\* An amount that is written is read as itself, and its fraction is trimmed.
LEMMA TextReadsBack ==
  ASSUME NEW units \in Int
  PROVE  LET a == Amount(units, "EUR") IN
         /\ ParseAmount(Text(a), "EUR") = a
         /\ Text(a).frac = <<>> \/ Last(Text(a).frac) # 0
<1> DEFINE a == Amount(units, "EUR")  p == Power(10, Scale)  u == Magnitude(units)
           digits == Digits(10, u % p, Scale)
           kept   == {i \in 1 .. Scale : \E j \in i .. Scale : digits[j] # 0}
           text   == Text(a)
<1>1. Scale \in Nat /\ 10 \in Nat \ {0} /\ 10 - 1 = 9
  BY ScaleAssumption
<1>2. p \in Nat \ {0} /\ u \in Nat
  BY <1>1, PowerPositive DEF Magnitude
<1> HIDE DEF p, u
<1>3. u % p \in Nat /\ u % p < p /\ u \div p \in Nat /\ u = (u \div p) * p + (u % p)
  BY <1>2
<1>4. digits \in Seq(0 .. 9) /\ Len(digits) = Scale /\ Value(10, digits) = u % p
  BY <1>1, <1>3, ValueOfDigits DEF p
<1>5. text = [negative |-> units < 0, whole |-> u \div p, frac |-> [i \in kept |-> digits[i]]]
  BY DEF Text, Amount, u, p
<1> HIDE DEF digits
<1>6. PICK m \in 0 .. Scale : /\ kept = 1 .. m
                              /\ m > 0 => digits[m] # 0
                              /\ \A j \in m + 1 .. Scale : digits[j] = 0
  BY <1>1, <1>4, LastDigit
<1> DEFINE frac == [i \in 1 .. m |-> digits[i]]
<1>7. text.negative = (units < 0) /\ text.whole = u \div p /\ text.frac = frac
  BY <1>5, <1>6
<1>8. frac \in Seq(0 .. 9) /\ Len(frac) = m /\ m \in Nat
  BY <1>1, <1>4
<1> HIDE DEF text, kept
<1>9. frac \o Zeros(Scale - m) = digits
  <2> DEFINE z == Zeros(Scale - m)  e == frac \o z
  <2>1. Scale - m \in Nat
    BY <1>1
  <2>2. z \in Seq(Int) /\ Len(z) = Scale - m /\ \A i \in 1 .. Scale - m : z[i] = 0
    BY <2>1, ZerosAre
  <2>3. \A i \in 1 .. m : frac[i] = digits[i]
    OBVIOUS
  <2>4. frac \in Seq(Int) /\ digits \in Seq(Int)
    BY <1>4, <1>8
  <2> HIDE DEF z, frac
  <2>5. e \in Seq(Int) /\ Len(e) = Scale
    <3>1. e \in Seq(Int) /\ Len(e) = Len(frac) + Len(z)
      BY <2>2, <2>4, ConcatProperties, Zenon
    <3> QED
      BY <1>1, <1>8, <2>2, <3>1
  <2>6. ASSUME NEW i \in 1 .. Scale PROVE e[i] = digits[i]
    <3>1. CASE i <= m
      <4>1. i \in 1 .. m /\ e[i] = frac[i]
        BY <1>1, <1>8, <2>2, <2>4, <3>1
      <4> QED
        BY <2>3, <4>1
    <3>2. CASE ~(i <= m)
      <4>1. i \in m + 1 .. Scale /\ i - m \in 1 .. Scale - m /\ e[i] = z[i - m]
        BY <1>1, <1>8, <2>2, <2>4, <3>2
      <4> QED
        BY <1>6, <2>2, <4>1
    <3> QED
      BY <3>1, <3>2
  <2> HIDE DEF e
  <2>7. e = digits
    BY <1>4, <2>4, <2>5, <2>6
  <2> QED
    BY <2>7 DEF e, z, frac
<1> HIDE DEF frac
<1>10. Units(text, Scale) = IF units < 0 THEN -u ELSE u
  BY <1>3, <1>4, <1>7, <1>8, <1>9 DEF Units, p
<1>11. Units(text, Scale) = units
  BY <1>10 DEF u, Magnitude
<1>12. Fits(text, Scale)
  BY <1>1, <1>7, <1>8 DEF Fits
<1>13. ParseAmount(text, "EUR") = a
  BY <1>11, <1>12 DEF ParseAmount
<1>14. frac = <<>> \/ Last(frac) # 0
  <2>1. CASE m = 0
    BY <1>8, <2>1 DEF frac
  <2>2. CASE m # 0
    <3>1. m > 0 /\ m \in 1 .. m
      BY <1>8, <2>2
    <3>2. Last(frac) = digits[m]
      BY <1>8, <3>1 DEF Last, frac
    <3> QED
      BY <1>6, <3>1, <3>2
  <2> QED
    BY <2>1, <2>2
<1> QED
  BY <1>7, <1>13, <1>14 DEF text

-----------------------------------------------------------------------------
(* The library functions compute what they are to *)

\* The input is one of the kinds, or there is none yet.
Typed ==
  input \in {[kind |-> "none"]} \cup Quotients \cup Splits \cup Texts \cup Minted \cup Wires

\* Whatever inputs may be asked about, they are of the kinds of Libraries.
THEOREM InputsTyped == Spec => []Typed
<1>1. Init => Typed
  BY DEF Init, Typed
<1>2. Typed /\ [Ask]_input => Typed'
  <2> SUFFICES ASSUME Typed, [Ask]_input PROVE Typed'
    OBVIOUS
  <2>1. CASE Ask
    BY <2>1, InputsAssumption, Zenon DEF Ask, Typed
  <2>2. CASE UNCHANGED input
    BY <2>2, Zenon DEF Typed
  <2> QED
    BY <2>1, <2>2
<1> QED
  BY <1>1, <1>2, PTL DEF Spec

\* The kind of the input tells which fields it has.
LEMMA Kinds ==
  ASSUME Typed
  PROVE  /\ input.kind = "quotient" => input \in Quotients
         /\ input.kind = "split" => input \in Splits
         /\ input.kind = "text" => input \in Texts
         /\ input.kind = "minted" => input \in Minted
         /\ input.kind = "wire" => input \in Wires
<1>1. input \in Quotients => input.kind = "quotient"
  BY DEF Quotients
<1>2. input \in Splits => input.kind = "split"
  BY DEF Splits
<1>3. input \in Texts => input.kind = "text"
  BY DEF Texts
<1>4. input \in Minted => input.kind = "minted"
  BY DEF Minted
<1>5. input \in Wires => input.kind = "wire"
  BY DEF Wires
<1>6. input = [kind |-> "none"] => input.kind = "none"
  OBVIOUS
<1> QED
  BY <1>1, <1>2, <1>3, <1>4, <1>5, <1>6 DEF Typed

\* An amount is not an error.
LEMMA AmountIs ==
  ASSUME NEW units, NEW currency
  PROVE  /\ Amount(units, currency).units = units /\ Amount(units, currency).currency = currency
         /\ Amount(units, currency) # Error
<1>1. DOMAIN Amount(units, currency) = {"units", "currency"} /\ DOMAIN Error = {"error"}
  BY DEF Amount, Error
<1>2. "error" \notin {"units", "currency"}
  OBVIOUS
<1> QED
  BY <1>1, <1>2 DEF Amount

\* Div, for every amount, divisor and mode.
THEOREM RoundsExactly == Spec => []RoundsAsAsked
<1>1. Typed => RoundsAsAsked
  <2> SUFFICES ASSUME Typed, input.kind = "quotient" PROVE RoundsAsAsked
    BY DEF RoundsAsAsked
  <2> DEFINE n == input.units  d == input.divisor  mode == input.mode
             q == Div(Amount(n, "EUR"), d, mode)
  <2>1. n \in Int /\ d \in Int /\ mode \in Modes /\ -n \in Int
    BY Kinds DEF Quotients
  <2> HIDE DEF n, d, mode
  <2>2. CASE d = 0
    BY <2>2 DEF RoundsAsAsked, Div, n, d, mode
  <2>3. CASE d # 0
    <3> DEFINE k == DivRound(n, d, mode)
    <3>1. \A m : Div(Amount(m, "EUR"), d, mode) = Amount(DivRound(m, d, mode), "EUR")
      BY <2>3, AmountIs DEF Div
    <3>2. q = Amount(k, "EUR") /\ q.units = k /\ Mul(q, d) = Amount(k * d, "EUR")
      BY <3>1, AmountIs DEF Mul
    <3>3. d \in Int \ {0} /\ k \in Int
      BY <2>1, <2>3, DivRoundIs
    <3>4. IsRounded(k, n, d, mode)
      BY <2>1, <3>3, Rounded
    <3>5. Div(Amount(-n, "EUR"), d, mode).units = -k
      BY <2>1, <3>1, <3>3, AmountIs, Mirror
    <3>6. Div(Amount(k * d, "EUR"), d, mode) = Amount(k, "EUR")
      BY <2>1, <3>1, <3>3, ExactQuotient
    <3> HIDE DEF q, k
    <3>7. Div(Mul(q, d), d, mode) = q
      BY <3>2, <3>6
    <3> QED
      BY <2>3, <3>2, <3>4, <3>5, <3>7 DEF RoundsAsAsked, n, d, mode, q
  <2> QED
    BY <2>2, <2>3
<1> QED
  BY <1>1, InputsTyped, PTL

\* Split, for every amount and number of shares.
THEOREM SplitsExactly == Spec => []SplitIsExact
<1>1. Typed => SplitIsExact
  <2> SUFFICES ASSUME Typed, input.kind = "split" PROVE SplitIsExact
    BY DEF SplitIsExact
  <2>1. input.units \in Int /\ input.shares \in Nat
    BY Kinds DEF Splits
  <2>2. CASE input.shares = 0
    BY <2>2 DEF SplitIsExact, Split
  <2>3. CASE input.shares # 0
    <3>1. IsSplit(Split(Amount(input.units, "EUR"), input.shares), Amount(input.units, "EUR"))
      BY <2>1, <2>3, SplitAddsUp
    <3> QED
      BY <2>3, <3>1 DEF SplitIsExact
  <2> QED
    BY <2>2, <2>3
<1> QED
  BY <1>1, InputsTyped, PTL

\* Parse, String and MulRate, for every decimal text, scale and multiplied amount.
THEOREM ReadsExactly == Spec => []TextIsExact
<1>1. Typed => TextIsExact
  <2> SUFFICES ASSUME Typed, input.kind = "text" PROVE TextIsExact
    BY DEF TextIsExact
  <2> DEFINE len == Len(input.frac)  value == Denoted(input)  times == input.times
             a == ParseAmount(input, "EUR")
             r == MulRate(Amount(times, "EUR"), input, "HalfEven")
  <2>1. /\ input.negative \in BOOLEAN /\ input.whole \in Nat /\ input.frac \in Seq(0 .. 9)
        /\ times \in Int /\ len \in Nat
    BY Kinds DEF Texts
  <2>2. Scale \in Nat /\ RateScale \in Nat /\ 10 \in Nat \ {0} /\ "HalfEven" \in Modes
    BY ScaleAssumption DEF Modes
  <2>3. ASSUME NEW places \in Nat, len <= places
        PROVE  value \in Int /\ Units(input, places) = value * Power(10, places - len)
    <3> DEFINE negative == input.negative  whole == input.whole  frac == input.frac
    <3>1. /\ negative \in BOOLEAN /\ whole \in Nat /\ frac \in Seq(0 .. 9)
          /\ input.negative = negative /\ input.whole = whole /\ input.frac = frac
          /\ Len(frac) <= places
      BY <2>1, <2>3
    <3> HIDE DEF negative, whole, frac
    <3>2. Denoted(input) \in Int /\ Units(input, places) = Denoted(input) * Power(10, places - Len(frac))
      BY <3>1, UnitsDenoted
    <3> QED
      BY <3>2 DEF frac
  <2> HIDE DEF len, value, times
  <2>4. (a = Error) = (len > Scale)
    BY <2>1, <2>2, AmountIs DEF ParseAmount, Fits, len
  <2>5. (r = Error) = (len > RateScale)
    BY <2>1, <2>2, AmountIs DEF MulRate, Fits, len
  <2>6. ASSUME len <= Scale
        PROVE  /\ a = FromMinorUnits(value, len, "EUR")
               /\ ParseAmount(Text(a), "EUR") = a
               /\ Text(a).frac = <<>> \/ Last(Text(a).frac) # 0
    <3> DEFINE units == Units(input, Scale)
    <3>1. value \in Int /\ units = value * Power(10, Scale - len)
      BY <2>2, <2>3, <2>6
    <3>2. Power(10, Scale - len) \in Nat \ {0}
      <4>1. Scale - len \in Nat
        BY <2>1, <2>2, <2>6
      <4> QED
        BY <2>2, <4>1, PowerPositive
    <3>3. units \in Int
      BY <3>1, <3>2
    <3>4. a = Amount(units, "EUR")
      BY <2>6 DEF ParseAmount, Fits, len
    <3>5. a = FromMinorUnits(value, len, "EUR")
      BY <2>1, <2>2, <2>6, <3>1, <3>4 DEF FromMinorUnits
    <3> HIDE DEF units, a
    <3> QED
      BY <3>3, <3>4, <3>5, TextReadsBack
  <2>7. ASSUME len <= RateScale
        PROVE  IsRounded(r.units, times * value, Power(10, len), "HalfEven")
    <3> DEFINE k == Power(10, RateScale - len)  p == Power(10, len)
               n == times * Units(input, RateScale)
    <3>1. RateScale - len \in Nat /\ len + (RateScale - len) = RateScale
      BY <2>1, <2>2, <2>7
    <3>2. k \in Nat \ {0} /\ p \in Nat \ {0}
      BY <2>1, <2>2, <3>1, PowerPositive
    <3>3. Power(10, RateScale) = p * k
      <4>1. Power(10, len + (RateScale - len)) = Power(10, len) * Power(10, RateScale - len)
        BY <2>1, <2>2, <3>1, PowerSum, Zenon
      <4> QED
        BY <3>1, <4>1
    <3>4. value \in Int /\ Units(input, RateScale) = value * k
      BY <2>2, <2>3, <2>7
    <3>5. r = Amount(DivRound(n, Power(10, RateScale), "HalfEven"), "EUR")
      BY <2>7, AmountIs DEF MulRate, Fits, len
    <3> HIDE DEF k, p
    <3>6. n = (times * value) * k /\ times * value \in Int /\ n \in Int
      BY <2>1, <3>2, <3>4
    <3> HIDE DEF n
    <3>7. p * k \in Int \ {0} /\ p * k \in Nat \ {0}
      BY <3>2
    <3>8. r.units = DivRound(n, p * k, "HalfEven")
      BY <3>3, <3>5, AmountIs
    <3>9. r.units \in Int /\ IsRounded(r.units, (times * value) * k, p * k, "HalfEven")
      BY <2>2, <3>6, <3>7, <3>8, DivRoundIs, Rounded
    <3> HIDE DEF r
    <3>10. IsRounded(r.units, times * value, p, "HalfEven")
      BY <2>2, <3>2, <3>6, <3>9, RoundedScaled
    <3> QED
      BY <3>10 DEF p, r
  <2>8. (len > Scale <=> ~(len <= Scale)) /\ (len > RateScale <=> ~(len <= RateScale))
    BY <2>1, <2>2
  <2> HIDE DEF a, r
  <2> QED
    BY <2>4, <2>5, <2>6, <2>7, <2>8 DEF TextIsExact, Denoted, a, r, len, value, times
<1> QED
  BY <1>1, InputsTyped, PTL

-----------------------------------------------------------------------------
(* The bits of a uuid and the characters that carry them *)

\* Where the bits of character i start, and how many they are.
Start(i) == IF i = 1 THEN 1 ELSE End(i - 1) + 1
Size(i) == IF i = 1 THEN FirstBits ELSE GroupBits
Group(uuid, i) == SubSeq(uuid, Start(i), End(i))

\* The sizes of the encoding, and that its last group ends with the last bit.
LEMMA Sizes ==
  /\ EncodedLen \in Nat \ {0} /\ FirstBits \in Nat \ {0} /\ GroupBits \in Nat \ {0}
  /\ FirstBits <= GroupBits /\ Width \in Nat
  /\ End(EncodedLen) = Width
  /\ 2 \in Nat \ {0} /\ 2 - 1 = 1 /\ {0, 1} = 0 .. 1
<1>1. EncodedLen \in Nat \ {0} /\ FirstBits \in Nat \ {0} /\ GroupBits \in Nat \ {0} /\ FirstBits <= GroupBits
  BY EncodingAssumption
<1>2. GroupBits * (EncodedLen - 1) \in Nat
  BY <1>1
<1>3. Width \in Nat /\ End(EncodedLen) = Width
  BY <1>1, <1>2 DEF Width, End
<1> QED
  BY <1>1, <1>3

\* The groups of bits are a whole one after another, and within the uuid.
LEMMA GroupBounds ==
  ASSUME NEW i \in 1 .. EncodedLen
  PROVE  /\ Size(i) \in Nat \ {0} /\ Start(i) \in Nat \ {0} /\ End(i) \in Nat /\ End(i) <= Width
         /\ End(i) = Start(i) + Size(i) - 1
<1> DEFINE g == GroupBits  e == EncodedLen
<1>1. /\ e \in Nat /\ g \in Nat \ {0} /\ FirstBits \in Nat \ {0} /\ i \in Nat /\ i >= 1 /\ i <= e
      /\ Width = FirstBits + g * (e - 1) /\ End(i) = FirstBits + g * (i - 1)
  BY Sizes DEF Width, End
<1>2. g * (i - 1) \in Nat /\ g * (e - i) \in Nat /\ g * (e - 1) = g * (e - i) + g * (i - 1)
  BY <1>1
<1>3. End(i) \in Nat /\ End(i) <= Width
  BY <1>1, <1>2
<1>4. CASE i = 1
  <2>1. g * (i - 1) = 0
    BY <1>1, <1>4
  <2> QED
    BY <1>1, <1>3, <1>4, <2>1 DEF Start, Size
<1>5. CASE i # 1
  <2>1. End(i - 1) = FirstBits + g * (i - 1 - 1) /\ g * (i - 1) = g * (i - 1 - 1) + g
    BY <1>1 DEF End
  <2>2. i - 1 - 1 \in Nat
    BY <1>1, <1>5
  <2>3. g * (i - 1 - 1) \in Nat
    BY <1>1, <2>2
  <2>4. Start(i) = End(i - 1) + 1 /\ Size(i) = g
    BY <1>5 DEF Start, Size
  <2> QED
    BY <1>1, <1>3, <2>1, <2>3, <2>4
<1> QED
  BY <1>4, <1>5

\* The bits of character i are those that it is said to carry,
LEMMA CharOfBit ==
  ASSUME NEW i \in 1 .. EncodedLen, NEW b \in Start(i) .. End(i)
  PROVE  Char(b) = i
<1> DEFINE g == GroupBits  x == b + g - FirstBits - 1  t == x - (i - 1) * g
<1>1. /\ g \in Nat \ {0} /\ FirstBits \in Nat \ {0} /\ FirstBits <= g /\ i \in Nat /\ i >= 1
      /\ b \in Int /\ Start(i) <= b /\ b <= End(i) /\ End(i) = FirstBits + g * (i - 1)
      /\ End(i) = Start(i) + Size(i) - 1 /\ Start(i) \in Int /\ Size(i) \in Int
  BY Sizes, GroupBounds DEF End
<1>2. (i - 1) * g \in Int /\ g * (i - 1) = (i - 1) * g
  BY <1>1
<1>3. Size(i) <= g
  BY <1>1 DEF Size
<1>4. x \in Int /\ t \in 0 .. g - 1 /\ x = (i - 1) * g + t /\ i - 1 \in Int
  BY <1>1, <1>2, <1>3
<1> HIDE DEF x, t
<1>5. x \div g = i - 1
  BY <1>1, <1>4, Quotient, Zenon
<1> QED
  BY <1>1, <1>5 DEF Char, x

\* and there is such a character for every bit.
LEMMA BitOfChar ==
  ASSUME NEW b \in 1 .. Width
  PROVE  Char(b) \in 1 .. EncodedLen /\ b \in Start(Char(b)) .. End(Char(b))
<1> DEFINE g == GroupBits  e == EncodedLen  f == FirstBits
           x == b + g - f - 1  c == x \div g  t == x % g
<1>1. /\ g \in Nat \ {0} /\ f \in Nat \ {0} /\ f <= g /\ e \in Nat \ {0}
      /\ b \in Nat /\ b >= 1 /\ b <= f + g * (e - 1)
  BY Sizes DEF Width
<1>2. x \in Nat
  BY <1>1
<1>3. c \in Nat /\ t \in 0 .. g - 1 /\ x = g * c + t
  BY <1>1, <1>2
<1>4. Char(b) = c + 1
  BY DEF Char
<1> HIDE DEF g, e, f, c, t
<1>5. c < e
  <2> SUFFICES ASSUME c >= e PROVE FALSE
    BY <1>1, <1>3
  <2>1. g * (c - e) \in Nat /\ g * c = g * (c - e) + g * (e - 1) + g
    BY <1>1, <1>3
  <2>2. g * (e - 1) \in Int /\ g * c \in Int
    BY <1>1, <1>3
  <2> QED
    BY <1>1, <1>3, <2>1, <2>2
<1>6. End(c + 1) = f + g * c /\ g * c \in Int
  BY <1>1, <1>3 DEF End, f, g
<1>7. b = f + g * c - g + t + 1
  BY <1>1, <1>3, <1>6
<1>8. b <= End(c + 1)
  BY <1>1, <1>3, <1>6, <1>7
<1>9. Start(c + 1) <= b /\ Start(c + 1) \in Int
  <2>1. CASE c = 0
    BY <1>1, <2>1 DEF Start
  <2>2. CASE c # 0
    <3>1. Start(c + 1) = End(c) + 1
      BY <1>3, <2>2 DEF Start
    <3>2. End(c) = f + g * (c - 1) /\ g * (c - 1) = g * c - g
      BY <1>1, <1>3 DEF End, f, g
    <3> QED
      BY <1>1, <1>3, <1>6, <1>7, <3>1, <3>2
  <2> QED
    BY <2>1, <2>2
<1> QED
  BY <1>1, <1>3, <1>4, <1>5, <1>6, <1>8, <1>9 DEF e

-----------------------------------------------------------------------------
(* The codec *)

\* The group of bits of a character, bit by bit, and the value it is encoded as.
LEMMA GroupIs ==
  ASSUME NEW uuid \in Uuids, NEW i \in 1 .. EncodedLen
  PROVE  /\ Group(uuid, i) \in Seq(0 .. 2 - 1) /\ Len(Group(uuid, i)) = Size(i)
         /\ \A j \in 1 .. Size(i) : Group(uuid, i)[j] = uuid[Start(i) + j - 1]
         /\ Encode(uuid)[i] = Value(2, Group(uuid, i))
<1> DEFINE m == Start(i)  n == End(i)  T == 0 .. 2 - 1
<1>1. /\ m \in Int /\ n \in Int /\ m >= 1 /\ n <= Width /\ m <= n
      /\ n - m + 1 = Size(i)
  BY GroupBounds, Sizes
<1>2. \A b \in m .. n : uuid[b] \in T
  BY <1>1, Sizes DEF Uuids
<1> HIDE DEF m, n, T
<1>3. /\ SubSeq(uuid, m, n) \in Seq(T)
      /\ Len(SubSeq(uuid, m, n)) = IF m <= n THEN n - m + 1 ELSE 0
      /\ \A j \in 1 .. n - m + 1 : SubSeq(uuid, m, n)[j] = uuid[m + j - 1]
  BY <1>1, <1>2, SubSeqProperties, SMT
<1>4. Encode(uuid)[i] = Value(2, SubSeq(uuid, m, n))
  BY DEF Encode, Start, m, n
<1> QED
  BY <1>1, <1>3, <1>4 DEF Group, m, n, T

\* A power grows with its exponent.
LEMMA PowerMonotone ==
  ASSUME NEW r \in Nat \ {0}, NEW m \in Nat, NEW n \in Nat, m <= n
  PROVE  Power(r, m) <= Power(r, n)
<1>1. n - m \in Nat /\ m + (n - m) = n
  OBVIOUS
<1>2. Power(r, m + (n - m)) = Power(r, m) * Power(r, n - m)
  BY <1>1, PowerSum, Zenon
<1>3. Power(r, m) \in Nat \ {0} /\ Power(r, n - m) \in Nat \ {0}
  BY <1>1, PowerPositive
<1>4. \A x, y \in Nat \ {0} : x <= x * y
  OBVIOUS
<1> QED
  BY <1>1, <1>2, <1>3, <1>4

\* What a uuid is written as is a suffix the decoder takes,
LEMMA EncodeIs ==
  ASSUME NEW uuid \in Uuids
  PROVE  /\ Encode(uuid) \in Seq(Alphabet) /\ Len(Encode(uuid)) = EncodedLen
         /\ \A i \in 1 .. EncodedLen : Encode(uuid)[i] \in 0 .. Power(2, Size(i)) - 1
         /\ Decodable(Encode(uuid))
<1>1. ASSUME NEW i \in 1 .. EncodedLen
      PROVE  /\ Encode(uuid)[i] \in 0 .. Power(2, Size(i)) - 1
             /\ Encode(uuid)[i] \in Alphabet
  <2> DEFINE g == Group(uuid, i)
  <2>1. g \in Seq(0 .. 2 - 1) /\ Len(g) = Size(i) /\ Encode(uuid)[i] = Value(2, g)
    BY GroupIs
  <2> HIDE DEF g
  <2>2. Value(2, g) \in 0 .. Power(2, Len(g)) - 1
    BY <2>1, Sizes, ValueBelow, Zenon
  <2>3. Size(i) \in Nat /\ GroupBits \in Nat /\ Size(i) <= GroupBits
    BY Sizes, GroupBounds DEF Size
  <2>4. /\ Power(2, Size(i)) <= Power(2, GroupBits)
        /\ Power(2, Size(i)) \in Int /\ Power(2, GroupBits) \in Int
    BY <2>3, Sizes, PowerMonotone, PowerPositive
  <2> QED
    BY <2>1, <2>2, <2>4 DEF Alphabet
<1>2. Encode(uuid) = [i \in 1 .. EncodedLen |-> Encode(uuid)[i]] /\ EncodedLen \in Nat /\ 1 \in 1 .. EncodedLen
  BY Sizes DEF Encode
<1> DEFINE s == Encode(uuid)
<1> HIDE DEF s
<1>3. /\ s = [i \in 1 .. EncodedLen |-> s[i]]
      /\ \A i \in 1 .. EncodedLen : s[i] \in Alphabet /\ s[i] \in 0 .. Power(2, Size(i)) - 1
  BY <1>1, <1>2 DEF s
<1>4. s \in Seq(Alphabet) /\ Len(s) = EncodedLen /\ DOMAIN s = 1 .. EncodedLen
  BY <1>2, <1>3
<1>5. Size(1) = FirstBits /\ Power(2, FirstBits) \in Int
  BY Sizes, PowerPositive DEF Size
<1>6. s[1] < Power(2, FirstBits)
  BY <1>2, <1>3, <1>5
<1>7. Decodable(s)
  BY <1>3, <1>4, <1>6 DEF Decodable
<1> QED
  BY <1>3, <1>4, <1>7 DEF s

\* which reads the uuid from it;
LEMMA DecodeEncode ==
  ASSUME NEW uuid \in Uuids
  PROVE  Decode(Encode(uuid)) = uuid
<1> DEFINE s == Encode(uuid)
<1>1. ASSUME NEW b \in 1 .. Width
      PROVE  Digit(2, s[Char(b)], End(Char(b)) - b) = uuid[b]
  <2> DEFINE i == Char(b)  g == Group(uuid, i)  j == b - Start(i) + 1
  <2>1. i \in 1 .. EncodedLen /\ b \in Start(i) .. End(i)
    BY BitOfChar
  <2>2. g \in Seq(0 .. 2 - 1) /\ Len(g) = Size(i) /\ s[i] = Value(2, g)
    BY <2>1, GroupIs
  <2>3. \A k \in 1 .. Size(i) : g[k] = uuid[Start(i) + k - 1]
    BY <2>1, GroupIs
  <2>4. /\ Size(i) \in Nat /\ Start(i) \in Nat /\ End(i) \in Nat
        /\ End(i) = Start(i) + Size(i) - 1
    BY <2>1, GroupBounds
  <2>5. j \in 1 .. Size(i) /\ Start(i) + j - 1 = b /\ Size(i) - j = End(i) - b
    BY <2>1, <2>4
  <2> HIDE DEF g, j, s, i
  <2>6. Digit(2, Value(2, g), Len(g) - j) = g[j]
    <3>1. j \in 1 .. Len(g)
      BY <2>2, <2>5
    <3> QED
      BY <2>2, <3>1, Sizes, DigitsOfValue, Zenon
  <2> QED
    BY <2>2, <2>3, <2>5, <2>6 DEF i
<1>2. uuid = [b \in 1 .. Width |-> uuid[b]]
  BY DEF Uuids
<1> QED
  BY <1>1, <1>2 DEF Decode

\* and what it reads from a suffix it takes is written as that suffix.
LEMMA EncodeDecode ==
  ASSUME NEW suffix \in Seq(Int), Decodable(suffix)
  PROVE  Decode(suffix) \in Uuids /\ Encode(Decode(suffix)) = suffix
<1> DEFINE u == Decode(suffix)
<1>1. u \in Uuids
  <2>1. ASSUME NEW b \in 1 .. Width PROVE Digit(2, suffix[Char(b)], End(Char(b)) - b) \in {0, 1}
    <3>1. Char(b) \in 1 .. EncodedLen /\ b \in Start(Char(b)) .. End(Char(b))
      BY BitOfChar
    <3>2. suffix[Char(b)] \in Int /\ End(Char(b)) - b \in Nat
      BY <3>1, GroupBounds DEF Decodable
    <3>3. Power(2, End(Char(b)) - b) \in Nat \ {0}
      BY <3>2, Sizes, PowerPositive
    <3>4. \A x \in Int : x % 2 \in {0, 1}
      OBVIOUS
    <3>5. suffix[Char(b)] \div Power(2, End(Char(b)) - b) \in Int
      BY <3>2, <3>3
    <3> QED
      BY <3>4, <3>5 DEF Digit
  <2> QED
    BY <2>1 DEF Uuids, Decode
<1>2. ASSUME NEW i \in 1 .. EncodedLen PROVE Encode(u)[i] = suffix[i]
  <2> DEFINE g == Group(u, i)  c == suffix[i]  n == Size(i)
  <2>1. g \in Seq(0 .. 2 - 1) /\ Len(g) = n /\ Encode(u)[i] = Value(2, g)
    BY <1>1, GroupIs
  <2>2. \A j \in 1 .. n : g[j] = u[Start(i) + j - 1]
    BY <1>1, GroupIs
  <2>3. /\ n \in Nat /\ Start(i) \in Nat /\ Start(i) >= 1 /\ End(i) \in Nat /\ End(i) <= Width
        /\ End(i) = Start(i) + n - 1 /\ Width \in Nat
    BY GroupBounds, Sizes
  <2>4. c \in Nat /\ c < Power(2, n)
    <3>1. Power(2, GroupBits) \in Int /\ Power(2, FirstBits) \in Int
      <4>1. \A k \in Nat : Power(2, k) \in Nat \ {0}
        BY PowerPositive
      <4>2. FirstBits \in Nat /\ GroupBits \in Nat
        BY Sizes
      <4>3. Power(2, GroupBits) \in Nat \ {0} /\ Power(2, FirstBits) \in Nat \ {0}
        BY <4>1, <4>2, Zenon
      <4> QED
        BY <4>3
    <3>2. suffix[i] \in 0 .. Power(2, GroupBits) - 1 /\ (i = 1 => suffix[i] < Power(2, FirstBits))
      BY Sizes DEF Decodable, Alphabet
    <3> QED
      BY <3>1, <3>2 DEF Size
  <2> HIDE DEF g, c, n, u
  <2>5. ASSUME NEW j \in 1 .. n PROVE g[j] = Digit(2, c, n - j)
    <3> DEFINE b == Start(i) + j - 1
    <3>1. b \in 1 .. Width /\ b \in Start(i) .. End(i) /\ End(i) - b = n - j
      BY <2>3
    <3> HIDE DEF b
    <3>2. Char(b) = i
      BY <3>1, CharOfBit
    <3>3. u[b] = Digit(2, suffix[Char(b)], End(Char(b)) - b)
      BY <3>1 DEF Decode, u
    <3>4. g[j] = u[b]
      BY <2>2 DEF b
    <3> QED
      BY <3>1, <3>2, <3>3, <3>4 DEF c
  <2>6. g = Digits(2, c, n)
    <3>1. g = [j \in 1 .. n |-> g[j]]
      BY <2>1
    <3> QED
      BY <2>5, <3>1 DEF Digits
  <2>7. Value(2, Digits(2, c, n)) = c
    BY <2>3, <2>4, Sizes, ValueOfDigits
  <2> QED
    BY <2>1, <2>6, <2>7 DEF c
<1>3. suffix = [i \in 1 .. EncodedLen |-> suffix[i]]
  BY Sizes DEF Decodable
<1>4. Encode(u) = [i \in 1 .. EncodedLen |-> Encode(u)[i]]
  BY DEF Encode
<1> HIDE DEF u
<1>5. Encode(u) = suffix
  BY <1>2, <1>3, <1>4
<1> QED
  BY <1>1, <1>5 DEF u

-----------------------------------------------------------------------------
(* The order of ids *)

\* Numbers of as many digits are in the order of their first different digit.
LEMMA ValueOrder ==
  ASSUME NEW r \in Nat \ {0}, NEW d \in Seq(0 .. r - 1), NEW e \in Seq(0 .. r - 1), Len(d) = Len(e),
         NEW k \in 1 .. Len(d), d[k] < e[k], \A j \in 1 .. k - 1 : d[j] = e[j]
  PROVE  Value(r, d) < Value(r, e)
<1> DEFINE n == Len(d)
<1>1. PICK v \in [0 .. n -> Int] : Follows(v, r, 0, d, n) /\ v[0] = 0 /\ Value(r, d) = v[n]
  BY ValueSteps
<1>2. PICK w \in [0 .. n -> Int] : Follows(w, r, 0, e, n) /\ w[0] = 0 /\ Value(r, e) = w[n]
  BY ValueSteps
<1>3. /\ n \in Nat /\ k \in Nat /\ k >= 1 /\ k <= n
      /\ \A j \in 1 .. n : d[j] \in 0 .. r - 1 /\ e[j] \in 0 .. r - 1
  <2>1. \A j \in 1 .. n : d[j] \in 0 .. r - 1
    OBVIOUS
  <2>2. \A j \in 1 .. n : e[j] \in 0 .. r - 1
    OBVIOUS
  <2> QED
    BY <2>1, <2>2
<1> HIDE DEF n
<1>4. v[k - 1] = w[k - 1]
  <2> DEFINE m == k - 1
  <2>1. m \in Nat /\ \A j \in 1 .. m : j \in 1 .. n /\ d[j] = e[j]
    BY <1>3
  <2> HIDE DEF m
  <2>2. Follows(v, r, 0, d, m)
    BY <1>1, <2>1 DEF Follows
  <2>3. Follows(w, r, 0, d, m)
    BY <1>2, <2>1 DEF Follows
  <2>4. \A x, y : Follows(x, r, 0, d, m) /\ Follows(y, r, 0, d, m) => x[m] = y[m]
    BY <2>1, HornerSame
  <2>5. v[m] = w[m]
    BY <2>2, <2>3, <2>4
  <2> QED
    BY <2>5 DEF m
<1>5. ASSUME NEW j \in 1 .. n
      PROVE  v[j] = r * v[j - 1] + d[j] /\ w[j] = r * w[j - 1] + e[j]
  BY <1>1, <1>2 DEF Follows
<1> DEFINE S == {j \in 0 .. n - k : v[k + j] < w[k + j]}
<1>6. 0 \in S
  <2>1. v[k] = r * v[k - 1] + d[k] /\ w[k] = r * w[k - 1] + e[k] /\ k - 1 \in 0 .. n
    BY <1>3, <1>5
  <2>2. v[k - 1] \in Int /\ d[k] \in Int /\ e[k] \in Int /\ k + 0 = k
    <3>1. k \in 1 .. n
      BY <1>3
    <3>2. d[k] \in 0 .. r - 1 /\ e[k] \in 0 .. r - 1
      BY <1>3, <3>1
    <3>3. v[k - 1] \in Int
      BY <2>1
    <3> QED
      BY <1>3, <3>2, <3>3
  <2>3. \A x, y, z \in Int : y < z => r * x + y < r * x + z
    OBVIOUS
  <2>4. v[k] < w[k]
    BY <1>4, <2>1, <2>2, <2>3
  <2> QED
    BY <1>3, <2>2, <2>4
<1>7. ASSUME NEW j \in 0 .. n - k - 1, j \in S PROVE j + 1 \in S
  <2> DEFINE i == k + j + 1  x == v[i - 1]  y == w[i - 1]
  <2>1. i \in 1 .. n /\ i - 1 = k + j /\ k + (j + 1) = i /\ i - 1 \in 0 .. n /\ j + 1 \in 0 .. n - k
    BY <1>3
  <2>2. x \in Int /\ y \in Int /\ x < y
    BY <1>7, <2>1
  <2>3. v[i] = r * x + d[i] /\ w[i] = r * y + e[i]
    BY <1>5, <2>1
  <2>4. d[i] \in 0 .. r - 1 /\ e[i] \in 0 .. r - 1
    BY <1>3, <2>1
  <2> HIDE DEF i, x, y
  <2>5. r * (y - x - 1) >= 0 /\ r * (y - x - 1) = r * y - r * x - r /\ r * x \in Int /\ r * y \in Int
    <3>1. y - x - 1 \in Nat
      BY <2>2
    <3>2. \A z \in Nat : r * z >= 0
      OBVIOUS
    <3> QED
      BY <2>2, <3>1, <3>2
  <2>6. \A a, b \in Int : \A f, g \in 0 .. r - 1 : b - a - r >= 0 => a + f < b + g
    OBVIOUS
  <2>7. v[i] < w[i]
    BY <2>3, <2>4, <2>5, <2>6
  <2> QED
    BY <2>1, <2>7
<1> HIDE DEF S
<1>8. n - k \in S
  <2>1. n - k \in Nat /\ n - k \in 0 .. n - k
    BY <1>3
  <2> QED
    BY <1>6, <1>7, <2>1, Induction
<1>9. k + (n - k) = n
  BY <1>3
<1> QED
  BY <1>1, <1>2, <1>8, <1>9 DEF S

\* A group of bits is over before the next ones start.
LEMMA GroupsApart ==
  ASSUME NEW i \in 1 .. EncodedLen, NEW j \in 1 .. EncodedLen, j < i
  PROVE  End(j) < Start(i)
<1>1. GroupBits \in Nat /\ FirstBits \in Nat /\ i \in Nat /\ j \in Nat /\ i # 1
  BY Sizes
<1>2. /\ Start(i) = End(i - 1) + 1 /\ End(i - 1) = FirstBits + GroupBits * (i - 1 - 1)
      /\ End(j) = FirstBits + GroupBits * (j - 1)
  BY <1>1 DEF Start, End
<1>3. /\ GroupBits * (i - 1 - 1) = GroupBits * (i - 1 - j) + GroupBits * (j - 1)
      /\ i - 1 - j \in Nat
  BY <1>1
<1>4. GroupBits * (i - 1 - j) \in Nat /\ GroupBits * (j - 1) \in Int
  BY <1>1, <1>3
<1> QED
  BY <1>1, <1>2, <1>3, <1>4

\* The codec keeps the order of uuids.
LEMMA OrderKept ==
  ASSUME NEW u \in Uuids, NEW w \in Uuids, Precedes(u, w)
  PROVE  \E i \in 1 .. EncodedLen :
           Encode(u)[i] < Encode(w)[i] /\ \A j \in 1 .. i - 1 : Encode(u)[j] = Encode(w)[j]
<1>1. PICK b \in 1 .. Width : u[b] < w[b] /\ \A a \in 1 .. b - 1 : u[a] = w[a]
  BY DEF Precedes, Uuids
<1> DEFINE i == Char(b)
<1>2. i \in 1 .. EncodedLen /\ b \in Start(i) .. End(i)
  BY BitOfChar
<1> HIDE DEF i
<1>3. Encode(u)[i] < Encode(w)[i]
  <2> DEFINE g == Group(u, i)  h == Group(w, i)  k == b - Start(i) + 1
  <2>1. /\ g \in Seq(0 .. 2 - 1) /\ Len(g) = Size(i) /\ Encode(u)[i] = Value(2, g)
        /\ h \in Seq(0 .. 2 - 1) /\ Len(h) = Size(i) /\ Encode(w)[i] = Value(2, h)
        /\ \A j \in 1 .. Size(i) : g[j] = u[Start(i) + j - 1] /\ h[j] = w[Start(i) + j - 1]
    BY <1>2, GroupIs
  <2>2. /\ Size(i) \in Nat /\ Start(i) \in Nat /\ Start(i) >= 1 /\ End(i) = Start(i) + Size(i) - 1
        /\ b \in Nat /\ End(i) \in Nat
    BY <1>2, GroupBounds
  <2>3. k \in 1 .. Size(i) /\ Start(i) + k - 1 = b
    BY <1>2, <2>2
  <2>4. \A j \in 1 .. k - 1 : j \in 1 .. Size(i) /\ Start(i) + j - 1 \in 1 .. b - 1
    BY <1>2, <2>2
  <2> HIDE DEF g, h, k
  <2>5. g[k] < h[k] /\ \A j \in 1 .. k - 1 : g[j] = h[j]
    BY <1>1, <2>1, <2>3, <2>4
  <2>6. Len(g) = Len(h) /\ k \in 1 .. Len(g)
    BY <2>1, <2>3
  <2>7. Value(2, g) < Value(2, h)
    BY <2>1, <2>5, <2>6, Sizes, ValueOrder, Zenon
  <2> QED
    BY <2>1, <2>7
<1>4. ASSUME NEW j \in 1 .. i - 1 PROVE Encode(u)[j] = Encode(w)[j]
  <2> DEFINE g == Group(u, j)  h == Group(w, j)
  <2>1. j \in 1 .. EncodedLen /\ j < i
    BY <1>2, Sizes
  <2>2. /\ g \in Seq(0 .. 2 - 1) /\ Len(g) = Size(j) /\ Encode(u)[j] = Value(2, g)
        /\ h \in Seq(0 .. 2 - 1) /\ Len(h) = Size(j) /\ Encode(w)[j] = Value(2, h)
        /\ \A k \in 1 .. Size(j) : g[k] = u[Start(j) + k - 1] /\ h[k] = w[Start(j) + k - 1]
    BY <2>1, GroupIs
  <2>3. End(j) < Start(i)
    BY <1>2, <2>1, GroupsApart
  <2>4. /\ Size(j) \in Nat /\ Start(j) \in Nat /\ Start(j) >= 1 /\ End(j) = Start(j) + Size(j) - 1
        /\ End(j) \in Nat /\ Start(i) \in Nat
    BY <1>2, <2>1, GroupBounds
  <2>5. \A k \in 1 .. Size(j) : Start(j) + k - 1 \in 1 .. b - 1
    BY <1>2, <2>3, <2>4
  <2> HIDE DEF g, h
  <2>6. \A k \in 1 .. Size(j) : g[k] = h[k]
    BY <1>1, <2>2, <2>5
  <2>7. g = h
    BY <2>2, <2>6
  <2> QED
    BY <2>2, <2>7
<1> QED
  BY <1>2, <1>3, <1>4

-----------------------------------------------------------------------------
(* The wire form and the parsers *)

\* A set of numbers below a bound has a greatest one.
LEMMA Largest ==
  ASSUME NEW n \in Nat, NEW T \in SUBSET (1 .. n), T # {}
  PROVE  \E x \in T : \A y \in T : x >= y
<1> DEFINE U == {n - x : x \in T}
<1>1. U \in SUBSET Nat /\ U # {}
  <2>1. \A x \in T : n - x \in Nat
    OBVIOUS
  <2>2. PICK x \in T : TRUE
    OBVIOUS
  <2> QED
    BY <2>1, <2>2
<1>2. PICK m \in U : \A y \in U : m <= y
  <2> HIDE DEF U
  <2> QED
    BY <1>1, Smallest
<1>3. PICK x \in T : m = n - x
  BY <1>2
<1>4. ASSUME NEW y \in T PROVE x >= y
  <2>1. n - y \in U
    OBVIOUS
  <2> QED
    BY <1>2, <1>3, <2>1
<1> QED
  BY <1>4

\* strings.LastIndex, one above the code's index and 0 where that is -1.
LastUnderscore(text) == SelectLastInSeq(text, LAMBDA c : c = Underscore)

\* The position ParseAny parts a text at: the last underscore, or 0 without one.
LEMMA LastUnderscoreIs ==
  ASSUME NEW text \in Seq(Int)
  PROVE  LET at == {i \in 1 .. Len(text) : text[i] = Underscore} IN
         /\ at = {} => LastUnderscore(text) = 0
         /\ at # {} => LastUnderscore(text) \in at
         /\ \A i \in at : i <= LastUnderscore(text)
<1> DEFINE at == {i \in 1 .. Len(text) : text[i] = Underscore}
           last == CHOOSE x \in at : \A y \in at : x >= y
<1>1. LastUnderscore(text) = IF at # {} THEN last ELSE 0
  BY DEF LastUnderscore, SelectLastInSeq, Max
<1>2. ASSUME at # {} PROVE last \in at /\ \A y \in at : last >= y
  <2>1. Len(text) \in Nat /\ at \in SUBSET (1 .. Len(text))
    OBVIOUS
  <2> HIDE DEF at
  <2>2. \E x \in at : \A y \in at : x >= y
    BY <1>2, <2>1, Largest
  <2> QED
    BY <2>2, Zenon
<1>3. \A y \in at : last >= y => y <= last
  <2>1. at # {} => last \in Int
    BY <1>2
  <2> HIDE DEF last
  <2> QED
    BY <2>1
<1> HIDE DEF last, at
<1> QED
  BY <1>1, <1>2, <1>3 DEF at

\* The error is no identifier.
LEMMA NoIdIs ==
  ASSUME NEW prefix, NEW uuid
  PROVE  [prefix |-> prefix, uuid |-> uuid] # NoId
<1>1. DOMAIN [prefix |-> prefix, uuid |-> uuid] = {"prefix", "uuid"} /\ DOMAIN NoId = {"error"}
  BY DEF NoId
<1>2. "error" \notin {"prefix", "uuid"}
  OBVIOUS
<1> QED
  BY <1>1, <1>2

\* The wire form, character by character: the last underscore is the separator,
\* as no character of the base32 alphabet is one.
LEMMA WireIs ==
  ASSUME NEW prefix \in ValidPrefixes, NEW uuid \in Uuids
  PROVE  LET id == [prefix |-> prefix, uuid |-> uuid]
             wire == WireForm(id)
             n == Len(prefix)
         IN  /\ From(prefix, uuid) = id
             /\ wire \in Seq(Int) /\ Len(wire) = n + 1 + EncodedLen /\ n \in Nat \ {0}
             /\ \A i \in 1 .. n : wire[i] = prefix[i]
             /\ wire[n + 1] = Underscore
             /\ \A i \in 1 .. EncodedLen : wire[n + 1 + i] = Encode(uuid)[i]
<1> DEFINE id == [prefix |-> prefix, uuid |-> uuid]  n == Len(prefix)
           e == Encode(uuid)  s == prefix \o <<Underscore>>  wire == s \o e
<1>1. prefix \in Seq(Letters \cup {Underscore}) /\ ValidatePrefix(prefix)
  BY DEF ValidPrefixes
<1>2. n \in Nat \ {0}
  BY <1>1 DEF ValidatePrefix
<1>3. prefix \in Seq(Int) /\ <<Underscore>> \in Seq(Int) /\ Len(<<Underscore>>) = 1 /\ <<Underscore>>[1] = Underscore
  <2>1. Letters \cup {Underscore} \subseteq Int
    BY EncodingAssumption DEF Underscore
  <2>2. \A i \in 1 .. Len(prefix) : prefix[i] \in Int
    BY <1>1, <2>1
  <2>3. prefix = [i \in 1 .. Len(prefix) |-> prefix[i]] /\ Len(prefix) \in Nat
    BY <1>1
  <2>4. prefix \in Seq(Int)
    BY <2>2, <2>3
  <2> QED
    BY <2>4 DEF Underscore
<1>4. e \in Seq(Int) /\ Len(e) = EncodedLen /\ EncodedLen \in Nat
  <2>1. e \in Seq(Alphabet) /\ Len(e) = EncodedLen
    BY EncodeIs
  <2>2. Alphabet \subseteq Int
    BY DEF Alphabet
  <2>3. e = [i \in 1 .. Len(e) |-> e[i]] /\ \A i \in 1 .. Len(e) : e[i] \in Int
    BY <2>1, <2>2
  <2> QED
    BY <2>1, <2>3, Sizes
<1>5. WireForm(id) = wire
  BY DEF WireForm
<1>6. From(prefix, uuid) = id
  BY <1>1 DEF From
<1> HIDE DEF e, n
<1>7. /\ s \in Seq(Int) /\ Len(s) = n + 1
      /\ \A i \in 1 .. n : s[i] = prefix[i]
      /\ s[n + 1] = Underscore
  <2>1. /\ s \in Seq(Int) /\ Len(s) = Len(prefix) + Len(<<Underscore>>)
        /\ \A i \in 1 .. Len(prefix) + Len(<<Underscore>>) :
             s[i] = IF i <= Len(prefix) THEN prefix[i] ELSE <<Underscore>>[i - Len(prefix)]
    BY <1>3, ConcatProperties, Zenon
  <2>2. /\ Len(s) = n + 1
        /\ \A i \in 1 .. n + 1 : s[i] = IF i <= n THEN prefix[i] ELSE <<Underscore>>[i - n]
    BY <1>3, <2>1 DEF n
  <2>3. (n + 1) - n = 1 /\ n + 1 \in 1 .. n + 1 /\ ~(n + 1 <= n) /\ \A i \in 1 .. n : i \in 1 .. n + 1 /\ i <= n
    BY <1>2
  <2> HIDE DEF s
  <2> QED
    BY <1>3, <2>1, <2>2, <2>3
<1> HIDE DEF s
<1>8. /\ wire \in Seq(Int) /\ Len(wire) = n + 1 + EncodedLen
      /\ \A i \in 1 .. n + 1 : wire[i] = s[i]
      /\ \A i \in 1 .. EncodedLen : wire[n + 1 + i] = e[i]
  <2>1. /\ wire \in Seq(Int) /\ Len(wire) = Len(s) + Len(e)
        /\ \A i \in 1 .. Len(s) + Len(e) :
             wire[i] = IF i <= Len(s) THEN s[i] ELSE e[i - Len(s)]
    BY <1>4, <1>7, ConcatProperties, Zenon
  <2> HIDE DEF wire
  <2>2. \A i \in 1 .. n + 1 : wire[i] = s[i]
    BY <1>2, <1>4, <1>7, <2>1
  <2>3. ASSUME NEW i \in 1 .. EncodedLen PROVE wire[n + 1 + i] = e[i]
    <3> DEFINE j == n + 1 + i
    <3>1. j \in 1 .. Len(s) + Len(e) /\ ~(j <= Len(s)) /\ j - Len(s) = i
      BY <1>2, <1>4, <1>7
    <3> HIDE DEF j
    <3>2. wire[j] = e[j - Len(s)]
      BY <2>1, <3>1
    <3> QED
      BY <3>1, <3>2 DEF j
  <2> QED
    BY <1>4, <1>7, <2>1, <2>2, <2>3
<1>9. /\ \A i \in 1 .. n : wire[i] = prefix[i]
      /\ wire[n + 1] = Underscore
  <2> HIDE DEF wire
  <2> QED
    BY <1>2, <1>7, <1>8
<1> QED
  BY <1>2, <1>5, <1>6, <1>8, <1>9 DEF n, e

\* What is written of an identifier is parsed as it.
LEMMA ParseAnyWire ==
  ASSUME NEW prefix \in ValidPrefixes, NEW uuid \in Uuids
  PROVE  LET id == [prefix |-> prefix, uuid |-> uuid] IN ParseAny(WireForm(id)) = id
<1> DEFINE id == [prefix |-> prefix, uuid |-> uuid]  wire == WireForm(id)
           n == Len(prefix)  e == Encode(uuid)  sep == LastUnderscore(wire)
           suffix == SubSeq(wire, sep + 1, Len(wire))
           at == {i \in 1 .. Len(wire) : wire[i] = Underscore}
<1>1. /\ From(prefix, uuid) = id
      /\ wire \in Seq(Int) /\ Len(wire) = n + 1 + EncodedLen /\ n \in Nat \ {0}
      /\ \A i \in 1 .. n : wire[i] = prefix[i]
      /\ wire[n + 1] = Underscore
      /\ \A i \in 1 .. EncodedLen : wire[n + 1 + i] = e[i]
  BY WireIs
<1>2. /\ e \in Seq(Alphabet) /\ Len(e) = EncodedLen /\ Decodable(e) /\ EncodedLen \in Nat
      /\ \A i \in 1 .. EncodedLen : e[i] \in Int /\ e[i] # Underscore
  <2>1. e \in Seq(Alphabet) /\ Len(e) = EncodedLen /\ Decodable(e)
    BY EncodeIs
  <2>2. \A c \in Alphabet : c \in Int /\ c # Underscore
    BY DEF Alphabet, Underscore
  <2> QED
    BY <2>1, <2>2, Sizes
<1>3. prefix \in Seq(Letters \cup {Underscore})
  BY DEF ValidPrefixes
<1> HIDE DEF id, wire, n, e, sep
<1>4. (at # {} => sep \in at) /\ \A i \in at : i <= sep
  BY <1>1, LastUnderscoreIs DEF sep
<1>5. sep = n + 1
  <2>1. n + 1 \in at
    BY <1>1, <1>2
  <2>2. ASSUME NEW i \in at PROVE i <= n + 1
    <3> SUFFICES ASSUME i > n + 1 PROVE FALSE
      BY <1>1
    <3>1. i - n - 1 \in 1 .. EncodedLen /\ n + 1 + (i - n - 1) = i
      BY <1>1, <1>2
    <3>2. wire[i] = e[i - n - 1]
      BY <1>1, <3>1
    <3> QED
      BY <1>2, <3>1, <3>2
  <2> QED
    BY <1>1, <1>4, <2>1, <2>2
<1>6. SubSeq(wire, 1, sep - 1) = prefix
  <2>1. sep - 1 = n /\ n \in Nat
    BY <1>1, <1>5
  <2>2. SubSeq(wire, 1, n) = [i \in 1 .. n |-> wire[i]]
    BY <1>1, <2>1
  <2>3. prefix = [i \in 1 .. n |-> prefix[i]]
    BY <1>3 DEF n
  <2> QED
    BY <1>1, <2>1, <2>2, <2>3
<1>7. suffix = e
  <2> DEFINE m == n + 2  k == Len(wire)
  <2>1. /\ sep + 1 = m /\ m \in Int /\ k \in Int /\ m >= 1 /\ k - m + 1 = EncodedLen
        /\ \A i \in 1 .. EncodedLen : m + i - 1 = n + 1 + i
        /\ EncodedLen >= 1
    BY <1>1, <1>2, <1>5, Sizes
  <2>2. \A i \in m .. k : wire[i] \in Int
    BY <1>1, <2>1
  <2> HIDE DEF m, k
  <2>3. /\ SubSeq(wire, m, k) \in Seq(Int)
        /\ Len(SubSeq(wire, m, k)) = (IF m <= k THEN k - m + 1 ELSE 0)
        /\ \A i \in 1 .. k - m + 1 : SubSeq(wire, m, k)[i] = wire[m + i - 1]
    BY <2>1, <2>2, SubSeqProperties
  <2> DEFINE t == SubSeq(wire, m, k)
  <2> HIDE DEF t
  <2>4. t \in Seq(Int) /\ Len(t) = EncodedLen /\ \A i \in 1 .. EncodedLen : t[i] = e[i]
    <3>1. t \in Seq(Int) /\ Len(t) = EncodedLen
      BY <1>2, <2>1, <2>3 DEF t
    <3>2. ASSUME NEW i \in 1 .. EncodedLen PROVE t[i] = e[i]
      <4>1. t[i] = wire[m + i - 1]
        BY <2>1, <2>3 DEF t
      <4>2. m + i - 1 = n + 1 + i
        BY <2>1
      <4>3. wire[n + 1 + i] = e[i]
        BY <1>1
      <4> QED
        BY <4>1, <4>2, <4>3
    <3> QED
      BY <3>1, <3>2
  <2>5. t = [i \in 1 .. EncodedLen |-> t[i]] /\ e = [i \in 1 .. EncodedLen |-> e[i]]
    BY <1>2, <2>4
  <2>6. t = e
    BY <2>4, <2>5
  <2> QED
    BY <2>1, <2>6 DEF t, k
<1>8. Decode(e) = uuid
  BY DecodeEncode DEF e
<1>9. sep > 0
  BY <1>1, <1>5
<1> HIDE DEF suffix
<1>10. ParseAny(wire) = IF sep > 0 /\ Decodable(suffix)
                          THEN From(SubSeq(wire, 1, sep - 1), Decode(suffix)) ELSE NoId
  BY DEF ParseAny, LastUnderscore, sep, suffix
<1>11. ParseAny(wire) = id
  BY <1>1, <1>2, <1>6, <1>7, <1>8, <1>9, <1>10
<1> QED
  BY <1>11 DEF wire, id

\* A text that is parsed is what is written of the identifier.
LEMMA OneSpelled ==
  ASSUME NEW text \in Seq(Int)
  PROVE  OneSpelling(text)
<1> DEFINE sep == LastUnderscore(text)  n == Len(text)
           prefix == SubSeq(text, 1, sep - 1)  suffix == SubSeq(text, sep + 1, n)
           id == [prefix |-> prefix, uuid |-> Decode(suffix)]
           at == {i \in 1 .. n : text[i] = Underscore}
<1> SUFFICES ASSUME ParseAny(text) # NoId PROVE WireForm(ParseAny(text)) = text
  BY DEF OneSpelling
<1>1. /\ at = {} => sep = 0
      /\ at # {} => sep \in at
  BY LastUnderscoreIs
<1>2. n \in Nat /\ \A i \in 1 .. n : text[i] \in Int
  OBVIOUS
<1>3. ParseAny(text) = IF sep > 0 /\ Decodable(suffix) THEN From(prefix, Decode(suffix)) ELSE NoId
  BY DEF ParseAny, LastUnderscore
<1>4. text = [i \in 1 .. n |-> text[i]]
  OBVIOUS
<1> HIDE DEF sep, n, prefix, suffix
<1>5. sep > 0 /\ Decodable(suffix) /\ ParseAny(text) = id
  BY <1>3 DEF From
<1>6. sep \in 1 .. n /\ text[sep] = Underscore
  BY <1>1, <1>5
<1>7. /\ prefix \in Seq(Int) /\ Len(prefix) = sep - 1 /\ \A i \in 1 .. sep - 1 : prefix[i] = text[i]
  <2> DEFINE m == sep - 1
  <2>1. m \in Int /\ 1 \in Int /\ m >= 0 /\ \A i \in 1 .. m : text[i] \in Int
    BY <1>2, <1>6
  <2> HIDE DEF m
  <2>2. /\ SubSeq(text, 1, m) \in Seq(Int)
        /\ Len(SubSeq(text, 1, m)) = (IF 1 <= m THEN m - 1 + 1 ELSE 0)
        /\ \A i \in 1 .. m - 1 + 1 : SubSeq(text, 1, m)[i] = text[1 + i - 1]
    BY <2>1, SubSeqProperties
  <2>3. m - 1 + 1 = m /\ \A i \in 1 .. m : 1 + i - 1 = i
    BY <2>1
  <2>4. prefix = SubSeq(text, 1, m)
    BY DEF prefix, m
  <2>5. prefix \in Seq(Int) /\ Len(prefix) = m /\ \A i \in 1 .. m : prefix[i] = text[i]
    BY <2>1, <2>2, <2>3, <2>4
  <2> QED
    BY <2>5 DEF m
<1>8. /\ suffix \in Seq(Int) /\ Len(suffix) = n - sep
      /\ \A i \in 1 .. n - sep : suffix[i] = text[sep + i]
  <2> DEFINE m == sep + 1
  <2>1. m \in Int /\ n \in Int /\ m <= n + 1 /\ m = sep + 1 /\ \A i \in m .. n : text[i] \in Int
    BY <1>2, <1>6
  <2> HIDE DEF m
  <2>2. /\ SubSeq(text, m, n) \in Seq(Int)
        /\ Len(SubSeq(text, m, n)) = (IF m <= n THEN n - m + 1 ELSE 0)
        /\ \A i \in 1 .. n - m + 1 : SubSeq(text, m, n)[i] = text[m + i - 1]
    BY <2>1, SubSeqProperties
  <2>3. n - m + 1 = n - sep /\ \A i \in 1 .. n - sep : m + i - 1 = sep + i
    BY <1>6, <2>1
  <2>4. suffix = SubSeq(text, m, n)
    BY DEF suffix, m
  <2> QED
    BY <1>6, <2>1, <2>2, <2>3, <2>4
<1>9. Encode(Decode(suffix)) = suffix
  BY <1>5, <1>8, EncodeDecode
<1> HIDE DEF id
<1>10. WireForm(id) = (prefix \o <<Underscore>>) \o suffix
  BY <1>9 DEF WireForm, id
<1> DEFINE s == prefix \o <<Underscore>>  w == s \o suffix
<1>11. <<Underscore>> \in Seq(Int) /\ Len(<<Underscore>>) = 1 /\ <<Underscore>>[1] = Underscore
  BY DEF Underscore
<1>12. /\ s \in Seq(Int) /\ Len(s) = sep
       /\ \A i \in 1 .. sep - 1 : s[i] = text[i]
       /\ s[sep] = text[sep]
  <2>1. /\ s \in Seq(Int) /\ Len(s) = Len(prefix) + Len(<<Underscore>>)
        /\ \A i \in 1 .. Len(prefix) + Len(<<Underscore>>) :
             s[i] = IF i <= Len(prefix) THEN prefix[i] ELSE <<Underscore>>[i - Len(prefix)]
    BY <1>7, <1>11, ConcatProperties, Zenon
  <2> HIDE DEF s
  <2>2. \A i \in 1 .. sep : s[i] = IF i <= sep - 1 THEN prefix[i] ELSE <<Underscore>>[i - (sep - 1)]
    <3>1. Len(prefix) = sep - 1 /\ Len(prefix) + Len(<<Underscore>>) = sep
      BY <1>6, <1>7, <1>11
    <3> QED
      BY <2>1, <3>1
  <2>3. sep - (sep - 1) = 1 /\ ~(sep <= sep - 1) /\ sep \in 1 .. sep
    BY <1>6
  <2>4. s[sep] = text[sep]
    BY <1>6, <1>11, <2>2, <2>3
  <2>5. \A i \in 1 .. sep - 1 : s[i] = text[i]
    BY <1>6, <1>7, <2>2
  <2>6. Len(s) = sep
    BY <1>6, <1>7, <1>11, <2>1
  <2> QED
    BY <2>1, <2>4, <2>5, <2>6
<1> HIDE DEF s
<1>13. w = text
  <2>1. /\ w \in Seq(Int) /\ Len(w) = Len(s) + Len(suffix)
        /\ \A i \in 1 .. Len(s) + Len(suffix) :
             w[i] = IF i <= Len(s) THEN s[i] ELSE suffix[i - Len(s)]
    BY <1>8, <1>12, ConcatProperties, Zenon
  <2> HIDE DEF w
  <2>2. Len(w) = n /\ \A i \in 1 .. n : w[i] = IF i <= sep THEN s[i] ELSE suffix[i - sep]
    <3>1. Len(s) = sep /\ Len(s) + Len(suffix) = n
      BY <1>2, <1>6, <1>8, <1>12
    <3> QED
      BY <2>1, <3>1
  <2>3. ASSUME NEW i \in 1 .. n PROVE w[i] = text[i]
    <3>1. CASE i < sep
      <4>1. i \in 1 .. sep - 1 /\ i <= sep
        BY <1>6, <3>1
      <4> QED
        BY <1>12, <2>2, <4>1
    <3>2. CASE i = sep
      <4>1. i <= sep
        BY <1>6, <3>2
      <4> QED
        BY <1>12, <2>2, <3>2, <4>1
    <3>3. CASE i > sep
      <4>1. i - sep \in 1 .. n - sep /\ sep + (i - sep) = i /\ ~(i <= sep)
        BY <1>2, <1>6, <3>3
      <4> QED
        BY <1>8, <2>2, <4>1
    <3> QED
      BY <1>6, <3>1, <3>2, <3>3
  <2>4. w = [i \in 1 .. n |-> w[i]]
    BY <2>1, <2>2
  <2> QED
    BY <1>4, <2>3, <2>4
<1> QED
  BY <1>5, <1>10, <1>13 DEF s

\* From, String, Parse and ParseAny, for every prefix, uuid and text, and any width
\* of an id: what is written is read back, nothing else is, and the order is kept.
THEOREM IdsFaithful == Spec => []IdsAreFaithful
<1>1. ASSUME Typed, input.kind = "minted"
      PROVE  /\ ReadsBack(From(input.prefix, input.uuid), input.other)
             /\ \A uuid \in Uuids :
                  Precedes(input.uuid, uuid) =>
                    Precedes(WireForm(From(input.prefix, input.uuid)), WireForm(From(input.prefix, uuid)))
  <2> DEFINE prefix == input.prefix  u == input.uuid  other == input.other
             id == [prefix |-> prefix, uuid |-> u]
  <2>1. prefix \in ValidPrefixes /\ u \in Uuids
    BY <1>1, Kinds DEF Minted
  <2> HIDE DEF prefix, u
  <2>2. From(prefix, u) = id /\ ParseAny(WireForm(id)) = id /\ id # NoId /\ id.prefix = prefix
    BY <2>1, WireIs, ParseAnyWire, NoIdIs
  <2>3. ReadsBack(id, other)
    <3> HIDE DEF id, other
    <3> QED
      BY <2>2 DEF ReadsBack, Parse
  <2>4. ASSUME NEW w \in Uuids, Precedes(u, w)
        PROVE  Precedes(WireForm(From(prefix, u)), WireForm(From(prefix, w)))
    <3> DEFINE n == Len(prefix)
               s == WireForm([prefix |-> prefix, uuid |-> u])
               t == WireForm([prefix |-> prefix, uuid |-> w])
    <3>1. /\ s \in Seq(Int) /\ Len(s) = n + 1 + EncodedLen /\ n \in Nat
          /\ \A i \in 1 .. n : s[i] = prefix[i]
          /\ s[n + 1] = Underscore
          /\ \A i \in 1 .. EncodedLen : s[n + 1 + i] = Encode(u)[i]
      BY <2>1, WireIs
    <3>2. /\ t \in Seq(Int) /\ Len(t) = n + 1 + EncodedLen
          /\ \A i \in 1 .. n : t[i] = prefix[i]
          /\ t[n + 1] = Underscore
          /\ \A i \in 1 .. EncodedLen : t[n + 1 + i] = Encode(w)[i]
      BY <2>1, <2>4, WireIs
    <3>3. s = WireForm(From(prefix, u)) /\ t = WireForm(From(prefix, w))
      BY <2>1, <2>4, WireIs
    <3>4. PICK i \in 1 .. EncodedLen :
            Encode(u)[i] < Encode(w)[i] /\ \A j \in 1 .. i - 1 : Encode(u)[j] = Encode(w)[j]
      BY <2>1, <2>4, OrderKept
    <3> HIDE DEF n, s, t
    <3> DEFINE k == n + 1 + i
    <3>5. /\ EncodedLen \in Nat /\ k \in 1 .. n + 1 + EncodedLen
          /\ DOMAIN s = 1 .. n + 1 + EncodedLen /\ DOMAIN t = 1 .. n + 1 + EncodedLen
      BY <3>1, <3>2, Sizes
    <3>6. s[k] < t[k]
      BY <3>1, <3>2, <3>4
    <3>7. ASSUME NEW j \in 1 .. k - 1 PROVE s[j] = t[j]
      <4>1. CASE j <= n
        <5>1. j \in 1 .. n
          BY <3>1, <4>1
        <5> QED
          BY <3>1, <3>2, <5>1
      <4>2. CASE j = n + 1
        BY <3>1, <3>2, <4>2
      <4>3. CASE j > n + 1
        <5>1. j - n - 1 \in 1 .. i - 1 /\ j - n - 1 \in 1 .. EncodedLen /\ n + 1 + (j - n - 1) = j
          BY <3>1, <3>5, <4>3
        <5> QED
          BY <3>1, <3>2, <3>4, <5>1
      <4> QED
        BY <3>1, <4>1, <4>2, <4>3
    <3> HIDE DEF k
    <3>8. Precedes(s, t)
      BY <3>5, <3>6, <3>7 DEF Precedes
    <3> QED
      BY <3>3, <3>8
  <2> QED
    BY <2>2, <2>3, <2>4 DEF prefix, u
<1>2. ASSUME Typed, input.kind = "wire" PROVE OneSpelling(input.text)
  <2>1. input.text \in Seq(Int)
    BY <1>2, Kinds DEF Wires
  <2> QED
    BY <2>1, OneSpelled
<1>3. Typed => IdsAreFaithful
  BY <1>1, <1>2 DEF IdsAreFaithful
<1> QED
  BY <1>3, InputsTyped, PTL

=============================================================================
