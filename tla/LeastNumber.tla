----------------------------- MODULE LeastNumber ------------------------------
(***************************************************************************)
(* The least number of a set, in a module of its own: proofs about a       *)
(* module that uses the sequence operators cannot see how well-founded     *)
(* orderings are defined.                                                  *)
(***************************************************************************)
EXTENDS Naturals, FiniteSetTheorems, TLAPS

(* Every nonempty set of numbers has a least one.                          *)
LEMMA Least ==
  ASSUME NEW S, S \subseteq Nat, S # {}
  PROVE  \E n \in S : \A m \in S : n <= m
<1> DEFINE Ts == {0 .. n : n \in S}
<1>1. Ts \subseteq FiniteSubsetsOf(Nat) /\ Ts # {}
  <2>1. ASSUME NEW n \in S PROVE 0 .. n \in FiniteSubsetsOf(Nat)
    BY FS_Interval DEF FiniteSubsetsOf
  <2> QED
    BY <2>1
<1>2. PICK T \in Ts : \A U \in Ts : <<U, T>> \notin StrictSubsetOrdering(Nat)
  <2>1. IsWellFoundedOn(StrictSubsetOrdering(Nat), FiniteSubsetsOf(Nat))
    BY FS_StrictSubsetOrderingWellFounded
  <2>2. \E T \in Ts : \A U \in Ts : ~(<<U, T>> \in StrictSubsetOrdering(Nat))
    <3> HIDE DEF Ts
    <3> QED
      BY <1>1, <2>1, WFMin, Zenon
  <2> QED
    BY <2>2
<1>3. PICK n \in S : T = 0 .. n
  OBVIOUS
<1>4. ASSUME NEW m \in S, m < n PROVE FALSE
  <2>1. 0 .. m \subseteq T /\ 0 .. m # T
    BY <1>3, <1>4
  <2>2. 0 .. m \in Ts /\ 0 .. m \in SUBSET Nat /\ T \in SUBSET Nat
    BY <1>3
  <2> QED
    BY <1>2, <2>1, <2>2 DEF StrictSubsetOrdering
<1>5. ASSUME NEW m \in S PROVE n <= m
  BY <1>4
<1> QED
  BY <1>5

(* Every nonempty set of indices has a greatest one.                       *)
LEMMA Greatest ==
  ASSUME NEW n \in Nat, NEW S, S \subseteq 1 .. n, S # {}
  PROVE  \E g \in S : \A m \in S : m <= g
<1> DEFINE D == {n - m : m \in S}
<1>1. D \subseteq Nat /\ D # {}
  <2>1. \A m \in S : n - m \in Nat
    OBVIOUS
  <2> QED
    BY <2>1
<1>2. PICK d \in D : \A e \in D : d <= e
  <2> HIDE DEF D
  <2> QED
    BY <1>1, Least
<1>3. PICK g \in S : d = n - g
  OBVIOUS
<1>4. ASSUME NEW m \in S PROVE m <= g
  <2>1. d <= n - m /\ m \in Nat /\ g \in Nat
    BY <1>2
  <2> QED
    BY <1>3, <2>1
<1> QED
  BY <1>4

(* Induction up to a number, as a fact about a set.                        *)
LEMMA Climb ==
  ASSUME NEW n \in Nat, NEW S, 0 \in S, \A i \in 1 .. n : i - 1 \in S => i \in S
  PROVE  0 .. n \subseteq S
<1> DEFINE D == {i \in 0 .. n : i \notin S}
<1> SUFFICES ASSUME D # {} PROVE FALSE
  OBVIOUS
<1>1. D \subseteq Nat
  OBVIOUS
<1>2. PICK d \in D : \A e \in D : d <= e
  <2> HIDE DEF D
  <2> QED
    BY <1>1, Least
<1>3. d \in 1 .. n /\ d \notin S
  <2>1. d # 0 /\ d \in 0 .. n
    OBVIOUS
  <2> QED
    BY <2>1
<1>4. d - 1 \notin D
  BY <1>2, <1>3
<1>5. d - 1 \in S
  BY <1>3, <1>4
<1> QED
  BY <1>3, <1>5

(* A recursive function on 0 .. n whose values stay in given sets exists.  *)
Recurs(f, n, base, step) == f = [i \in 0 .. n |-> IF i = 0 THEN base ELSE step[i][f[i - 1]]]

LEMMA Recursion ==
  ASSUME NEW n \in Nat, NEW F, NEW base, NEW step, base \in F[0],
         \A i \in 1 .. n : \A x \in F[i - 1] : step[i][x] \in F[i]
  PROVE  \E f : Recurs(f, n, base, step) /\ \A i \in 0 .. n : f[i] \in F[i]
<1> DEFINE Goes(m) == \E f : Recurs(f, m, base, step) /\ \A i \in 0 .. m : f[i] \in F[i]
           S == {m \in 0 .. n : Goes(m)}
<1>1. 0 \in S
  <2> PICK f : f = [i \in 0 .. 0 |-> base]
    OBVIOUS
  <2>1. Recurs(f, 0, base, step)
    BY DEF Recurs
  <2> QED
    BY <2>1
<1>2. ASSUME NEW m \in 1 .. n, m - 1 \in S PROVE m \in S
  <2>1. PICK g : Recurs(g, m - 1, base, step) /\ \A i \in 0 .. m - 1 : g[i] \in F[i]
    BY <1>2
  <2> PICK last : last = step[m][g[m - 1]]
    OBVIOUS
  <2> PICK f : f = [i \in 0 .. m |-> IF i = m THEN last ELSE g[i]]
    OBVIOUS
  <2>2. m \in Nat /\ m # 0 /\ m - 1 \in 0 .. m - 1 /\ m \notin 0 .. m - 1 /\ 0 .. m = (0 .. m - 1) \cup {m}
    BY <1>2
  <2>3. f[m] = last /\ \A i \in 0 .. m - 1 : f[i] = g[i]
    BY <2>2
  <2>4. \A i \in 0 .. m - 1 : g[i] = IF i = 0 THEN base ELSE step[i][g[i - 1]]
    BY <2>1 DEF Recurs
  <2>5. \A i \in 0 .. m : f[i] = IF i = 0 THEN base ELSE step[i][f[i - 1]]
    <3> TAKE i \in 0 .. m
    <3>1. CASE i = m
      BY <2>2, <2>3, <3>1
    <3>2. CASE i # m /\ i # 0
      <4>1. i \in 0 .. m - 1 /\ i - 1 \in 0 .. m - 1
        BY <2>2, <3>2
      <4> QED
        BY <2>3, <2>4, <4>1
    <3>3. CASE i # m /\ i = 0
      BY <2>2, <2>3, <2>4, <3>3
    <3> QED
      BY <3>1, <3>2, <3>3
  <2>6. Recurs(f, m, base, step)
    BY <2>5 DEF Recurs
  <2>7. \A i \in 0 .. m : f[i] \in F[i]
    <3>1. last \in F[m]
      BY <1>2, <2>1, <2>2
    <3> QED
      BY <2>1, <2>2, <2>3, <3>1
  <2> QED
    BY <1>2, <2>6, <2>7
<1>3. 0 .. n \subseteq S
  <2> HIDE DEF S
  <2> QED
    BY <1>1, <1>2, Climb
<1> QED
  BY <1>3

(* What a function makes of a finite set is finite.                        *)
LEMMA FiniteImage ==
  ASSUME NEW S, IsFiniteSet(S), NEW f, DOMAIN f = S
  PROVE  IsFiniteSet({f[x] : x \in S})
<1>1. PICK g : g = [x \in S |-> f[x]]
  OBVIOUS
<1>2. g \in Surjection(S, {f[x] : x \in S})
  BY <1>1 DEF Surjection
<1> QED
  BY <1>2, FS_Surjection

(* More numbers than values: two numbers have the same value.              *)
LEMMA TwoAlike ==
  ASSUME NEW n \in Nat, NEW T, IsFiniteSet(T), n > Cardinality(T), NEW f \in [1 .. n -> T]
  PROVE  \E a \in 1 .. n : \E b \in 1 .. n : a < b /\ f[a] = f[b]
<1>1. IsFiniteSet(1 .. n) /\ Cardinality(1 .. n) = n
  <2>1. 1 \in Int /\ n \in Int
    OBVIOUS
  <2>2. IsFiniteSet(1 .. n) /\ Cardinality(1 .. n) = IF 1 > n THEN 0 ELSE n - 1 + 1
    BY <2>1, FS_Interval
  <2> QED
    BY <2>2
<1>2. Cardinality(T) < Cardinality(1 .. n)
  BY <1>1, FS_CardinalityType
<1>3. PICK x \in 1 .. n, y \in 1 .. n : x # y /\ f[x] = f[y]
  BY <1>1, <1>2, FS_PigeonHole
<1>4. x < y \/ y < x
  BY <1>3
<1> QED
  BY <1>3, <1>4
=============================================================================
