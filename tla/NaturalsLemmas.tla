--------------------------- MODULE NaturalsLemmas ---------------------------
(***************************************************************************)
(* Induction and recursion over the natural numbers in a first-order form: *)
(* about sets and functions, where NaturalsInduction is about operators.   *)
(***************************************************************************)
EXTENDS Integers, WellFoundedInduction, TLAPS

\* A set with 0 and the successor of each of its numbers has every number.
LEMMA SetInduction ==
    ASSUME NEW S, 0 \in S, \A n \in Nat : n \in S => n + 1 \in S
    PROVE  Nat \subseteq S
<1> DEFINE T == Nat \ S
           R == OpToRel(<, Nat)
<1>1. SUFFICES ASSUME T # {} PROVE FALSE
  OBVIOUS
<1>2. PICK x \in T : \A y \in T : ~ (<<y, x>> \in R)
  BY <1>1, NatLessThanWellFounded, WFMin, Zenon
<1>3. x # 0 /\ x - 1 \in Nat /\ x - 1 < x
  OBVIOUS
<1>4. x - 1 \in S
  BY <1>2, <1>3 DEF OpToRel
<1> QED
  BY <1>3, <1>4

\* f has the value z in A for 0 and is got by the n-th step h[n] after that.
IsRecursive(f, A, z, h) ==
    f \in [Nat -> A] /\ f[0] = z /\ \A n \in Nat : f[n + 1] = h[n][f[n]]

\* A first value and a step for each number define a function.
LEMMA Recursion ==
    ASSUME NEW A, NEW z \in A, NEW h \in [Nat -> [A -> A]]
    PROVE  \E f : IsRecursive(f, A, z, h)
<1> DEFINE Upto(n) == {g \in [0 .. n -> A] :
                          g[0] = z /\ \A m \in 0 .. n - 1 : g[m + 1] = h[m][g[m]]}
           Defined == {n \in Nat : Upto(n) # {}}
           Agreed == {n \in Nat : \A j, k \in Nat : n <= j /\ n <= k =>
                          \A g1 \in Upto(j), g2 \in Upto(k) : g1[n] = g2[n]}
<1>1. \A n \in Nat : \A g \in Upto(n) :
         g \in [0 .. n -> A] /\ g[0] = z /\ \A m \in 0 .. n - 1 : g[m + 1] = h[m][g[m]]
  OBVIOUS
<1>2. Nat \subseteq Defined
  <2>1. 0 \in Defined
    <3>1. [m \in 0 .. 0 |-> z] \in Upto(0)
      OBVIOUS
    <3> QED
      BY <3>1
  <2>2. ASSUME NEW n \in Nat, n \in Defined PROVE n + 1 \in Defined
    <3>1. PICK g : g \in Upto(n)
      BY <2>2
    <3> DEFINE g1 == [m \in 0 .. n + 1 |-> IF m = n + 1 THEN h[n][g[n]] ELSE g[m]]
    <3>2. g[n] \in A /\ h[n] \in [A -> A]
      BY <3>1
    <3>3. h[n][g[n]] \in A
      BY <3>2
    <3>4. g1 \in [0 .. n + 1 -> A]
      BY <3>1, <3>3
    <3>5. g1[0] = z
      BY <3>1
    <3>6. ASSUME NEW m \in 0 .. (n + 1) - 1 PROVE g1[m + 1] = h[m][g1[m]]
      BY <3>1
    <3>7. g1 \in Upto(n + 1)
      BY <3>4, <3>5, <3>6
    <3> HIDE DEF g1, Upto
    <3> QED
      BY <3>7
  <2> HIDE DEF Defined
  <2> QED
    BY <2>1, <2>2, SetInduction
<1>3. Nat \subseteq Agreed
  <2>1. 0 \in Agreed
    OBVIOUS
  <2>2. ASSUME NEW n \in Nat, n \in Agreed PROVE n + 1 \in Agreed
    <3> HIDE DEF Upto
    <3> SUFFICES ASSUME NEW j \in Nat, NEW k \in Nat, n + 1 <= j, n + 1 <= k,
                        NEW g1 \in Upto(j), NEW g2 \in Upto(k)
                 PROVE  g1[n + 1] = g2[n + 1]
      OBVIOUS
    <3>1. g1[n] = g2[n]
      BY <2>2
    <3>2. n \in 0 .. j - 1 /\ n \in 0 .. k - 1
      OBVIOUS
    <3>3. g1[n + 1] = h[n][g1[n]] /\ g2[n + 1] = h[n][g2[n]]
      BY <1>1, <3>2
    <3> QED
      BY <3>1, <3>3
  <2> HIDE DEF Agreed
  <2> QED
    BY <2>1, <2>2, SetInduction
<1> DEFINE G(n) == CHOOSE g : g \in Upto(n)
<1>4. ASSUME NEW n \in Nat
      PROVE  /\ G(n) \in Upto(n)
             /\ G(n)[n] \in A
             /\ G(n)[0] = z
  <2>1. G(n) \in Upto(n)
    <3> HIDE DEF Upto
    <3> QED
      BY <1>2
  <2> HIDE DEF G, Upto
  <2>2. n \in 0 .. n
    OBVIOUS
  <2> QED
    BY <2>1, <2>2, <1>1
<1>5. ASSUME NEW n \in Nat PROVE G(n + 1)[n + 1] = h[n][G(n)[n]]
  <2>1. G(n)[n] = G(n + 1)[n]
    <3> HIDE DEF G, Upto
    <3>1. n <= n + 1 /\ n + 1 \in Nat
      OBVIOUS
    <3> QED
      BY <1>3, <1>4, <3>1
  <2>2. G(n + 1)[n + 1] = h[n][G(n + 1)[n]]
    <3> HIDE DEF G, Upto
    <3>1. n + 1 \in Nat /\ n \in 0 .. (n + 1) - 1
      OBVIOUS
    <3>2. G(n + 1) \in Upto(n + 1)
      BY <1>4, <3>1
    <3> QED
      BY <1>1, <3>1, <3>2
  <2> HIDE DEF G
  <2> QED
    BY <2>1, <2>2
<1> DEFINE f == [n \in Nat |-> G(n)[n]]
<1> HIDE DEF G
<1>6. IsRecursive(f, A, z, h)
  BY <1>4, <1>5 DEF IsRecursive
<1> QED
  BY <1>6

===============================================================================
