------------------------------ MODULE Recursion ------------------------------
(***************************************************************************)
(* Induction over the naturals with the induction hypothesis as a set, and *)
(* the functions that recursion defines: what the proofs about powers and  *)
(* about the extent of an array rest on.                                   *)
(***************************************************************************)
EXTENDS Integers, WellFoundedInduction, TLAPS

LEMMA Least ==
  ASSUME NEW S, S \subseteq Nat, S # {}
  PROVE  \E x \in S : \A y \in S : x <= y
<1>1. PICK x \in S : \A y \in S : <<y, x>> \notin OpToRel(<, Nat)
  BY NatLessThanWellFounded, WFMin, Zenon
<1>2. \A y \in S : ~ (y < x)
  BY <1>1, Zenon DEF OpToRel
<1> QED BY <1>2

\* A set with zero that is closed under successor has every natural number.
LEMMA SetInduction ==
  ASSUME NEW S, 0 \in S, \A n \in S \cap Nat : n + 1 \in S
  PROVE  Nat \subseteq S
<1>. SUFFICES ASSUME Nat \ S # {} PROVE FALSE
  OBVIOUS
<1>1. PICK x \in Nat \ S : \A y \in Nat \ S : <<y, x>> \notin OpToRel(<, Nat)
  BY NatLessThanWellFounded, WFMin, Zenon
<1>2. \A y \in Nat \ S : ~ (y < x)
  BY <1>1, Zenon DEF OpToRel
<1>3. x \in Nat /\ x \notin S
  BY <1>1, Zenon
<1>4. x # 0 /\ x - 1 \in Nat /\ x - 1 < x /\ x - 1 + 1 = x
  BY <1>3
<1>5. x - 1 \in S
  BY <1>2, <1>4
<1> QED BY <1>3, <1>4, <1>5

\* The first n values of the function that starts with c and goes on by step.
Starts(f, n, c, step) == f[0] = c /\ \A i \in 0 .. n - 1 : f[i + 1] = step[i][f[i]]

LEMMA StartExists ==
  ASSUME NEW S, NEW c \in S, NEW step \in [Nat -> [S -> S]], NEW n \in Nat
  PROVE  \E f \in [0 .. n -> S] : Starts(f, n, c, step)
<1> DEFINE T == {k \in Nat : \E f \in [0 .. k -> S] : Starts(f, k, c, step)}
<1>1. 0 \in T
  <2> DEFINE f == [i \in 0 .. 0 |-> c]
  <2>1. f \in [0 .. 0 -> S] /\ Starts(f, 0, c, step)
    BY DEF Starts
  <2> QED BY <2>1
<1>2. ASSUME NEW k \in T \cap Nat
      PROVE  k + 1 \in T
  <2>1. PICK f \in [0 .. k -> S] : Starts(f, k, c, step)
    OBVIOUS
  <2> DEFINE g == [i \in 0 .. k + 1 |-> IF i = k + 1 THEN step[k][f[k]] ELSE f[i]]
  <2>2. step[k][f[k]] \in S
    OBVIOUS
  <2>3. g \in [0 .. k + 1 -> S]
    BY <2>2
  <2>4. \A i \in 0 .. k + 1 - 1 : g[i + 1] = step[i][g[i]]
    <3> TAKE i \in 0 .. k + 1 - 1
    <3>1. CASE i = k
      <4>1. g[k + 1] = step[k][f[k]] /\ g[k] = f[k]
        OBVIOUS
      <4> QED BY <3>1, <4>1
    <3>2. CASE i \in 0 .. k - 1
      BY <2>1, <3>2 DEF Starts
    <3> QED BY <3>1, <3>2
  <2>5. g[0] = c
    BY <2>1 DEF Starts
  <2> HIDE DEF g
  <2>6. Starts(g, k + 1, c, step) /\ k + 1 \in Nat
    BY <2>4, <2>5 DEF Starts
  <2> QED BY <2>3, <2>6
<1> HIDE DEF T
<1>3. n \in T
  BY <1>1, <1>2, SetInduction
<1> QED BY <1>3 DEF T

LEMMA StartsAgree ==
  ASSUME NEW c, NEW step, NEW f, NEW g, NEW n \in Nat, NEW m \in Nat, n <= m,
         Starts(f, n, c, step), Starts(g, m, c, step)
  PROVE  \A i \in 0 .. n : f[i] = g[i]
<1> DEFINE U == {i \in Nat : i <= n => f[i] = g[i]}
<1>1. 0 \in U
  BY DEF Starts
<1>2. ASSUME NEW i \in U \cap Nat
      PROVE  i + 1 \in U
  <2>1. CASE i + 1 <= n
    <3>1. i \in 0 .. n - 1 /\ i \in 0 .. m - 1 /\ f[i] = g[i]
      BY <2>1
    <3>2. f[i + 1] = step[i][f[i]] /\ g[i + 1] = step[i][g[i]]
      BY <3>1 DEF Starts
    <3> QED BY <3>1, <3>2
  <2> QED BY <2>1
<1> HIDE DEF U
<1>3. Nat \subseteq U
  BY <1>1, <1>2, SetInduction
<1> QED BY <1>3 DEF U

IsDefined(S, c, step) ==
  \E f \in [Nat -> S] : f[0] = c /\ \A n \in Nat : f[n + 1] = step[n][f[n]]

\* There is a function that starts with c and goes on by step.
LEMMA RecursiveFunction ==
  ASSUME NEW S, NEW c \in S, NEW step \in [Nat -> [S -> S]]
  PROVE  IsDefined(S, c, step)
<1> DEFINE upTo(n) == CHOOSE f \in [0 .. n -> S] : Starts(f, n, c, step)
           h == [n \in Nat |-> upTo(n)[n]]
<1>1. ASSUME NEW n \in Nat
      PROVE  upTo(n) \in [0 .. n -> S] /\ Starts(upTo(n), n, c, step)
  BY StartExists
<1> HIDE DEF upTo
<1>2. h \in [Nat -> S]
  BY <1>1
<1>3. h[0] = c
  BY <1>1 DEF Starts
<1>4. ASSUME NEW n \in Nat
      PROVE  h[n + 1] = step[n][h[n]]
  <2>1. n + 1 \in Nat /\ n <= n + 1 /\ n \in 0 .. n /\ n \in 0 .. n + 1 - 1
    OBVIOUS
  <2>2. upTo(n)[n] = upTo(n + 1)[n]
    BY <1>1, <2>1, StartsAgree
  <2>3. upTo(n + 1)[n + 1] = step[n][upTo(n + 1)[n]]
    BY <1>1, <2>1 DEF Starts
  <2> QED BY <2>1, <2>2, <2>3
<1> QED BY <1>2, <1>3, <1>4 DEF IsDefined

\* A function on an interval that goes on like f does is f, moved to where it begins.
GoesOn(p, f, lo, hi) ==
  p[lo] = f[0] /\ \A k \in lo + 1 .. hi : p[k - 1] = f[k - 1 - lo] => p[k] = f[k - lo]

LEMMA Follows ==
  ASSUME NEW f, NEW p, NEW lo \in Int, NEW hi \in Int, GoesOn(p, f, lo, hi)
  PROVE  \A k \in lo .. hi : p[k] = f[k - lo]
<1> DEFINE S == {n \in Nat : lo + n <= hi => p[lo + n] = f[n]}
<1>1. 0 \in S
  BY DEF GoesOn
<1>2. ASSUME NEW n \in S \cap Nat
      PROVE  n + 1 \in S
  <2>1. SUFFICES ASSUME lo + (n + 1) <= hi PROVE p[lo + (n + 1)] = f[n + 1]
    OBVIOUS
  <2>2. lo + (n + 1) \in lo + 1 .. hi /\ lo + (n + 1) - 1 = lo + n /\ lo + (n + 1) - 1 - lo = n
        /\ lo + (n + 1) - lo = n + 1 /\ p[lo + n] = f[n]
    BY <2>1
  <2> QED BY <2>2 DEF GoesOn
<1> HIDE DEF S
<1>3. Nat \subseteq S
  BY <1>1, <1>2, SetInduction
<1>4. ASSUME NEW k \in lo .. hi
      PROVE  p[k] = f[k - lo]
  <2>1. k - lo \in Nat /\ lo + (k - lo) = k /\ k - lo \in S
    BY <1>3
  <2> QED BY <2>1 DEF S
<1> QED BY <1>4
=============================================================================
