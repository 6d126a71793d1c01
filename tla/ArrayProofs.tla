----------------------------- MODULE ArrayProofs -----------------------------
(***************************************************************************)
(* Lemmas for every array, without a bound on its dimensions: how many     *)
(* elements some dimensions span, where an element of some subscripts is,  *)
(* that each object laid over Matlab's memory has the array's elements at  *)
(* the array's subscripts, and what an output made of such an object is.   *)
(***************************************************************************)
EXTENDS Marshal, Recursion, SequenceTheorems, FiniteSetTheorems

-----------------------------------------------------------------------------
(* The number of elements that some dimensions span. *)

LEMMA Products ==
  ASSUME NEW a \in Int, NEW b \in Int, NEW c \in Nat \ {0}
  PROVE  /\ a * c \in Int
         /\ a <= b <=> a * c <= b * c
         /\ a < b <=> a * c < b * c
         /\ a = b <=> a * c = b * c
  OBVIOUS

IsExtent(f, dims, a) ==
  /\ f[0] = 1
  /\ \A b \in a .. Len(dims) : f[b - a + 1] = dims[b] * f[b - a]
  /\ \A b \in a - 1 .. Len(dims) : Extent(dims, a, b) = f[b - a + 1]

LEMMA ExtentFunction ==
  ASSUME NEW dims \in Seq(Nat), NEW a \in Nat \ {0}
  PROVE  \E f \in [Nat -> Nat] : IsExtent(f, dims, a)
<1> DEFINE dim(n) == IF a + n \in DOMAIN dims THEN dims[a + n] ELSE 1
           step == [n \in Nat |-> [x \in Nat |-> dim(n) * x]]
<1>1. PICK f \in [Nat -> Nat] : f[0] = 1 /\ \A n \in Nat : f[n + 1] = step[n][f[n]]
  <2>1. \A n \in Nat : dim(n) \in Nat
    OBVIOUS
  <2>2. 1 \in Nat /\ step \in [Nat -> [Nat -> Nat]]
    BY <2>1
  <2> HIDE DEF step
  <2>3. IsDefined(Nat, 1, step)
    BY <2>2, RecursiveFunction
  <2> QED BY <2>3 DEF IsDefined
<1>2. ASSUME NEW b \in a .. Len(dims)
      PROVE  f[b - a + 1] = dims[b] * f[b - a]
  <2>1. b - a \in Nat /\ a + (b - a) = b /\ b \in DOMAIN dims
    OBVIOUS
  <2>2. f[b - a + 1] = step[b - a][f[b - a]]
    BY <1>1, <2>1
  <2>3. step[b - a][f[b - a]] = dim(b - a) * f[b - a]
    BY <2>1
  <2> QED BY <2>1, <2>2, <2>3
<1>3. ASSUME NEW b \in a - 1 .. Len(dims)
      PROVE  Extent(dims, a, b) = f[b - a + 1]
  <2> DEFINE Is(p) == p = [k \in a - 1 .. b |-> IF k = a - 1 THEN 1 ELSE dims[k] * p[k - 1]]
             q == [k \in a - 1 .. b |-> f[k - (a - 1)]]
             p == CHOOSE p : Is(p)
  <2>1. Extent(dims, a, b) = p[b]
    BY DEF Extent
  <2>2. Is(q)
    <3>1. ASSUME NEW k \in a - 1 .. b
          PROVE  q[k] = IF k = a - 1 THEN 1 ELSE dims[k] * q[k - 1]
      <4>1. CASE k = a - 1
        BY <1>1, <4>1
      <4>2. CASE k # a - 1
        <5>1. k \in a .. Len(dims) /\ k - 1 \in a - 1 .. b /\ k - (a - 1) = k - a + 1 /\ k - 1 - (a - 1) = k - a
          BY <4>2
        <5> QED BY <1>2, <4>2, <5>1
      <4> QED BY <4>1, <4>2
    <3> QED BY <3>1
  <2>3. Is(p)
    BY <2>2
  <2> HIDE DEF p
  <2>4. p[a - 1] = f[0]
    BY <1>1, <2>3
  <2>5. ASSUME NEW k \in (a - 1) + 1 .. b, p[k - 1] = f[k - 1 - (a - 1)]
        PROVE  p[k] = f[k - (a - 1)]
    <3>1. k \in a .. Len(dims) /\ k \in a - 1 .. b /\ k # a - 1 /\ k - (a - 1) = k - a + 1 /\ k - 1 - (a - 1) = k - a
      OBVIOUS
    <3>2. p[k] = dims[k] * p[k - 1]
      BY <2>3, <3>1
    <3> QED BY <1>2, <2>5, <3>1, <3>2
  <2>6. \A k \in a - 1 .. b : p[k] = f[k - (a - 1)]
    <3>1. \A k \in (a - 1) + 1 .. b : p[k - 1] = f[k - 1 - (a - 1)] => p[k] = f[k - (a - 1)]
      BY <2>5
    <3>2. a - 1 \in Int /\ b \in Int
      OBVIOUS
    <3>3. GoesOn(p, f, a - 1, b)
      BY <2>4, <3>1 DEF GoesOn
    <3> QED BY <3>2, <3>3, Follows
  <2>7. b \in a - 1 .. b /\ b - (a - 1) = b - a + 1
    OBVIOUS
  <2> QED BY <2>1, <2>6, <2>7
<1> QED BY <1>1, <1>2, <1>3 DEF IsExtent

LEMMA Extents ==
  ASSUME NEW dims \in Seq(Nat), NEW a \in Nat \ {0}
  PROVE  /\ a <= Len(dims) + 1 => Extent(dims, a, a - 1) = 1
         /\ \A b \in a - 1 .. Len(dims) : Extent(dims, a, b) \in Nat
         /\ \A b \in a .. Len(dims) : Extent(dims, a, b) = dims[b] * Extent(dims, a, b - 1)
<1>1. PICK f \in [Nat -> Nat] : IsExtent(f, dims, a)
  BY ExtentFunction
<1>2. \A b \in a - 1 .. Len(dims) : b - a + 1 \in Nat /\ Extent(dims, a, b) = f[b - a + 1]
  BY <1>1 DEF IsExtent
<1>3. \A b \in a .. Len(dims) :
        b - 1 \in a - 1 .. Len(dims) /\ b \in a - 1 .. Len(dims) /\ b - 1 - a + 1 = b - a
  OBVIOUS
<1>4. \A b \in a .. Len(dims) : Extent(dims, a, b) = dims[b] * Extent(dims, a, b - 1)
  BY <1>1, <1>2, <1>3 DEF IsExtent
<1>5. a <= Len(dims) + 1 => a - 1 \in a - 1 .. Len(dims) /\ a - 1 - a + 1 = 0
  OBVIOUS
<1>6. a <= Len(dims) + 1 => Extent(dims, a, a - 1) = 1
  BY <1>1, <1>2, <1>5 DEF IsExtent
<1> QED BY <1>2, <1>4, <1>6

LEMMA ExtentIsNat ==
  ASSUME NEW dims \in Seq(Nat), NEW b \in 0 .. Len(dims)
  PROVE  Extent(dims, 1, b) \in Nat
<1>1. \A k \in 1 - 1 .. Len(dims) : Extent(dims, 1, k) \in Nat
  BY Extents
<1> QED BY <1>1

\* The same dimensions of two sequences span the same.
LEMMA ExtentOfPrefix ==
  ASSUME NEW dims \in Seq(Nat), NEW size \in Seq(Nat), NEW n \in Nat, n <= Len(dims), n <= Len(size),
         \A d \in 1 .. n : dims[d] = size[d]
  PROVE  \A b \in 0 .. n : Extent(dims, 1, b) = Extent(size, 1, b)
<1> DEFINE S == {b \in Nat : b <= n => Extent(dims, 1, b) = Extent(size, 1, b)}
<1>1. 0 \in S
  <2>1. Extent(dims, 1, 1 - 1) = 1 /\ Extent(size, 1, 1 - 1) = 1
    BY Extents
  <2> QED BY <2>1
<1>2. ASSUME NEW b \in S \cap Nat
      PROVE  b + 1 \in S
  <2>1. SUFFICES ASSUME b + 1 <= n PROVE Extent(dims, 1, b + 1) = Extent(size, 1, b + 1)
    OBVIOUS
  <2>2. /\ b + 1 \in 1 .. Len(dims) /\ b + 1 \in 1 .. Len(size) /\ b + 1 \in 1 .. n /\ b + 1 - 1 = b
        /\ Extent(dims, 1, b) = Extent(size, 1, b)
    BY <2>1
  <2>3. /\ \A k \in 1 .. Len(dims) : Extent(dims, 1, k) = dims[k] * Extent(dims, 1, k - 1)
        /\ \A k \in 1 .. Len(size) : Extent(size, 1, k) = size[k] * Extent(size, 1, k - 1)
    BY Extents
  <2>4. /\ Extent(dims, 1, b + 1) = dims[b + 1] * Extent(dims, 1, b + 1 - 1)
        /\ Extent(size, 1, b + 1) = size[b + 1] * Extent(size, 1, b + 1 - 1)
    BY <2>2, <2>3
  <2> QED BY <2>2, <2>4
<1> HIDE DEF S
<1>3. Nat \subseteq S
  BY <1>1, <1>2, SetInduction
<1> QED BY <1>3 DEF S

\* The first dimension may be counted apart.
LEMMA ExtentSplits ==
  ASSUME NEW dims \in Seq(Nat), 1 <= Len(dims)
  PROVE  \A b \in 1 .. Len(dims) : Extent(dims, 1, b) = dims[1] * Extent(dims, 2, b)
<1> DEFINE S == {n \in Nat : n + 1 <= Len(dims) => Extent(dims, 1, n + 1) = dims[1] * Extent(dims, 2, n + 1)}
<1>0. dims[1] \in Nat /\ Len(dims) \in Nat
  OBVIOUS
<1>1. 0 \in S
  <2>1. Extent(dims, 1, 1 - 1) = 1 /\ Extent(dims, 2, 2 - 1) = 1
    BY Extents
  <2>2. Extent(dims, 1, 1) = dims[1] * Extent(dims, 1, 1 - 1)
    BY Extents
  <2> QED BY <1>0, <2>1, <2>2
<1>2. ASSUME NEW n \in S \cap Nat
      PROVE  n + 1 \in S
  <2>1. SUFFICES ASSUME n + 1 + 1 <= Len(dims)
                 PROVE  Extent(dims, 1, n + 1 + 1) = dims[1] * Extent(dims, 2, n + 1 + 1)
    OBVIOUS
  <2>2. /\ n + 1 + 1 \in 1 .. Len(dims) /\ n + 1 + 1 \in 2 .. Len(dims) /\ n + 1 + 1 - 1 = n + 1
        /\ Extent(dims, 1, n + 1) = dims[1] * Extent(dims, 2, n + 1)
        /\ dims[n + 1 + 1] \in Nat /\ n + 1 \in 2 - 1 .. Len(dims)
    BY <2>1
  <2>3. /\ Extent(dims, 1, n + 1 + 1) = dims[n + 1 + 1] * Extent(dims, 1, n + 1 + 1 - 1)
        /\ Extent(dims, 2, n + 1 + 1) = dims[n + 1 + 1] * Extent(dims, 2, n + 1 + 1 - 1)
        /\ Extent(dims, 2, n + 1) \in Nat
    BY <2>2, Extents
  <2> HIDE DEF S
  <2>4. Extent(dims, 1, n + 1 + 1) = dims[n + 1 + 1] * (dims[1] * Extent(dims, 2, n + 1))
    BY <2>2, <2>3
  <2>5. \A x, y, z \in Nat : x * (y * z) = y * (x * z)
    OBVIOUS
  <2>6. Extent(dims, 1, n + 1 + 1) = dims[1] * (dims[n + 1 + 1] * Extent(dims, 2, n + 1))
    BY <1>0, <2>2, <2>3, <2>4, <2>5
  <2> QED BY <2>2, <2>3, <2>6
<1> HIDE DEF S
<1>3. Nat \subseteq S
  BY <1>1, <1>2, SetInduction
<1>4. ASSUME NEW b \in 1 .. Len(dims)
      PROVE  Extent(dims, 1, b) = dims[1] * Extent(dims, 2, b)
  <2>1. b - 1 \in S /\ b - 1 + 1 = b
    BY <1>3
  <2> QED BY <2>1 DEF S
<1> QED BY <1>4

\* One dimension to four.
LEMMA ShortExtents ==
  ASSUME NEW s \in Seq(Nat)
  PROVE  /\ Extent(s, 1, 0) = 1
         /\ Len(s) >= 1 => Extent(s, 1, 1) = s[1]
         /\ Len(s) >= 2 => Extent(s, 1, 2) = s[1] * s[2] /\ Extent(s, 2, 2) = s[2]
         /\ Len(s) >= 3 => Extent(s, 1, 3) = (s[1] * s[2]) * s[3]
         /\ Len(s) >= 4 => Extent(s, 1, 4) = s[4] * Extent(s, 1, 3)
<1>0. Extent(s, 1, 0) = 1
  BY Extents
<1>1. Len(s) >= 1 => Extent(s, 1, 1) = s[1] /\ s[1] \in Nat
  <2>1. Len(s) >= 1 => Extent(s, 1, 1) = s[1] * Extent(s, 1, 1 - 1) /\ s[1] \in Nat
    BY Extents
  <2> QED BY <1>0, <2>1
<1>2. Len(s) >= 2 => Extent(s, 1, 2) = s[1] * s[2] /\ Extent(s, 2, 2) = s[2] /\ s[2] \in Nat
  <2>1. Len(s) >= 2 => /\ Extent(s, 1, 2) = s[2] * Extent(s, 1, 2 - 1) /\ s[2] \in Nat
                       /\ Extent(s, 2, 2) = s[2] * Extent(s, 2, 2 - 1) /\ Extent(s, 2, 2 - 1) = 1
    BY Extents
  <2>2. Len(s) >= 2 => Len(s) >= 1
    OBVIOUS
  <2> QED BY <1>1, <2>1, <2>2
<1>3. Len(s) >= 3 => Extent(s, 1, 3) = (s[1] * s[2]) * s[3]
  <2>1. Len(s) >= 3 => Extent(s, 1, 3) = s[3] * Extent(s, 1, 3 - 1) /\ s[3] \in Nat
    BY Extents
  <2>2. Len(s) >= 3 => Len(s) >= 2 /\ Len(s) >= 1
    OBVIOUS
  <2> QED BY <1>1, <1>2, <2>1, <2>2
<1>4. Len(s) >= 4 => Extent(s, 1, 4) = s[4] * Extent(s, 1, 4 - 1)
  BY Extents
<1> QED BY <1>0, <1>1, <1>2, <1>3, <1>4

LEMMA FourOf ==
  ASSUME NEW s \in Seq(Nat), Len(s) = 4
  PROVE  /\ s[4] \in Nat /\ Len(s) >= 4 /\ Len(s) >= 3 /\ 3 \in 1 - 1 .. Len(s)
         /\ SubSeq(s, 1, 3) \in Seq(Nat) /\ Len(SubSeq(s, 1, 3)) = 3
         /\ \A d \in 1 .. 3 : SubSeq(s, 1, 3)[d] = s[d]
<1>1. \A d \in 1 .. 4 : s[d] \in Nat
  BY LenProperties
<1>2. 4 \in 1 .. 4 /\ 3 \in 1 - 1 .. 4 /\ 4 >= 4 /\ 4 >= 3
  OBVIOUS
<1>3. SubSeq(s, 1, 3) \in Seq(Nat) /\ Len(SubSeq(s, 1, 3)) = 3 /\ \A d \in 1 .. 3 : SubSeq(s, 1, 3)[d] = s[d]
  <2>1. \A d \in 1 .. 3 : s[d] \in Nat
    BY <1>1
  <2> QED BY <2>1, SubSeqProperties
<1> QED BY <1>1, <1>2, <1>3

-----------------------------------------------------------------------------
(* The offset of a subscript. *)

\* Subscripts are the elements' positions in each dimension.
IsSub(sub, dims) == DOMAIN sub = DOMAIN dims /\ \A d \in DOMAIN dims : sub[d] \in Nat \ {0}

LEMMA SubscriptsAre ==
  ASSUME NEW dims \in Seq(Nat), NEW sub \in Subscripts(dims)
  PROVE  /\ IsSub(sub, dims) /\ \A d \in DOMAIN dims : sub[d] <= dims[d]
         /\ sub \in Seq(Nat) /\ Len(sub) = Len(dims)
<1> DEFINE widest == CHOOSE w \in {dims[d] : d \in DOMAIN dims} : \A d \in DOMAIN dims : dims[d] <= w
<1>1. sub \in [DOMAIN dims -> 1 .. widest] /\ \A d \in DOMAIN dims : sub[d] <= dims[d]
  BY DEF Subscripts
<1> HIDE DEF widest
<1>2. \A x \in 1 .. widest : x \in Nat \ {0}
  OBVIOUS
<1>3. PICK n \in Nat : n = Len(dims) /\ DOMAIN dims = 1 .. n
  BY LenProperties
<1>4. sub \in [1 .. n -> Nat]
  BY <1>1, <1>2, <1>3
<1>5. sub \in Seq(Nat) /\ Len(sub) = n
  BY <1>4
<1> QED BY <1>1, <1>2, <1>3, <1>5 DEF IsSub

IsOffset(f, dims, sub) ==
  /\ f[0] = 0
  /\ \A d \in 1 .. Len(dims) : f[d] = f[d - 1] + (sub[d] - 1) * Extent(dims, 1, d - 1)
  /\ Offset(dims, sub) = f[Len(dims)]

LEMMA OffsetFunction ==
  ASSUME NEW dims \in Seq(Nat), NEW sub, IsSub(sub, dims)
  PROVE  \E f \in [Nat -> Nat] : IsOffset(f, dims, sub)
<1> DEFINE more(n) == IF n + 1 \in DOMAIN dims THEN (sub[n + 1] - 1) * Extent(dims, 1, n) ELSE 0
           step == [n \in Nat |-> [x \in Nat |-> x + more(n)]]
<1>1. \A n \in Nat : more(n) \in Nat
  <2> TAKE n \in Nat
  <2>1. CASE n + 1 \in DOMAIN dims
    <3>1. n \in 1 - 1 .. Len(dims) /\ sub[n + 1] - 1 \in Nat
      BY <2>1 DEF IsSub
    <3>2. Extent(dims, 1, n) \in Nat
      BY <3>1, Extents
    <3> QED BY <2>1, <3>1, <3>2
  <2>2. CASE n + 1 \notin DOMAIN dims
    BY <2>2
  <2> QED BY <2>1, <2>2
<1>2. PICK f \in [Nat -> Nat] : f[0] = 0 /\ \A n \in Nat : f[n + 1] = step[n][f[n]]
  <2>1. 0 \in Nat /\ step \in [Nat -> [Nat -> Nat]]
    BY <1>1
  <2> HIDE DEF step
  <2>2. IsDefined(Nat, 0, step)
    BY <2>1, RecursiveFunction
  <2> QED BY <2>2 DEF IsDefined
<1>3. ASSUME NEW d \in 1 .. Len(dims)
      PROVE  f[d] = f[d - 1] + (sub[d] - 1) * Extent(dims, 1, d - 1)
  <2>1. d - 1 \in Nat /\ d - 1 + 1 = d /\ d \in DOMAIN dims
    OBVIOUS
  <2>2. f[d] = step[d - 1][f[d - 1]]
    BY <1>2, <2>1
  <2>3. f[d] = f[d - 1] + more(d - 1)
    BY <2>1, <2>2
  <2> QED BY <2>1, <2>3
<1>4. Offset(dims, sub) = f[Len(dims)]
  <2> DEFINE last == Len(dims)
             Is(p) == p = [d \in 0 .. last |-> IF d = 0 THEN 0 ELSE p[d - 1] + (sub[d] - 1) * Extent(dims, 1, d - 1)]
             q == [d \in 0 .. last |-> f[d]]
             p == CHOOSE p : Is(p)
  <2>0. last \in Nat
    OBVIOUS
  <2>1. Offset(dims, sub) = p[last]
    BY DEF Offset
  <2>2. Is(q)
    <3>1. ASSUME NEW d \in 0 .. last
          PROVE  q[d] = IF d = 0 THEN 0 ELSE q[d - 1] + (sub[d] - 1) * Extent(dims, 1, d - 1)
      <4>1. CASE d = 0
        BY <1>2, <4>1
      <4>2. CASE d # 0
        <5>1. d \in 1 .. Len(dims) /\ d - 1 \in 0 .. last
          BY <4>2
        <5> QED BY <1>3, <4>2, <5>1
      <4> QED BY <4>1, <4>2
    <3> QED BY <3>1
  <2>3. Is(p)
    BY <2>2
  <2> HIDE DEF p
  <2>4. p[0] = f[0]
    BY <1>2, <2>3
  <2>5. ASSUME NEW d \in 0 + 1 .. last, p[d - 1] = f[d - 1 - 0]
        PROVE  p[d] = f[d - 0]
    <3>1. d \in 1 .. Len(dims) /\ d \in 0 .. last /\ d # 0 /\ d - 0 = d /\ d - 1 - 0 = d - 1
      OBVIOUS
    <3>2. p[d] = p[d - 1] + (sub[d] - 1) * Extent(dims, 1, d - 1)
      BY <2>3, <3>1
    <3> QED BY <1>3, <2>5, <3>1, <3>2
  <2>6. GoesOn(p, f, 0, last)
    BY <2>4, <2>5 DEF GoesOn
  <2> HIDE DEF last
  <2>7. \A d \in 0 .. last : p[d] = f[d - 0]
    BY <2>0, <2>6, Follows, SMTT(30)
  <2>8. last \in 0 .. last /\ last - 0 = last
    BY <2>0
  <2> QED BY <2>1, <2>7, <2>8 DEF last
<1> QED BY <1>2, <1>3, <1>4 DEF IsOffset

LEMMA OffsetIsNat ==
  ASSUME NEW dims \in Seq(Nat), NEW sub, IsSub(sub, dims)
  PROVE  Offset(dims, sub) \in Nat
<1>1. PICK f \in [Nat -> Nat] : IsOffset(f, dims, sub)
  BY OffsetFunction
<1>2. Len(dims) \in Nat
  OBVIOUS
<1> QED BY <1>1, <1>2 DEF IsOffset

\* One dimension to four; those of length one add nothing.
LEMMA ShortOffsets ==
  ASSUME NEW dims \in Seq(Nat), NEW sub, IsSub(sub, dims)
  PROVE  /\ Len(dims) = 1 => Offset(dims, sub) = sub[1] - 1
         /\ Len(dims) = 2 => Offset(dims, sub) = sub[1] - 1 + (sub[2] - 1) * dims[1]
         /\ Len(dims) = 3 => Offset(dims, sub) = sub[1] - 1 + (sub[2] - 1) * dims[1]
                                                 + (sub[3] - 1) * Extent(dims, 1, 2)
         /\ Len(dims) = 4 => Offset(dims, sub) = sub[1] - 1 + (sub[2] - 1) * dims[1]
                                                 + (sub[3] - 1) * Extent(dims, 1, 2)
                                                 + (sub[4] - 1) * Extent(dims, 1, 3)
<1>1. PICK f \in [Nat -> Nat] : IsOffset(f, dims, sub)
  BY OffsetFunction
<1>2. /\ f[0] = 0 /\ Offset(dims, sub) = f[Len(dims)]
      /\ \A d \in 1 .. Len(dims) : f[d] = f[d - 1] + (sub[d] - 1) * Extent(dims, 1, d - 1)
  BY <1>1 DEF IsOffset
<1>3. ASSUME NEW d, NEW e \in 1 .. Len(dims), e - 1 = d
      PROVE  f[e] = f[d] + (sub[e] - 1) * Extent(dims, 1, d)
  BY <1>2, <1>3
<1>4. /\ Len(dims) \in Nat
      /\ Len(dims) >= 1 => 1 \in 1 .. Len(dims) /\ 1 - 1 = 0
      /\ Len(dims) >= 2 => 2 \in 1 .. Len(dims) /\ 2 - 1 = 1
      /\ Len(dims) >= 3 => 3 \in 1 .. Len(dims) /\ 3 - 1 = 2
      /\ Len(dims) >= 4 => 4 \in 1 .. Len(dims) /\ 4 - 1 = 3
  OBVIOUS
<1>5. /\ Len(dims) >= 1 => f[1] = f[0] + (sub[1] - 1) * Extent(dims, 1, 0)
      /\ Len(dims) >= 2 => f[2] = f[1] + (sub[2] - 1) * Extent(dims, 1, 1)
      /\ Len(dims) >= 3 => f[3] = f[2] + (sub[3] - 1) * Extent(dims, 1, 2)
      /\ Len(dims) >= 4 => f[4] = f[3] + (sub[4] - 1) * Extent(dims, 1, 3)
  BY <1>3, <1>4
<1>6. Len(dims) >= 1 => f[1] = sub[1] - 1
  <2>1. SUFFICES ASSUME Len(dims) >= 1 PROVE f[1] = sub[1] - 1
    OBVIOUS
  <2>2. sub[1] \in Nat /\ Extent(dims, 1, 0) = 1
    <3>1. Extent(dims, 1, 0) = 1
      BY ShortExtents, Zenon
    <3>2. 1 \in DOMAIN dims
      BY <1>4, <2>1, LenProperties
    <3>3. sub[1] \in Nat \ {0}
      BY <3>2, Zenon DEF IsSub
    <3> QED BY <3>1, <3>3
  <2>3. f[1] = 0 + (sub[1] - 1) * 1
    BY <1>2, <1>5, <2>1, <2>2, Zenon
  <2> QED BY <2>2, <2>3
<1>7. Len(dims) >= 2 => f[2] = sub[1] - 1 + (sub[2] - 1) * dims[1]
  <2>1. SUFFICES ASSUME Len(dims) >= 2 PROVE f[2] = sub[1] - 1 + (sub[2] - 1) * dims[1]
    OBVIOUS
  <2>2. Extent(dims, 1, 1) = dims[1] /\ Len(dims) >= 1
    <3>1. Len(dims) >= 1
      BY <1>4, <2>1
    <3> QED BY <3>1, ShortExtents
  <2> QED BY <1>5, <1>6, <2>1, <2>2
<1>8. /\ Len(dims) = 1 => Len(dims) >= 1
      /\ Len(dims) = 2 => Len(dims) >= 2
      /\ Len(dims) = 3 => Len(dims) >= 3 /\ Len(dims) >= 2
      /\ Len(dims) = 4 => Len(dims) >= 4 /\ Len(dims) >= 3 /\ Len(dims) >= 2
  <2>1. \A n \in Nat : /\ n = 1 => n >= 1
                       /\ n = 2 => n >= 2
                       /\ n = 3 => n >= 3 /\ n >= 2
                       /\ n = 4 => n >= 4 /\ n >= 3 /\ n >= 2
    OBVIOUS
  <2>2. Len(dims) \in Nat
    BY <1>4
  <2> QED BY <2>1, <2>2
<1> QED BY <1>2, <1>5, <1>6, <1>7, <1>8

\* A dimension of length one that is added at the end moves nothing; the last of four
\* counts blocks of the first three.
IsPadded(s, u, dims, sub) ==
  /\ Len(dims) <= Len(s)
  /\ \A d \in 1 .. Len(dims) : s[d] = dims[d] /\ u[d] = sub[d]
  /\ \A d \in Len(dims) + 1 .. Len(s) : u[d] = 1

LEMMA Lengths ==
  ASSUME NEW S, NEW s \in Seq(S), NEW n \in Nat, Len(s) = n
  PROVE  /\ DOMAIN s = 1 .. n /\ \A d \in 1 .. n : s[d] \in S
         /\ \A k \in Nat : k <= n => Len(s) >= k
  BY LenProperties

LEMMA NatTimes == \A x, y \in Nat : x * y \in Nat
  OBVIOUS

LEMMA PaddedOffset ==
  ASSUME NEW dims \in Seq(Nat), NEW sub, IsSub(sub, dims), NEW n \in 2 .. 4, Len(dims) = n,
         NEW s \in Seq(Nat), NEW u \in Seq(Nat), IsSub(u, s), NEW r \in 3 .. 4, Len(s) = r,
         IsPadded(s, u, dims, sub)
  PROVE  /\ r = 3 => Offset(s, u) = Offset(dims, sub)
         /\ r = 4 => (u[4] - 1) * Extent(s, 1, 3) + Offset(SubSeq(s, 1, 3), SubSeq(u, 1, 3)) = Offset(dims, sub)
<1>0. n \in Nat /\ r \in Nat /\ 2 \in Nat /\ 1 \in Nat /\ 2 <= n /\ 2 <= r /\ 1 <= n /\ 1 <= r
  OBVIOUS
<1>1. /\ DOMAIN s = 1 .. r /\ (\A d \in 1 .. r : s[d] \in Nat)
      /\ Len(s) >= 2 /\ Len(s) >= 1
  BY <1>0, Lengths
<1>2. /\ DOMAIN dims = 1 .. n /\ (\A d \in 1 .. n : dims[d] \in Nat)
      /\ Len(dims) >= 2 /\ Len(dims) >= 1
  BY <1>0, Lengths
<1>3. /\ n <= r /\ (\A d \in 1 .. n : s[d] = dims[d] /\ u[d] = sub[d])
      /\ (\A d \in n + 1 .. r : u[d] = 1)
      /\ (\A d \in 1 .. r : u[d] \in Nat \ {0}) /\ Len(u) = r
  <2>1. DOMAIN u = 1 .. Len(u) /\ Len(u) \in Nat
    BY LenProperties
  <2>2. \A k \in Nat : 1 .. k = 1 .. r => k = r
    <3> TAKE k \in Nat
    <3>1. SUFFICES ASSUME 1 .. k = 1 .. r PROVE k = r
      OBVIOUS
    <3>2. r \in 1 .. k /\ (k # 0 => k \in 1 .. k)
      BY <1>0, <3>1
    <3>3. k # 0 => k \in 1 .. r
      BY <3>1, <3>2
    <3> QED BY <1>0, <3>2, <3>3
  <2> QED BY <1>1, <2>1, <2>2 DEF IsPadded, IsSub
<1>4. /\ u[1] \in Nat \ {0} /\ u[2] \in Nat \ {0} /\ u[3] \in Nat \ {0}
      /\ s[1] \in Nat /\ s[2] \in Nat /\ s[3] \in Nat
      /\ s[1] = dims[1] /\ s[2] = dims[2] /\ u[1] = sub[1] /\ u[2] = sub[2]
  <2>1. 1 \in 1 .. r /\ 2 \in 1 .. r /\ 3 \in 1 .. r /\ 1 \in 1 .. n /\ 2 \in 1 .. n
    OBVIOUS
  <2> QED BY <1>1, <1>3, <2>1
<1>5. Extent(s, 1, 2) = s[1] * s[2] /\ Extent(dims, 1, 2) = s[1] * s[2]
  BY <1>1, <1>2, <1>4, ShortExtents
<1>6. PICK e2 \in Nat : e2 = s[1] * s[2]
  BY <1>4, NatTimes
<1>7. PICK a \in Int, b \in Int, c \in Int :
        /\ a = u[1] - 1 /\ b = (u[2] - 1) * s[1] /\ c = (u[3] - 1) * e2
        /\ u[3] = 1 => c = 0
  <2>1. \A x \in Nat \ {0}, y \in Nat : (x - 1) * y \in Int /\ (x = 1 => (x - 1) * y = 0)
    OBVIOUS
  <2>2. u[1] - 1 \in Int
    BY <1>4
  <2> QED BY <1>4, <1>6, <2>1, <2>2
<1>8. /\ n = 2 => Offset(dims, sub) = a + b
      /\ n = 3 => Offset(dims, sub) = a + b + (sub[3] - 1) * e2
      /\ n = 4 => Offset(dims, sub) = a + b + (sub[3] - 1) * e2 + (sub[4] - 1) * Extent(dims, 1, 3)
  <2>1. /\ Len(dims) = 2 => Offset(dims, sub) = sub[1] - 1 + (sub[2] - 1) * dims[1]
        /\ Len(dims) = 3 => Offset(dims, sub) = sub[1] - 1 + (sub[2] - 1) * dims[1]
                                                + (sub[3] - 1) * Extent(dims, 1, 2)
        /\ Len(dims) = 4 => Offset(dims, sub) = sub[1] - 1 + (sub[2] - 1) * dims[1]
                                                + (sub[3] - 1) * Extent(dims, 1, 2)
                                                + (sub[4] - 1) * Extent(dims, 1, 3)
    BY ShortOffsets
  <2>2. sub[1] - 1 = a /\ (sub[2] - 1) * dims[1] = b /\ Extent(dims, 1, 2) = e2
    BY <1>4, <1>5, <1>6, <1>7
  <2> QED BY <2>1, <2>2
<1>9. /\ n = 2 => u[3] = 1
      /\ n # 2 => u[3] = sub[3]
  <2>1. (n = 2 => 3 \in n + 1 .. r) /\ (n # 2 => 3 \in 1 .. n)
    OBVIOUS
  <2> QED BY <1>3, <2>1
<1>10. CASE r = 3
  <2>1. Offset(s, u) = a + b + c
    <3>1. Len(s) = 3
      BY <1>10
    <3>2. Offset(s, u) = u[1] - 1 + (u[2] - 1) * s[1] + (u[3] - 1) * Extent(s, 1, 2)
      BY <3>1, ShortOffsets
    <3> QED BY <1>5, <1>6, <1>7, <3>2
  <2>2. n = 2 \/ n = 3
    BY <1>3, <1>10
  <2>3. n = 2 => Offset(dims, sub) = a + b + c
    BY <1>7, <1>8, <1>9
  <2>4. n = 3 => Offset(dims, sub) = a + b + c
    BY <1>7, <1>8, <1>9
  <2> QED BY <1>10, <2>1, <2>2, <2>3, <2>4
<1>11. CASE r = 4
  <2> DEFINE q == SubSeq(s, 1, 3)
             v == SubSeq(u, 1, 3)
  <2>1. /\ q \in Seq(Nat) /\ Len(q) = 3 /\ (\A d \in 1 .. 3 : q[d] = s[d])
        /\ v \in Seq(Nat) /\ Len(v) = 3 /\ (\A d \in 1 .. 3 : v[d] = u[d])
    BY <1>3, <1>11, FourOf
  <2>2. Extent(s, 1, 3) \in Nat /\ u[4] \in Nat \ {0}
    <3>1. 3 \in 0 .. Len(s) /\ 4 \in 1 .. r
      BY <1>11
    <3> QED BY <1>3, <3>1, ExtentIsNat
  <2> HIDE DEF q, v
  <2>3. Offset(q, v) = a + b + c
    <3>1. IsSub(v, q)
      <4>1. DOMAIN v = 1 .. 3 /\ DOMAIN q = 1 .. 3
        BY <2>1, LenProperties
      <4>2. \A d \in 1 .. 3 : d \in 1 .. r
        OBVIOUS
      <4> QED BY <1>3, <2>1, <4>1, <4>2 DEF IsSub
    <3>2. Len(q) >= 2 /\ q[1] = s[1] /\ q[2] = s[2] /\ v[1] = u[1] /\ v[2] = u[2] /\ v[3] = u[3]
      BY <2>1
    <3>3. Extent(q, 1, 2) = e2
      <4>1. Extent(q, 1, 2) = q[1] * q[2]
        BY <2>1, <3>2, ShortExtents
      <4> QED BY <1>6, <3>2, <4>1
    <3>4. Offset(q, v) = v[1] - 1 + (v[2] - 1) * q[1] + (v[3] - 1) * Extent(q, 1, 2)
      BY <2>1, <3>1, ShortOffsets
    <3> QED BY <1>7, <3>2, <3>3, <3>4
  <2>4. PICK z \in Int : z = (u[4] - 1) * Extent(s, 1, 3) /\ (u[4] = 1 => z = 0)
    <3>1. \A x \in Nat \ {0}, y \in Nat : (x - 1) * y \in Int /\ (x = 1 => (x - 1) * y = 0)
      OBVIOUS
    <3> QED BY <2>2, <3>1
  <2>5. n = 2 => Offset(dims, sub) = a + b + c + z
    <3>1. n = 2 => 4 \in n + 1 .. r
      BY <1>11
    <3>2. n = 2 => u[4] = 1 /\ z = 0 /\ c = 0
      BY <1>3, <1>7, <1>9, <2>4, <3>1
    <3> QED BY <1>8, <3>2
  <2>6. n = 3 => Offset(dims, sub) = a + b + c + z
    <3>1. SUFFICES ASSUME n = 3 PROVE Offset(dims, sub) = a + b + c + z
      OBVIOUS
    <3>2. 4 \in n + 1 .. r
      BY <1>11, <3>1
    <3>3. u[4] = 1 /\ z = 0 /\ u[3] = sub[3]
      BY <1>3, <1>9, <2>4, <3>1, <3>2
    <3>4. Offset(dims, sub) = a + b + c
      BY <1>7, <1>8, <3>1, <3>3
    <3> QED BY <3>3, <3>4
  <2>7. n = 4 => Offset(dims, sub) = a + b + c + z
    <3>1. SUFFICES ASSUME n = 4 PROVE Offset(dims, sub) = a + b + c + z
      OBVIOUS
    <3>2. u[4] = sub[4] /\ u[3] = sub[3]
      BY <1>3, <1>9, <3>1
    <3>3. Extent(dims, 1, 3) = Extent(s, 1, 3)
      <4>1. 3 \in Nat /\ 3 \in 0 .. 3 /\ 3 <= Len(dims) /\ 3 <= Len(s) /\ (\A d \in 1 .. 3 : dims[d] = s[d])
        BY <1>3, <1>11, <3>1
      <4>2. \A k \in 0 .. 3 : Extent(dims, 1, k) = Extent(s, 1, k)
        BY <4>1, ExtentOfPrefix
      <4> QED BY <4>1, <4>2
    <3>4. Offset(dims, sub) = a + b + (sub[3] - 1) * e2 + (sub[4] - 1) * Extent(dims, 1, 3)
      BY <1>8, <3>1
    <3> QED BY <1>7, <2>4, <3>2, <3>3, <3>4
  <2>8. Offset(dims, sub) = z + (a + b + c)
    <3>1. a + b + c + z = z + (a + b + c) /\ (n = 2 \/ n = 3 \/ n = 4)
      OBVIOUS
    <3> QED BY <2>5, <2>6, <2>7, <3>1
  <2> QED BY <1>11, <2>3, <2>4, <2>8 DEF q, v
<1> QED BY <1>10, <1>11

LEMMA Quotient ==
  ASSUME NEW a \in Nat, NEW b \in Nat, NEW d \in Nat \ {0}, a < d
  PROVE  (a + b * d) \div d = b
  OBVIOUS

LEMMA ColumnOffset ==
  ASSUME NEW n \in Nat, NEW o \in Nat
  PROVE  Offset(<<n>>, <<o + 1>>) = o
<1>1. PICK s, u : s = <<n>> /\ u = <<o + 1>>
  OBVIOUS
<1>2. s \in Seq(Nat) /\ Len(s) = 1 /\ IsSub(u, s) /\ u[1] = o + 1
  BY <1>1 DEF IsSub
<1>3. Offset(s, u) = o + 1 - 1
  BY <1>2, ShortOffsets
<1> QED BY <1>1, <1>3

LEMMA MatrixOffset ==
  ASSUME NEW dims \in Seq(Nat), Len(dims) = 2, NEW sub, IsSub(sub, dims), sub[1] <= dims[1]
  PROVE  Offset(<<dims[1], dims[2]>>, <<sub[1], (Offset(dims, sub) \div dims[1]) + 1>>) = Offset(dims, sub)
<1>1. /\ DOMAIN dims = 1 .. 2 /\ dims[1] \in Nat \ {0} /\ dims[2] \in Nat
      /\ sub[1] \in Nat \ {0} /\ sub[2] \in Nat \ {0}
  <2>1. DOMAIN dims = 1 .. 2 /\ \A d \in 1 .. 2 : dims[d] \in Nat
    BY LenProperties
  <2>2. sub[1] \in Nat \ {0} /\ sub[2] \in Nat \ {0} /\ dims[1] \in Nat /\ dims[2] \in Nat
    BY <2>1 DEF IsSub
  <2> QED BY <2>1, <2>2
<1>2. PICK a \in Nat, b \in Nat : a = sub[1] - 1 /\ b = sub[2] - 1 /\ a < dims[1]
  <2>1. sub[1] - 1 \in Nat /\ sub[2] - 1 \in Nat /\ sub[1] - 1 < dims[1]
    BY <1>1
  <2> QED BY <2>1, Zenon
<1>3. Offset(dims, sub) = a + b * dims[1]
  BY <1>1, <1>2, ShortOffsets
<1>4. Offset(dims, sub) \div dims[1] = b
  BY <1>1, <1>2, <1>3, Quotient
<1>5. PICK s, u : s = <<dims[1], dims[2]>> /\ u = <<sub[1], (Offset(dims, sub) \div dims[1]) + 1>>
  OBVIOUS
<1>6. s \in Seq(Nat) /\ Len(s) = 2 /\ s[1] = dims[1] /\ u[1] = sub[1] /\ u[2] = sub[2]
      /\ DOMAIN u = 1 .. 2 /\ DOMAIN s = 1 .. 2
  BY <1>1, <1>2, <1>4, <1>5
<1>7. Offset(s, u) = u[1] - 1 + (u[2] - 1) * s[1]
  <2>1. IsSub(u, s)
    BY <1>1, <1>6 DEF IsSub
  <2> QED BY <1>6, <2>1, ShortOffsets
<1> QED BY <1>1, <1>2, <1>3, <1>5, <1>6, <1>7

-----------------------------------------------------------------------------
(* The objects that the to methods lay over an array. *)

ElementClasses == NumericClasses \cup {"logical"}

\* What passed the checks of a getter.
Passed(kind, class, m) ==
  IsArray(m) /\ kind \in Kinds /\ class \in ElementClasses /\ Checked(kind, class, m)

LEMMA ArrayFacts ==
  ASSUME NEW m, IsArray(m)
  PROVE  /\ m.dims \in Seq(Nat) /\ Len(m.dims) \in Nat /\ Len(m.dims) >= 2 /\ Ndim(m) = Len(m.dims)
         /\ m.dims[1] \in Nat /\ m.dims[2] \in Nat
         /\ GetM(m) = m.dims[1] /\ GetN(m) \in Nat /\ Numel(m) = GetM(m) * GetN(m) /\ Numel(m) \in Nat
         /\ Numel(m) = Extent(m.dims, 1, Len(m.dims))
         /\ Ndim(m) = 2 => GetN(m) = m.dims[2]
         /\ m.data \in Seq({m.data[n] : n \in DOMAIN m.data}) /\ Len(m.data) \in Nat
         /\ m.class # "struct" => Len(m.data) <= Numel(m)
         /\ m.class # "struct" /\ ~Sparse(m) => Len(m.data) = Numel(m)
         /\ m.data # <<>> => Len(m.data) >= 1
<1>1. m.dims \in Seq(Nat) /\ Len(m.dims) \in Nat /\ Len(m.dims) >= 2 /\ Ndim(m) = Len(m.dims)
  BY DEF IsArray, Ndim
<1>2. m.dims[1] \in Nat /\ m.dims[2] \in Nat
  BY <1>1
<1>3. Len(m.dims) \in 1 .. Len(m.dims) /\ Len(m.dims) \in 2 - 1 .. Len(m.dims) /\ Len(m.dims) \in 1 - 1 .. Len(m.dims)
  BY <1>1
<1>4. GetM(m) = m.dims[1] /\ GetN(m) \in Nat /\ Numel(m) \in Nat
  <2>1. PICK dims \in Seq(Nat) : dims = m.dims
    BY <1>1
  <2>2. /\ \A b \in 2 - 1 .. Len(dims) : Extent(dims, 2, b) \in Nat
        /\ \A b \in 1 - 1 .. Len(dims) : Extent(dims, 1, b) \in Nat
    BY Extents, SMTT(20)
  <2> QED BY <1>1, <1>3, <2>1, <2>2 DEF GetM, GetN, Numel
<1>5. Numel(m) = GetM(m) * GetN(m)
  <2>1. 1 <= Len(m.dims)
    BY <1>1
  <2>2. \A b \in 1 .. Len(m.dims) : Extent(m.dims, 1, b) = m.dims[1] * Extent(m.dims, 2, b)
    BY <1>1, <2>1, ExtentSplits
  <2> QED BY <1>3, <2>2 DEF Numel, GetM, GetN
<1>6. Ndim(m) = 2 => GetN(m) = m.dims[2]
  BY <1>1, ShortExtents DEF GetN, Ndim
<1>7. m.data \in Seq({m.data[n] : n \in DOMAIN m.data}) /\ Len(m.data) \in Nat
  BY DEF IsArray
<1>8. /\ m.class # "struct" => Len(m.data) <= Numel(m)
      /\ m.class # "struct" /\ ~Sparse(m) => Len(m.data) = Numel(m)
  BY DEF IsArray
<1>9. m.data # <<>> => Len(m.data) >= 1
  BY <1>7
<1> QED BY <1>1, <1>2, <1>4, <1>5, <1>6, <1>7, <1>8, <1>9 DEF Numel

LEMMA PassedClass ==
  ASSUME NEW kind, NEW class, NEW m, Passed(kind, class, m)
  PROVE  /\ m.class # "struct" /\ Len(m.data) <= Numel(m)
         /\ ~Sparse(m) => Len(m.data) = Numel(m)
         /\ kind \notin {"string", "as", "asBool"} => m.class = class
<1>1. m.class \in NumericClasses \cup {"logical", "char"}
      /\ (kind \notin {"string", "as", "asBool"} => m.class = class)
  BY DEF Passed, Kinds, Checked, checkClass, ElementClasses
<1>2. m.class # "struct"
  BY <1>1 DEF NumericClasses, IntegerClasses
<1> QED BY <1>1, <1>2, ArrayFacts DEF Passed

\* The dimensions that an object of each kind is given, and how many elements they span.
Size(kind, m) ==
  CASE kind \in {"scalar", "as", "asBool"} -> <<1>>
    [] kind = "vec"                        -> <<Numel(m)>>
    [] kind = "mat"                        -> <<GetM(m), GetN(m)>>
    [] kind = "cube"      -> IF Ndim(m) = 2 THEN <<GetM(m), GetN(m), 1>> ELSE m.dims
    [] kind = "hypercube" -> CASE Ndim(m) = 2 -> <<GetM(m), GetN(m), 1, 1>>
                               [] Ndim(m) = 3 -> Append(m.dims, 1)
                               [] OTHER       -> m.dims

IsSize(s, kind, m) ==
  /\ s = Size(kind, m) /\ s \in Seq(Nat) /\ Len(s) \in 1 .. 4
  /\ kind = "hypercube" <=> Len(s) = 4
  /\ kind \in {"vec", "mat", "cube", "hypercube"} => Extent(s, 1, Len(s)) = Numel(m)
  /\ kind \in {"scalar", "as", "asBool"} => Extent(s, 1, Len(s)) = 1
  /\ kind # "hypercube" => To(kind, m) = View(s, 0, m.data)
  /\ kind = "hypercube" => To(kind, m) = Hypercube(s, m.data)

LEMMA FewDimensions ==
  ASSUME NEW kind \in {"cube", "hypercube"}, NEW class, NEW m, Passed(kind, class, m)
  PROVE  /\ kind = "cube" => Ndim(m) \in 2 .. 3
         /\ kind = "hypercube" => Ndim(m) \in 2 .. 4
<1>1. Ndim(m) \in Nat /\ Ndim(m) >= 2
  BY ArrayFacts DEF Passed
<1>2. (kind = "cube" => Ndim(m) <= 3) /\ (kind = "hypercube" => Ndim(m) <= 4)
  BY DEF Passed, Checked, checkShape, checkMaxNdim
<1> QED BY <1>1, <1>2

LEMMA SizeIs ==
  ASSUME NEW kind, NEW m, NEW s \in Seq(Nat), NEW n \in 1 .. 4, Len(s) = n, s = Size(kind, m),
         kind = "hypercube" <=> n = 4,
         kind \in {"vec", "mat", "cube", "hypercube"} => Extent(s, 1, n) = Numel(m),
         kind \in {"scalar", "as", "asBool"} => Extent(s, 1, n) = 1,
         kind # "hypercube" => To(kind, m) = View(s, 0, m.data),
         kind = "hypercube" => To(kind, m) = Hypercube(s, m.data)
  PROVE  IsSize(Size(kind, m), kind, m)
<1>1. IsSize(s, kind, m)
  BY DEF IsSize
<1> QED BY <1>1

LEMMA ShortSize ==
  ASSUME NEW kind \in {"scalar", "as", "asBool", "vec"}, NEW class, NEW m, Passed(kind, class, m)
  PROVE  IsSize(Size(kind, m), kind, m)
<1>1. Numel(m) \in Nat
  BY ArrayFacts DEF Passed
<1>2. PICK n \in Nat : /\ Size(kind, m) = <<n>>
                       /\ kind = "vec" => n = Numel(m)
                       /\ kind # "vec" => n = 1
  BY <1>1 DEF Size
<1>3. PICK s : s = <<n>>
  OBVIOUS
<1>4. s \in Seq(Nat) /\ Len(s) = 1 /\ Len(s) >= 1 /\ s[1] = n
  BY <1>3
<1>5. Extent(s, 1, 1) = n
  BY <1>4, ShortExtents
<1>6. To(kind, m) = View(s, 0, m.data)
  BY <1>2, <1>3 DEF To, toScalar, toVec
<1>7. /\ 1 \in 1 .. 4 /\ ~(1 = 4) /\ kind # "hypercube" /\ s = Size(kind, m)
      /\ kind \in {"vec", "mat", "cube", "hypercube"} => Extent(s, 1, 1) = Numel(m)
      /\ kind \in {"scalar", "as", "asBool"} => Extent(s, 1, 1) = 1
  BY <1>2, <1>3, <1>5
<1> QED BY <1>4, <1>6, <1>7, SizeIs

LEMMA MatSize ==
  ASSUME NEW class, NEW m, Passed("mat", class, m)
  PROVE  IsSize(Size("mat", m), "mat", m)
<1>1. GetM(m) \in Nat /\ GetN(m) \in Nat /\ Numel(m) = GetM(m) * GetN(m)
  BY ArrayFacts DEF Passed
<1>2. PICK s : s = <<GetM(m), GetN(m)>>
  OBVIOUS
<1>3. s \in Seq(Nat) /\ Len(s) = 2 /\ Len(s) >= 2 /\ s[1] = GetM(m) /\ s[2] = GetN(m)
  BY <1>1, <1>2
<1>4. Extent(s, 1, 2) = Numel(m)
  BY <1>1, <1>3, ShortExtents
<1>5. Size("mat", m) = s /\ To("mat", m) = View(s, 0, m.data)
  BY <1>2 DEF Size, To, toMat
<1> QED BY <1>3, <1>4, <1>5, SizeIs

LEMMA CubeSize ==
  ASSUME NEW class, NEW m, Passed("cube", class, m)
  PROVE  IsSize(Size("cube", m), "cube", m)
<1>1. /\ m.dims \in Seq(Nat) /\ Ndim(m) = Len(m.dims)
      /\ GetM(m) \in Nat /\ GetN(m) \in Nat /\ Numel(m) = GetM(m) * GetN(m) /\ Numel(m) \in Nat
      /\ Numel(m) = Extent(m.dims, 1, Len(m.dims))
  BY ArrayFacts DEF Passed
<1>2. Ndim(m) \in 2 .. 3
  BY FewDimensions
<1>3. CASE Ndim(m) = 2
  <2>1. PICK s : s = <<GetM(m), GetN(m), 1>>
    OBVIOUS
  <2>2. s \in Seq(Nat) /\ Len(s) = 3 /\ Len(s) >= 3 /\ s[1] = GetM(m) /\ s[2] = GetN(m) /\ s[3] = 1
    BY <1>1, <2>1
  <2>3. Extent(s, 1, 3) = (GetM(m) * GetN(m)) * 1
    BY <2>2, ShortExtents
  <2>4. Extent(s, 1, 3) = Numel(m)
    BY <1>1, <2>3
  <2>5. Size("cube", m) = s /\ To("cube", m) = View(s, 0, m.data)
    BY <1>3, <2>1 DEF Size, To, toCube
  <2> QED BY <2>2, <2>4, <2>5, SizeIs
<1>4. CASE Ndim(m) = 3
  <2>1. SubSeq(m.dims, 1, 3) = m.dims
    BY <1>1, <1>4, SubSeqFull
  <2>2. Size("cube", m) = m.dims /\ To("cube", m) = View(m.dims, 0, m.data)
    <3>1. Ndim(m) # 2
      BY <1>4
    <3>2. Size("cube", m) = m.dims
      BY <3>1 DEF Size
    <3>3. To("cube", m) = View(SubSeq(m.dims, 1, 3), 0, m.data)
      BY <3>1 DEF To, toCube
    <3> QED BY <2>1, <3>2, <3>3
  <2>3. Extent(m.dims, 1, 3) = Numel(m) /\ Len(m.dims) = 3
    BY <1>1, <1>4
  <2> QED BY <1>1, <2>2, <2>3, SizeIs
<1> QED BY <1>2, <1>3, <1>4

LEMMA HypercubeSize ==
  ASSUME NEW class, NEW m, Passed("hypercube", class, m)
  PROVE  IsSize(Size("hypercube", m), "hypercube", m)
<1>1. /\ m.dims \in Seq(Nat) /\ Ndim(m) = Len(m.dims)
      /\ GetM(m) \in Nat /\ GetN(m) \in Nat /\ Numel(m) = GetM(m) * GetN(m) /\ Numel(m) \in Nat
      /\ Numel(m) = Extent(m.dims, 1, Len(m.dims))
  BY ArrayFacts DEF Passed
<1>2. Ndim(m) \in 2 .. 4
  BY FewDimensions
<1>3. CASE Ndim(m) = 2
  <2>1. PICK s : s = <<GetM(m), GetN(m), 1, 1>>
    OBVIOUS
  <2>2. s \in Seq(Nat) /\ Len(s) = 4 /\ Len(s) >= 4 /\ Len(s) >= 3
        /\ s[1] = GetM(m) /\ s[2] = GetN(m) /\ s[3] = 1 /\ s[4] = 1
    BY <1>1, <2>1
  <2>3. Extent(s, 1, 3) = (GetM(m) * GetN(m)) * 1 /\ Extent(s, 1, 4) = 1 * Extent(s, 1, 3)
    BY <2>2, ShortExtents
  <2>4. Extent(s, 1, 4) = Numel(m)
    BY <1>1, <2>3
  <2>5. Size("hypercube", m) = s /\ To("hypercube", m) = Hypercube(s, m.data)
    BY <1>3, <2>1 DEF Size, To, toHypercube
  <2> QED BY <2>2, <2>4, <2>5, SizeIs
<1>4. CASE Ndim(m) = 3
  <2>1. PICK s : s = Append(m.dims, 1)
    OBVIOUS
  <2>2. s \in Seq(Nat) /\ Len(s) = 4 /\ Len(s) >= 4 /\ s[4] = 1 /\ \A d \in 1 .. 3 : m.dims[d] = s[d]
    <3>1. 1 \in Nat /\ Len(m.dims) = 3
      BY <1>1, <1>4
    <3>2. /\ Append(m.dims, 1) \in Seq(Nat) /\ Len(Append(m.dims, 1)) = Len(m.dims) + 1
          /\ \A d \in 1 .. Len(m.dims) : Append(m.dims, 1)[d] = m.dims[d]
          /\ Append(m.dims, 1)[Len(m.dims) + 1] = 1
      <4>1. m.dims \in Seq(Nat)
        BY <1>1
      <4>2. \A t \in Seq(Nat) : /\ Append(t, 1) \in Seq(Nat) /\ Len(Append(t, 1)) = Len(t) + 1
                                /\ \A d \in 1 .. Len(t) : Append(t, 1)[d] = t[d]
                                /\ Append(t, 1)[Len(t) + 1] = 1
        OBVIOUS
      <4> QED BY <4>1, <4>2
    <3> QED BY <2>1, <3>1, <3>2
  <2>3. Extent(s, 1, 4) = 1 * Extent(s, 1, 3)
    BY <2>2, ShortExtents
  <2>4. 3 \in Nat /\ 3 <= Len(m.dims) /\ 3 <= Len(s) /\ 3 \in 0 .. 3
    BY <1>1, <1>4, <2>2
  <2>5. Numel(m) = Extent(s, 1, 3)
    <3>1. m.dims \in Seq(Nat) /\ s \in Seq(Nat) /\ \A d \in 1 .. 3 : m.dims[d] = s[d]
      BY <1>1, <2>2
    <3>2. \A b \in 0 .. 3 : Extent(m.dims, 1, b) = Extent(s, 1, b)
      BY <2>4, <3>1, ExtentOfPrefix
    <3>3. Numel(m) = Extent(m.dims, 1, 3)
      BY <1>1, <1>4
    <3> QED BY <2>4, <3>2, <3>3
  <2>6. Extent(s, 1, 4) = Numel(m)
    BY <1>1, <2>3, <2>5
  <2>7. Size("hypercube", m) = s /\ To("hypercube", m) = Hypercube(s, m.data)
    BY <1>4, <2>1 DEF Size, To, toHypercube
  <2> QED BY <2>2, <2>6, <2>7, SizeIs
<1>5. CASE Ndim(m) = 4
  <2>1. SubSeq(m.dims, 1, 4) = m.dims
    BY <1>1, <1>5, SubSeqFull
  <2>2. Size("hypercube", m) = m.dims /\ To("hypercube", m) = Hypercube(m.dims, m.data)
    <3>1. Ndim(m) # 2 /\ Ndim(m) # 3
      BY <1>5
    <3>2. Size("hypercube", m) = m.dims
      BY <3>1 DEF Size
    <3>3. To("hypercube", m) = Hypercube(SubSeq(m.dims, 1, 4), m.data)
      BY <3>1 DEF To, toHypercube
    <3> QED BY <2>1, <3>2, <3>3
  <2>3. Extent(m.dims, 1, 4) = Numel(m) /\ Len(m.dims) = 4
    BY <1>1, <1>5
  <2> QED BY <1>1, <2>2, <2>3, SizeIs
<1> QED BY <1>2, <1>3, <1>4, <1>5

LEMMA Sizes ==
  ASSUME NEW kind, NEW class, NEW m, Passed(kind, class, m), kind # "string"
  PROVE  IsSize(Size(kind, m), kind, m)
<1>1. kind \in {"scalar", "as", "asBool", "vec"} \/ kind = "mat" \/ kind = "cube" \/ kind = "hypercube"
  BY DEF Passed, Kinds
<1> QED BY <1>1, ShortSize, MatSize, CubeSize, HypercubeSize

\* A string ends no later than its array does.
LEMMA StringEnds ==
  ASSUME NEW m, IsArray(m), Len(m.data) <= Numel(m)
  PROVE  \E n \in Nat : toString(m) = View(<<n>>, 0, m.data) /\ n <= Numel(m)
<1> DEFINE ends == {k \in DOMAIN m.data : m.data[k] = 0}
           first == CHOOSE k \in ends : \A j \in ends : k <= j
           n == IF ends = {} THEN Numel(m) ELSE first - 1
<1>1. Numel(m) \in Nat /\ Len(m.data) \in Nat /\ DOMAIN m.data = 1 .. Len(m.data)
  <2>1. Numel(m) \in Nat /\ Len(m.data) \in Nat
    BY ArrayFacts
  <2>2. m.data \in Seq({m.data[i] : i \in DOMAIN m.data})
    BY DEF IsArray
  <2> QED BY <2>1, <2>2, LenProperties
<1>2. toString(m) = View(<<n>>, 0, m.data)
  BY DEF toString
<1>3. CASE ends = {}
  BY <1>1, <1>2, <1>3
<1>4. CASE ends # {}
  <2>1. ends \subseteq Nat
    BY <1>1
  <2>2. \E k \in ends : \A j \in ends : k <= j
    BY <1>4, <2>1, Least
  <2>3. first \in ends
    BY <2>2
  <2>4. first \in 1 .. Len(m.data)
    BY <1>1, <2>3
  <2> HIDE DEF ends, first
  <2>5. n = first - 1
    BY <1>4
  <2>6. n \in Nat /\ n <= Numel(m)
    BY <1>1, <2>4, <2>5
  <2> QED BY <1>2, <2>6
<1> QED BY <1>3, <1>4

\* Of memory that is as long as the array the object covers no more.
LEMMA DenseIsBacked ==
  ASSUME NEW kind, NEW class, NEW m, Passed(kind, class, m), ~Sparse(m), m.data # <<>>
  PROVE  Backed(To(kind, m))
<1>1. /\ IsArray(m) /\ Numel(m) \in Nat /\ Len(m.data) = Numel(m) /\ Len(m.data) >= 1
  BY ArrayFacts, PassedClass DEF Passed
<1>2. CASE kind = "string"
  <2>1. PICK n \in Nat : toString(m) = View(<<n>>, 0, m.data) /\ n <= Numel(m)
    <3>1. Len(m.data) <= Numel(m)
      BY <1>1
    <3> QED BY <1>1, <3>1, StringEnds
  <2>2. PICK s : s = <<n>>
    OBVIOUS
  <2>3. s \in Seq(Nat) /\ Len(s) = 1 /\ Len(s) >= 1 /\ s[1] = n
    BY <2>2
  <2>4. Extent(s, 1, 1) = n
    BY <2>3, ShortExtents
  <2>5. To(kind, m) = View(s, 0, m.data)
    BY <1>2, <2>1, <2>2 DEF To
  <2>6. View(s, 0, m.data).size = s /\ View(s, 0, m.data).start = 0 /\ View(s, 0, m.data).mem = m.data
    BY DEF View
  <2>7. Len(s) # 4 /\ 0 + Extent(s, 1, Len(s)) <= Len(m.data)
    BY <1>1, <2>1, <2>3, <2>4
  <2> QED BY <2>5, <2>6, <2>7 DEF Backed
<1>3. CASE kind # "string"
  <2>1. PICK s : s = Size(kind, m)
    OBVIOUS
  <2>2. IsSize(s, kind, m)
    BY <1>3, <2>1, Sizes
  <2>3. CASE kind = "hypercube"
    <3>1. /\ To(kind, m) = Hypercube(s, m.data) /\ s \in Seq(Nat) /\ Len(s) = 4
          /\ Extent(s, 1, 4) = Numel(m)
      BY <2>2, <2>3 DEF IsSize
    <3>2. s[4] \in Nat /\ Len(s) >= 4 /\ 3 \in 1 - 1 .. Len(s)
      <4>1. s \in Seq(Nat) /\ Len(s) = 4
        BY <3>1
      <4> QED BY <4>1, FourOf
    <3>3. Extent(s, 1, 3) \in Nat
      <4>1. s \in Seq(Nat)
        BY <3>1
      <4>2. 3 \in 0 .. Len(s)
        BY <3>2
      <4> QED BY <4>1, <4>2, ExtentIsNat
    <3>4. Numel(m) = s[4] * Extent(s, 1, 3)
      BY <3>1, <3>2, ShortExtents
    <3>5. ASSUME NEW n \in 1 .. s[4]
          PROVE  Extent(s, 1, 3) + (n - 1) * Extent(s, 1, 3) <= Len(m.data)
      <4>1. \A x \in Nat : x + (n - 1) * x = n * x /\ n * x <= s[4] * x
        BY <3>2
      <4> QED BY <1>1, <3>3, <3>4, <4>1
    <3>6. /\ Hypercube(s, m.data).size = s
          /\ Hypercube(s, m.data).cubes =
               [n \in 1 .. s[4] |-> View(SubSeq(s, 1, 3), (n - 1) * Extent(s, 1, 3), m.data)]
      BY DEF Hypercube
    <3> QED BY <3>1, <3>5, <3>6 DEF Backed, View
  <2>4. CASE kind # "hypercube"
    <3>1. /\ To(kind, m) = View(s, 0, m.data)
          /\ Extent(s, 1, Len(s)) = Numel(m) \/ Extent(s, 1, Len(s)) = 1
          /\ Len(s) # 4
      <4>1. kind \in {"vec", "mat", "cube"} \/ kind \in {"scalar", "as", "asBool"}
        BY <1>3, <2>4 DEF Passed, Kinds
      <4> QED BY <2>2, <2>4, <4>1 DEF IsSize
    <3>2. 0 + Extent(s, 1, Len(s)) <= Len(m.data)
      BY <1>1, <3>1
    <3> QED BY <3>1, <3>2 DEF Backed, View
  <2> QED BY <2>3, <2>4
<1> QED BY <1>2, <1>3

\* A cube and a hypercube have the dimensions of the array, and ones after them.
LEMMA PaddedSize ==
  ASSUME NEW kind \in {"cube", "hypercube"}, NEW class, NEW m, Passed(kind, class, m)
  PROVE  LET s == Size(kind, m)
             r == IF kind = "cube" THEN 3 ELSE 4
         IN  /\ Len(s) = r /\ Len(m.dims) \in 2 .. r
             /\ \A d \in 1 .. Len(m.dims) : s[d] = m.dims[d]
             /\ \A d \in Len(m.dims) + 1 .. r : s[d] = 1
<1>1. /\ m.dims \in Seq(Nat) /\ Ndim(m) = Len(m.dims) /\ GetM(m) = m.dims[1]
      /\ (Ndim(m) = 2 => GetN(m) = m.dims[2])
  BY ArrayFacts DEF Passed
<1>2. Len(m.dims) \in 2 .. 4 /\ (kind = "cube" => Len(m.dims) \in 2 .. 3)
  <2>1. \A n \in 2 .. 3 : n \in 2 .. 4
    OBVIOUS
  <2> QED BY <1>1, <2>1, FewDimensions
<1>3. CASE Len(m.dims) = 2
  <2>1. Size(kind, m) = IF kind = "cube" THEN <<m.dims[1], m.dims[2], 1>> ELSE <<m.dims[1], m.dims[2], 1, 1>>
    BY <1>1, <1>3 DEF Size
  <2>2. /\ \A d \in 1 .. 2 : d = 1 \/ d = 2
        /\ \A d \in 2 + 1 .. 3 : d = 3
        /\ \A d \in 2 + 1 .. 4 : d = 3 \/ d = 4
    OBVIOUS
  <2>3. CASE kind = "cube"
    <3>1. PICK s : s = <<m.dims[1], m.dims[2], 1>>
      OBVIOUS
    <3>2. Len(s) = 3 /\ s[1] = m.dims[1] /\ s[2] = m.dims[2] /\ s[3] = 1 /\ s = Size(kind, m)
      BY <2>1, <2>3, <3>1
    <3> QED BY <1>3, <2>2, <2>3, <3>2
  <2>4. CASE kind = "hypercube"
    <3>1. PICK s : s = <<m.dims[1], m.dims[2], 1, 1>>
      OBVIOUS
    <3>2. Len(s) = 4 /\ s[1] = m.dims[1] /\ s[2] = m.dims[2] /\ s[3] = 1 /\ s[4] = 1 /\ s = Size(kind, m)
      BY <2>1, <2>4, <3>1
    <3> QED BY <1>3, <2>2, <2>4, <3>2
  <2> QED BY <2>3, <2>4
<1>4. CASE Len(m.dims) = 3 /\ kind = "cube"
  <2>1. Ndim(m) # 2
    BY <1>1, <1>4
  <2>2. Size(kind, m) = m.dims
    BY <1>4, <2>1 DEF Size
  <2> QED BY <1>4, <2>2
<1>5. CASE Len(m.dims) = 3 /\ kind = "hypercube"
  <2>1. Size(kind, m) = Append(m.dims, 1)
    BY <1>1, <1>5 DEF Size
  <2>2. \A t \in Seq(Nat) : /\ Len(Append(t, 1)) = Len(t) + 1
                            /\ \A d \in 1 .. Len(t) : Append(t, 1)[d] = t[d]
                            /\ Append(t, 1)[Len(t) + 1] = 1
    OBVIOUS
  <2>3. \A d \in 3 + 1 .. 4 : d = 4
    OBVIOUS
  <2>4. PICK s : s = Append(m.dims, 1)
    OBVIOUS
  <2>5. Len(s) = 4 /\ (\A d \in 1 .. 3 : s[d] = m.dims[d]) /\ s[4] = 1
    <3>1. m.dims \in Seq(Nat)
      BY <1>1
    <3>2. /\ Len(s) = Len(m.dims) + 1
          /\ \A d \in 1 .. Len(m.dims) : s[d] = m.dims[d]
          /\ s[Len(m.dims) + 1] = 1
      BY <2>2, <2>4, <3>1
    <3>3. Len(m.dims) + 1 = 4 /\ 1 .. Len(m.dims) = 1 .. 3
      BY <1>5
    <3> QED BY <3>2, <3>3
  <2>6. Size(kind, m) = s /\ Len(m.dims) = 3 /\ kind = "hypercube"
    BY <1>5, <2>1, <2>4
  <2>7. \A d \in Len(m.dims) + 1 .. 4 : s[d] = 1
    BY <2>3, <2>5, <2>6
  <2>8. \A d \in 1 .. Len(m.dims) : s[d] = m.dims[d]
    BY <2>5, <2>6
  <2>9. Len(m.dims) \in 2 .. 4
    BY <2>6
  <2> QED BY <2>5, <2>6, <2>7, <2>8, <2>9
<1>6. CASE Len(m.dims) = 4
  <2>1. kind = "hypercube" /\ Ndim(m) # 2 /\ Ndim(m) # 3
    BY <1>1, <1>2, <1>6
  <2>2. Size(kind, m) = m.dims
    BY <2>1 DEF Size
  <2> QED BY <1>6, <2>1, <2>2
<1> QED BY <1>2, <1>3, <1>4, <1>5, <1>6

-----------------------------------------------------------------------------
(* What a getter returns is what its argument is. *)

LEMMA ScalarNumel ==
  ASSUME NEW class, NEW m, Passed("scalar", class, m), ~Sparse(m), Backed(To("scalar", m))
  PROVE  Numel(m) = 1
<1>1. GetM(m) \in Nat /\ GetN(m) \in Nat /\ Numel(m) = GetM(m) * GetN(m) /\ Len(m.data) = Numel(m)
  <2>1. IsArray(m) /\ Len(m.data) = Numel(m)
    BY PassedClass, Zenon DEF Passed
  <2> QED BY <2>1, ArrayFacts
<1>2. GetM(m) <= 1 /\ GetN(m) <= 1
  BY DEF Passed, Checked, checkShape, checkScalarSize
<1>3. 1 <= Len(m.data)
  <2>1. PICK s : s = Size("scalar", m)
    OBVIOUS
  <2>2. IsSize(s, "scalar", m)
    BY <2>1, Sizes
  <2>3. To("scalar", m) = View(s, 0, m.data) /\ Extent(s, 1, Len(s)) = 1 /\ Len(s) # 4
    BY <2>2 DEF IsSize
  <2>4. View(s, 0, m.data).size = s /\ View(s, 0, m.data).start = 0 /\ View(s, 0, m.data).mem = m.data
    BY DEF View
  <2>5. 0 + 1 <= Len(m.data)
    BY <2>3, <2>4 DEF Backed
  <2> QED BY <2>5
<1>4. \A x, y \in Nat : x <= 1 /\ y <= 1 /\ 1 <= x * y => x * y = 1
  <2>1. \A x \in Nat : x <= 1 => x = 0 \/ x = 1
    OBVIOUS
  <2> QED BY <2>1
<1> QED BY <1>1, <1>2, <1>3, <1>4

LEMMA GetOfColumn ==
  ASSUME NEW m, NEW sub, IsArray(m), IsSub(sub, m.dims), NEW n \in Nat
  PROVE  Get(View(<<n>>, 0, m.data), Ranked(m, sub, 1)) = m.data[Offset(m.dims, sub) + 1]
<1>1. PICK o \in Nat : o = Offset(m.dims, sub)
  BY OffsetIsNat DEF IsArray
<1>2. PICK v : v = View(<<n>>, 0, m.data)
  OBVIOUS
<1>3. v.size = <<n>> /\ v.start = 0 /\ v.mem = m.data
  BY <1>2 DEF View
<1>4. Ranked(m, sub, 1) = <<o + 1>>
  BY <1>1 DEF Ranked
<1>5. Len(v.size) # 4
  BY <1>3
<1>6. Get(v, <<o + 1>>) = v.mem[0 + Offset(<<n>>, <<o + 1>>) + 1]
  BY <1>3, <1>5 DEF Get, At
<1>7. Get(v, <<o + 1>>) = m.data[0 + o + 1]
  BY <1>3, <1>6, ColumnOffset
<1> QED BY <1>1, <1>2, <1>4, <1>7

LEMMA GetOfMat ==
  ASSUME NEW m, NEW sub, IsArray(m), Ndim(m) = 2, IsSub(sub, m.dims), sub[1] <= m.dims[1]
  PROVE  Get(View(<<GetM(m), GetN(m)>>, 0, m.data), Ranked(m, sub, 2)) = m.data[Offset(m.dims, sub) + 1]
<1>1. PICK o \in Nat : o = Offset(m.dims, sub)
  BY OffsetIsNat DEF IsArray
<1>2. m.dims \in Seq(Nat) /\ Len(m.dims) = 2 /\ GetM(m) = m.dims[1] /\ GetN(m) = m.dims[2]
  BY ArrayFacts
<1>3. PICK s, u : s = <<GetM(m), GetN(m)>> /\ u = Ranked(m, sub, 2)
  OBVIOUS
<1>4. Offset(s, u) = o
  <2>1. u = <<sub[1], (Offset(m.dims, sub) \div m.dims[1]) + 1>>
    BY <1>3 DEF Ranked
  <2>2. sub[1] <= m.dims[1] /\ IsSub(sub, m.dims)
    OBVIOUS
  <2>3. Offset(<<m.dims[1], m.dims[2]>>, <<sub[1], (Offset(m.dims, sub) \div m.dims[1]) + 1>>) = Offset(m.dims, sub)
    BY <1>2, <2>2, MatrixOffset
  <2> QED BY <1>1, <1>2, <1>3, <2>1, <2>3
<1>5. PICK v : v = View(s, 0, m.data)
  OBVIOUS
<1>6. v.size = s /\ v.start = 0 /\ v.mem = m.data
  BY <1>5 DEF View
<1>7. Len(v.size) # 4
  BY <1>3, <1>6
<1>8. Get(v, u) = m.data[0 + o + 1]
  BY <1>4, <1>6, <1>7 DEF Get, At
<1> QED BY <1>1, <1>3, <1>5, <1>8

LEMMA RankedIsPadded ==
  ASSUME NEW m, IsArray(m), NEW sub \in Subscripts(m.dims), NEW r \in 3 .. 4,
         NEW s \in Seq(Nat), Len(s) = r, Len(m.dims) \in 2 .. r,
         \A d \in 1 .. Len(m.dims) : s[d] = m.dims[d]
  PROVE  LET u == Ranked(m, sub, r)
         IN  /\ u \in Seq(Nat) /\ Len(u) = r /\ IsSub(u, s) /\ IsPadded(s, u, m.dims, sub)
             /\ \A d \in 1 .. r : u[d] = IF d <= Len(m.dims) THEN sub[d] ELSE 1
<1>1. PICK n \in 2 .. r : n = Len(m.dims) /\ m.dims \in Seq(Nat)
  BY DEF IsArray
<1>2. /\ DOMAIN m.dims = 1 .. n /\ DOMAIN s = 1 .. r
  <2>1. n \in Nat /\ r \in Nat
    OBVIOUS
  <2> QED BY <1>1, <2>1, Lengths
<1>3. Len(sub) = n /\ \A d \in 1 .. n : sub[d] \in Nat \ {0}
  BY <1>1, <1>2, SubscriptsAre DEF IsSub
<1>4. PICK u : u = Ranked(m, sub, r)
  OBVIOUS
<1>5. u = [d \in 1 .. r |-> IF d <= n THEN sub[d] ELSE 1]
  <2>1. r # 1 /\ r # 2
    OBVIOUS
  <2> QED BY <1>3, <1>4, <2>1 DEF Ranked
<1>6. \A d \in 1 .. r : u[d] \in Nat \ {0}
  <2> TAKE d \in 1 .. r
  <2>1. CASE d <= n
    <3>1. d \in 1 .. n
      BY <2>1
    <3> QED BY <1>3, <1>5, <2>1, <3>1
  <2>2. CASE ~(d <= n)
    BY <1>5, <2>2
  <2> QED BY <2>1, <2>2
<1>7. u \in [1 .. r -> Nat] /\ r \in Nat
  BY <1>5, <1>6
<1>8. u \in Seq(Nat) /\ Len(u) = r
  BY <1>7
<1>9. IsSub(u, s)
  BY <1>2, <1>6, <1>7 DEF IsSub
<1>10. (\A d \in 1 .. n : u[d] = sub[d]) /\ (\A d \in n + 1 .. r : u[d] = 1)
  <2>1. \A d \in 1 .. n : d \in 1 .. r /\ d <= n
    OBVIOUS
  <2>2. \A d \in n + 1 .. r : d \in 1 .. r /\ ~(d <= n)
    OBVIOUS
  <2> QED BY <1>5, <2>1, <2>2
<1>11. IsPadded(s, u, m.dims, sub)
  BY <1>1, <1>10 DEF IsPadded
<1> QED BY <1>1, <1>4, <1>5, <1>8, <1>9, <1>11

LEMMA GetOfCube ==
  ASSUME NEW class, NEW m, Passed("cube", class, m), NEW sub \in Subscripts(m.dims)
  PROVE  Get(View(Size("cube", m), 0, m.data), Ranked(m, sub, 3)) = m.data[Offset(m.dims, sub) + 1]
<1>1. PICK s, u, v : s = Size("cube", m) /\ u = Ranked(m, sub, 3) /\ v = View(s, 0, m.data)
  OBVIOUS
<1>2. /\ IsArray(m) /\ m.dims \in Seq(Nat) /\ IsSub(sub, m.dims) /\ Offset(m.dims, sub) \in Nat
  BY SubscriptsAre, OffsetIsNat DEF Passed, IsArray
<1>3. s \in Seq(Nat) /\ Len(s) = 3 /\ Len(m.dims) \in 2 .. 3 /\ \A d \in 1 .. Len(m.dims) : s[d] = m.dims[d]
  <2>1. IsSize(s, "cube", m)
    BY <1>1, Sizes
  <2> QED BY <1>1, <2>1, PaddedSize DEF IsSize
<1>4. u \in Seq(Nat) /\ IsSub(u, s) /\ IsPadded(s, u, m.dims, sub)
  BY <1>1, <1>2, <1>3, RankedIsPadded
<1>5. PICK n \in 2 .. 4 : n = Len(m.dims)
  BY <1>3
<1>6. Offset(s, u) = Offset(m.dims, sub)
  BY <1>2, <1>3, <1>4, <1>5, PaddedOffset
<1>7. v.size = s /\ v.start = 0 /\ v.mem = m.data
  BY <1>1 DEF View
<1>8. Len(v.size) # 4
  <2>1. Len(s) # 4
    BY <1>3
  <2> QED BY <1>7, <2>1
<1>9. Get(v, u) = m.data[0 + Offset(m.dims, sub) + 1]
  BY <1>6, <1>7, <1>8 DEF Get, At
<1> QED BY <1>1, <1>2, <1>9

\* A cube of the row has the elements whose last subscript is its number.
LEMMA GetOfHypercube ==
  ASSUME NEW class, NEW m, Passed("hypercube", class, m), NEW sub \in Subscripts(m.dims)
  PROVE  Get(Hypercube(Size("hypercube", m), m.data), Ranked(m, sub, 4)) = m.data[Offset(m.dims, sub) + 1]
<1>1. PICK s, u, h : s = Size("hypercube", m) /\ u = Ranked(m, sub, 4) /\ h = Hypercube(s, m.data)
  OBVIOUS
<1>2. /\ IsArray(m) /\ m.dims \in Seq(Nat) /\ IsSub(sub, m.dims) /\ Offset(m.dims, sub) \in Nat
      /\ \A d \in DOMAIN m.dims : sub[d] <= m.dims[d]
  BY SubscriptsAre, OffsetIsNat DEF Passed, IsArray
<1>3. /\ s \in Seq(Nat) /\ Len(s) = 4 /\ Len(m.dims) \in 2 .. 4
      /\ \A d \in 1 .. Len(m.dims) : s[d] = m.dims[d]
      /\ \A d \in Len(m.dims) + 1 .. 4 : s[d] = 1
  <2>1. IsSize(s, "hypercube", m)
    BY <1>1, Sizes
  <2> QED BY <1>1, <2>1, PaddedSize DEF IsSize
<1>4. u \in Seq(Nat) /\ Len(u) = 4 /\ IsSub(u, s) /\ IsPadded(s, u, m.dims, sub)
  <2>1. 4 \in 3 .. 4
    OBVIOUS
  <2>2. s \in Seq(Nat) /\ Len(s) = 4 /\ Len(m.dims) \in 2 .. 4 /\ \A d \in 1 .. Len(m.dims) : s[d] = m.dims[d]
    BY <1>3
  <2> QED BY <1>1, <1>2, <2>1, <2>2, RankedIsPadded
<1>5. PICK n \in 2 .. 4 : n = Len(m.dims) /\ DOMAIN m.dims = 1 .. n
  BY <1>2, <1>3, LenProperties
<1>6. u[4] \in Nat \ {0} /\ s[4] \in Nat /\ u[4] <= s[4]
  <2>1. DOMAIN s = 1 .. 4 /\ s[4] \in Nat /\ u[4] \in Nat \ {0}
    <3>1. DOMAIN s = 1 .. 4 /\ 4 \in 1 .. 4
      BY <1>3, LenProperties
    <3>2. s[4] \in Nat
      BY <1>3, FourOf
    <3> QED BY <1>4, <3>1, <3>2 DEF IsSub
  <2>2. CASE n = 4
    <3>1. 4 \in 1 .. n
      BY <2>2
    <3>2. s[4] = m.dims[4] /\ u[4] = sub[4] /\ sub[4] <= m.dims[4]
      BY <1>2, <1>3, <1>4, <1>5, <3>1 DEF IsPadded
    <3> QED BY <2>1, <3>2
  <2>3. CASE n # 4
    <3>1. 4 \in n + 1 .. 4
      BY <2>3
    <3>2. s[4] = 1 /\ u[4] = 1
      BY <1>3, <1>4, <1>5, <3>1 DEF IsPadded
    <3> QED BY <2>1, <3>2
  <2> QED BY <2>2, <2>3
<1>7. PICK q, v : q = SubSeq(s, 1, 3) /\ v = SubSeq(u, 1, 3)
  OBVIOUS
<1>8. (u[4] - 1) * Extent(s, 1, 3) + Offset(q, v) = Offset(m.dims, sub)
  <2>1. 4 \in 3 .. 4 /\ s \in Seq(Nat) /\ Len(s) = 4 /\ Len(m.dims) = n
    BY <1>3, <1>5
  <2>2. (u[4] - 1) * Extent(s, 1, 3) + Offset(SubSeq(s, 1, 3), SubSeq(u, 1, 3)) = Offset(m.dims, sub)
    <3>1. m.dims \in Seq(Nat) /\ u \in Seq(Nat)
      BY <1>2, <1>3, <1>4
    <3>2. IsSub(sub, m.dims) /\ IsSub(u, s) /\ IsPadded(s, u, m.dims, sub)
      BY <1>2, <1>3, <1>4
    <3> QED BY <2>1, <3>1, <3>2, PaddedOffset, ZenonT(30)
  <2> QED BY <1>7, <2>2
<1>9. h.size = s /\ h.cubes = [k \in 1 .. s[4] |-> View(q, (k - 1) * Extent(s, 1, 3), m.data)]
  BY <1>1, <1>7 DEF Hypercube
<1>10. Len(h.cubes) = s[4] /\ u[4] \in 1 .. s[4]
  BY <1>6, <1>9
<1>11. PICK c : c = h.cubes[u[4]]
  OBVIOUS
<1>12. c.size = q /\ c.start = (u[4] - 1) * Extent(s, 1, 3) /\ c.mem = m.data
  BY <1>9, <1>10, <1>11 DEF View
<1>13. Get(h, u) = At(c, v)
  <2>1. ~(u[4] > Len(h.cubes)) /\ Len(h.size) = 4
    BY <1>3, <1>6, <1>9, <1>10
  <2> QED BY <1>7, <1>11, <2>1 DEF Get, HypercubeAt
<1>14. At(c, v) = m.data[(u[4] - 1) * Extent(s, 1, 3) + Offset(q, v) + 1]
  BY <1>12 DEF At
<1> QED BY <1>1, <1>8, <1>13, <1>14

\* Whatever shape the object has, each element is where its subscripts say.
LEMMA ShownInFull ==
  ASSUME NEW g, NEW m, Passed(g.kind, g.class, m), g.kind \notin {"string", "as", "asBool"},
         ~Sparse(m), ~Wild(g.kind, m)
  PROVE  Shows(Value(g, m), m)
<1>1. PICK s, v : s = Size(g.kind, m) /\ v = Value(g, m)
  OBVIOUS
<1>2. IsSize(s, g.kind, m) /\ IsArray(m) /\ Numel(m) \in Nat
  BY <1>1, Sizes, ArrayFacts DEF Passed
<1>3. v.view = To(g.kind, m)
  BY <1>1 DEF Value
<1>4. ASSUME NEW sub \in Subscripts(m.dims)
      PROVE  IsSub(sub, m.dims) /\ sub[1] <= m.dims[1]
  <2>1. 1 \in DOMAIN m.dims
    <3>1. m.dims \in Seq(Nat) /\ Len(m.dims) \in Nat /\ Len(m.dims) >= 2
      BY <1>2, ArrayFacts
    <3>2. DOMAIN m.dims = 1 .. Len(m.dims)
      BY <3>1, LenProperties
    <3> QED BY <3>1, <3>2
  <2>2. m.dims \in Seq(Nat)
    BY <1>2 DEF IsArray
  <2> QED BY <2>1, <2>2, SubscriptsAre
<1>5. CASE g.kind \in {"scalar", "vec"}
  <2>1. s = <<Numel(m)>> /\ To(g.kind, m) = View(s, 0, m.data)
    <3>1. g.kind = "scalar" => Numel(m) = 1
      BY ScalarNumel DEF Wild
    <3> QED BY <1>1, <1>2, <1>5, <3>1 DEF Size, IsSize
  <2>2. v.view.size = s /\ Len(s) = 1
    BY <1>3, <2>1 DEF View
  <2>3. Extent(s, 1, Len(s)) = Numel(m)
    <3>1. s \in Seq(Nat) /\ s[1] = Numel(m) /\ Len(s) >= 1
      BY <1>2, <2>1, <2>2
    <3> QED BY <2>2, <3>1, ShortExtents
  <2>4. ASSUME NEW sub \in Subscripts(m.dims)
        PROVE  Get(v.view, Ranked(m, sub, 1)) = m.data[Offset(m.dims, sub) + 1]
    BY <1>2, <1>3, <1>4, <2>1, GetOfColumn
  <2> QED BY <1>1, <2>2, <2>3, <2>4 DEF Shows
<1>6. CASE g.kind = "mat"
  <2>1. s = <<GetM(m), GetN(m)>> /\ To(g.kind, m) = View(s, 0, m.data)
    BY <1>1, <1>2, <1>6 DEF Size, IsSize
  <2>2. v.view.size = s /\ Len(s) = 2 /\ Ndim(m) = 2
    BY <1>3, <1>6, <2>1 DEF View, Passed, Checked, checkShape, checkNdim
  <2>3. Extent(s, 1, Len(s)) = Numel(m)
    BY <1>2, <1>6 DEF IsSize
  <2>4. ASSUME NEW sub \in Subscripts(m.dims)
        PROVE  Get(v.view, Ranked(m, sub, 2)) = m.data[Offset(m.dims, sub) + 1]
    BY <1>2, <1>3, <1>4, <2>1, <2>2, GetOfMat
  <2> QED BY <1>1, <2>2, <2>3, <2>4 DEF Shows
<1>7. CASE g.kind = "cube"
  <2>1. To("cube", m) = View(s, 0, m.data) /\ Extent(s, 1, Len(s)) = Numel(m) /\ Len(s) = 3
    BY <1>1, <1>2, <1>7, PaddedSize DEF IsSize
  <2>2. v.view.size = s
    BY <1>3, <1>7, <2>1 DEF View
  <2>3. ASSUME NEW sub \in Subscripts(m.dims)
        PROVE  Get(v.view, Ranked(m, sub, 3)) = m.data[Offset(m.dims, sub) + 1]
    BY <1>1, <1>3, <1>7, <2>1, GetOfCube
  <2> QED BY <1>1, <2>1, <2>2, <2>3 DEF Shows
<1>8. CASE g.kind = "hypercube"
  <2>1. To("hypercube", m) = Hypercube(s, m.data) /\ Extent(s, 1, Len(s)) = Numel(m) /\ Len(s) = 4
    BY <1>2, <1>8 DEF IsSize
  <2>2. v.view.size = s
    BY <1>3, <1>8, <2>1 DEF Hypercube
  <2>3. ASSUME NEW sub \in Subscripts(m.dims)
        PROVE  Get(v.view, Ranked(m, sub, 4)) = m.data[Offset(m.dims, sub) + 1]
    BY <1>1, <1>3, <1>8, <2>1, GetOfHypercube
  <2> QED BY <1>1, <2>1, <2>2, <2>3 DEF Shows
<1> QED BY <1>5, <1>6, <1>7, <1>8 DEF Passed, Kinds

\* A getter took m and returned v.
ReadBy(g, v, m) ==
  v = Value(g, m) /\ Passed(g.kind, g.class, m) /\ ~Wild(g.kind, m)

LEMMA TextIsRead ==
  ASSUME NEW g, NEW m, Passed(g.kind, g.class, m), g.kind = "string"
  PROVE  \E n \in Nat : /\ Value(g, m).view.size = <<n>>
                        /\ Len(Elements(Value(g, m))) = n
                        /\ DOMAIN Elements(Value(g, m)) = 1 .. n
                        /\ \A i \in 1 .. n : Elements(Value(g, m))[i] = m.data[i]
<1>1. PICK n \in Nat : toString(m) = View(<<n>>, 0, m.data) /\ n <= Numel(m)
  BY StringEnds, PassedClass DEF Passed
<1>2. PICK s : s = <<n>>
  OBVIOUS
<1>3. s \in Seq(Nat) /\ Len(s) = 1 /\ Len(s) >= 1 /\ s[1] = n
  BY <1>2
<1>4. Value(g, m).view = View(s, 0, m.data)
  BY <1>1, <1>2 DEF Value, To
<1>5. Value(g, m).view.size = s /\ Value(g, m).view.start = 0 /\ Value(g, m).view.mem = m.data
  BY <1>4 DEF View
<1>6. Extent(s, 1, Len(s)) = n
  BY <1>3, ShortExtents
<1>7. PICK e : e = Elements(Value(g, m))
  OBVIOUS
<1>8. e = SubSeq(m.data, 1, n)
  BY <1>5, <1>6, <1>7 DEF Elements
<1>9. Len(e) = n /\ DOMAIN e = 1 .. n /\ \A i \in 1 .. n : e[i] = m.data[i]
  <2>1. PICK D : D = {m.data[i] : i \in 1 .. n}
    OBVIOUS
  <2>2. /\ SubSeq(m.data, 1, n) \in Seq(D)
        /\ Len(SubSeq(m.data, 1, n)) = IF 1 <= n THEN n - 1 + 1 ELSE 0
        /\ \A i \in 1 .. n - 1 + 1 : SubSeq(m.data, 1, n)[i] = m.data[1 + i - 1]
    BY <2>1, SubSeqProperties
  <2>3. Len(e) = n
    BY <1>8, <2>2
  <2>4. DOMAIN e = 1 .. n
    BY <1>8, <2>2, <2>3, LenProperties
  <2>5. \A i \in 1 .. n : i \in 1 .. n - 1 + 1 /\ 1 + i - 1 = i
    OBVIOUS
  <2> QED BY <1>8, <2>2, <2>3, <2>4, <2>5
<1> QED BY <1>2, <1>5, <1>7, <1>9

LEMMA NumberIsRead ==
  ASSUME NEW g, NEW m, Passed(g.kind, g.class, m), g.kind \in {"as", "asBool", "scalar"}
  PROVE  Elements(Value(g, m)) = <<m.data[1]>> /\ Value(g, m).view.size = <<1>>
<1>1. PICK s : s = <<1>>
  OBVIOUS
<1>2. s \in Seq(Nat) /\ Len(s) = 1 /\ Len(s) >= 1 /\ s[1] = 1
  BY <1>1
<1>3. Value(g, m).view = View(s, 0, m.data)
  BY <1>1 DEF Value, To, toScalar
<1>4. Value(g, m).view.size = s /\ Value(g, m).view.start = 0 /\ Value(g, m).view.mem = m.data
  BY <1>3 DEF View
<1>5. Extent(s, 1, Len(s)) = 1
  BY <1>2, ShortExtents
<1>6. Elements(Value(g, m)) = SubSeq(m.data, 1, 1)
  BY <1>4, <1>5 DEF Elements
<1>7. SubSeq(m.data, 1, 1) = <<m.data[1]>>
  <2>1. PICK D : D = {m.data[1]}
    OBVIOUS
  <2>2. PICK e : e = SubSeq(m.data, 1, 1)
    OBVIOUS
  <2>3. \A i \in 1 .. 1 : m.data[i] \in D
    BY <2>1
  <2>4. e \in Seq(D) /\ Len(e) = (IF 1 <= 1 THEN 1 - 1 + 1 ELSE 0)
        /\ \A i \in 1 .. 1 - 1 + 1 : e[i] = m.data[1 + i - 1]
    BY <2>2, <2>3, SubSeqProperties
  <2>5. Len(e) = 1 /\ e[1] = m.data[1]
    BY <2>4
  <2>6. <<m.data[1]>> \in Seq(D) /\ Len(<<m.data[1]>>) = 1 /\ <<m.data[1]>>[1] = m.data[1]
    BY <2>1
  <2>7. e = <<m.data[1]>>
    <3>1. \A i \in 1 .. Len(e) : e[i] = <<m.data[1]>>[i]
      BY <2>5, <2>6
    <3> QED BY <2>4, <2>5, <2>6, <3>1, SeqEqual
  <2> QED BY <2>2, <2>7
<1> QED BY <1>1, <1>4, <1>6, <1>7

\* Each kind of value has what its definition says.
LEMMA ValueIsRead ==
  ASSUME NEW g, NEW m, NEW v, ReadBy(g, v, m)
  PROVE  IsValueOf(v, m)
<1>1. v.kind = g.kind /\ v = Value(g, m) /\ Passed(g.kind, g.class, m) /\ ~Wild(g.kind, m)
  BY DEF ReadBy, Value
<1>2. CASE g.kind = "string"
  BY <1>1, <1>2, TextIsRead DEF IsValueOf
<1>3. CASE g.kind \in {"as", "asBool"}
  BY <1>1, <1>3, NumberIsRead DEF IsValueOf
<1>4. CASE g.kind \notin {"string", "as", "asBool"}
  <2>1. ~Sparse(m) => Shows(v, m)
    BY <1>1, <1>4, ShownInFull
  <2> QED BY <1>1, <1>4, <2>1 DEF IsValueOf
<1> QED BY <1>2, <1>3, <1>4

LEMMA OutcomeMeans ==
  ASSUME NEW g \in Getters, NEW m, m # Null, IsArray(m), NEW o \in Outcomes(g, m)
  PROVE  /\ o = "ok" => ReadBy(g, Value(g, m), m)
         /\ o = "wild" => ~Dense(m)
<1>1. o \in {"ok", "wild"} => Passed(g.kind, g.class, m)
  BY GettersAssumption DEF Outcomes, Passed, ElementClasses
<1>2. o = "ok" => ~Wild(g.kind, m)
  BY DEF Outcomes
<1>3. o = "wild" => Wild(g.kind, m)
  BY DEF Outcomes
<1>4. o = "wild" => ~Dense(m)
  BY <1>1, <1>3, DenseIsBacked DEF Wild, Dense
<1> QED BY <1>1, <1>2, <1>4 DEF ReadBy

-----------------------------------------------------------------------------
(* What is output of an array that was read. *)

\* Trailing ones go, but for the first two dimensions.
LEMMA TrimmedIs ==
  ASSUME NEW s \in Seq(Nat), NEW n \in 2 .. Len(s), n = 2 \/ s[n] # 1,
         \A k \in n + 1 .. Len(s) : s[k] = 1
  PROVE  Trimmed(s) = SubSeq(s, 1, n)
<1> DEFINE Last(j) == (j = 2 \/ s[j] # 1) /\ \A k \in j + 1 .. Len(s) : s[k] = 1
<1>1. Len(s) \in Nat /\ Last(n)
  OBVIOUS
<1>2. ASSUME NEW j \in 2 .. Len(s), Last(j)
      PROVE  j = n
  <2>1. ~(j < n)
    <3>1. j < n => n \in j + 1 .. Len(s) /\ n # 2
      BY <1>1
    <3> QED BY <1>2, <3>1
  <2>2. ~(n < j)
    <3>1. n < j => j \in n + 1 .. Len(s) /\ j # 2
      BY <1>1
    <3> QED BY <1>2, <3>1
  <2> QED BY <1>1, <2>1, <2>2
<1>3. Trimmed(s) = SubSeq(s, 1, CHOOSE j \in 2 .. Len(s) : Last(j))
  BY DEF Trimmed
<1> HIDE DEF Last
<1>4. (CHOOSE j \in 2 .. Len(s) : Last(j)) = n
  BY <1>1, <1>2
<1> QED BY <1>3, <1>4

\* Dimensions that only have ones after those of an array are the array's.
LEMMA DimensionsReturn ==
  ASSUME NEW m, IsArray(m), NEW s \in Seq(Nat), Len(s) >= Len(m.dims),
         \A d \in 1 .. Len(m.dims) : s[d] = m.dims[d],
         \A d \in Len(m.dims) + 1 .. Len(s) : s[d] = 1
  PROVE  Trimmed(s) = m.dims
<1>1. PICK n : n = Len(m.dims)
  OBVIOUS
<1>2. m.dims \in Seq(Nat) /\ n \in Nat /\ n >= 2 /\ Ndim(m) = n 
  BY <1>1, ArrayFacts
<1>0. Len(s) \in Nat
  OBVIOUS
<1>3. n \in 2 .. Len(s) /\ n \in 1 .. Len(m.dims)
  BY <1>0, <1>1, <1>2
<1>4. n = 2 \/ s[n] # 1
  <2>1. n # 2 => m.dims[n] # 1
    BY <1>2 DEF IsArray
  <2> QED BY <1>3, <2>1
<1>5. Trimmed(s) = SubSeq(s, 1, n)
  BY <1>1, <1>3, <1>4, TrimmedIs
<1>6. PICK t : t = SubSeq(s, 1, n)
  OBVIOUS
<1>7. t \in Seq(Nat) /\ Len(t) = n /\ \A d \in 1 .. n : t[d] = s[d]
  <2>1. \A d \in 1 .. n : s[d] \in Nat
    <3>1. \A d \in 1 .. n : d \in 1 .. Len(s)
      BY <1>0, <1>3
    <3> QED BY <3>1, ElementOfSeq
  <2>2. /\ SubSeq(s, 1, n) \in Seq(Nat)
        /\ Len(SubSeq(s, 1, n)) = IF 1 <= n THEN n - 1 + 1 ELSE 0
        /\ \A d \in 1 .. n - 1 + 1 : SubSeq(s, 1, n)[d] = s[1 + d - 1]
    BY <1>2, <2>1, SubSeqProperties
  <2>3. \A d \in 1 .. n : d \in 1 .. n - 1 + 1 /\ 1 + d - 1 = d
    BY <1>2
  <2> QED BY <1>2, <1>6, <2>2, <2>3
<1>8. t = m.dims
  BY <1>1, <1>2, <1>7, SeqEqual
<1> QED BY <1>5, <1>6, <1>8

LEMMA PairStays ==
  ASSUME NEW a \in Nat, NEW b \in Nat
  PROVE  Trimmed(<<a, b>>) = <<a, b>>
<1>1. PICK s : s = <<a, b>>
  OBVIOUS
<1>2. s \in Seq(Nat) /\ Len(s) = 2 /\ 2 \in 2 .. Len(s) /\ (\A k \in 2 + 1 .. Len(s) : s[k] = 1)
  BY <1>1
<1>3. Trimmed(s) = SubSeq(s, 1, 2)
  BY <1>2, TrimmedIs
<1>4. SubSeq(s, 1, Len(s)) = s
  BY <1>2, SubSeqFull
<1> QED BY <1>1, <1>2, <1>3, <1>4

\* What has one element has two dimensions.
LEMMA OneElement ==
  ASSUME NEW m, IsArray(m), Numel(m) = 1
  PROVE  m.dims = <<1, 1>>
<1>1. PICK n : n = Len(m.dims)
  OBVIOUS
<1>2. /\ m.dims \in Seq(Nat) /\ n \in Nat /\ n >= 2 /\ Ndim(m) = n
      /\ m.dims[1] \in Nat /\ m.dims[2] \in Nat
      /\ GetM(m) = m.dims[1] /\ GetN(m) \in Nat /\ Numel(m) = GetM(m) * GetN(m)
      /\ Ndim(m) = 2 => GetN(m) = m.dims[2]
  BY <1>1, ArrayFacts
<1>3. \A x, y \in Nat : x * y = 1 => x = 1 /\ y = 1
  OBVIOUS
<1>4. m.dims[1] = 1
  BY <1>2, <1>3
<1>5. n = 2
  <2>1. SUFFICES ASSUME n > 2 PROVE FALSE
    BY <1>2
  <2>2. n \in 1 .. Len(m.dims) /\ n - 1 \in 1 - 1 .. Len(m.dims)
    BY <1>1, <1>2
  <2>3. /\ \A b \in 1 - 1 .. Len(m.dims) : Extent(m.dims, 1, b) \in Nat
        /\ \A b \in 1 .. Len(m.dims) : Extent(m.dims, 1, b) = m.dims[b] * Extent(m.dims, 1, b - 1)
    BY <1>2, Extents
  <2>4. Extent(m.dims, 1, n) = 1
    BY <1>1, <1>2 DEF Numel
  <2>5. m.dims[n] \in Nat
    BY <1>1, <1>2, <2>2, ElementOfSeq
  <2>6. m.dims[n] = 1
    BY <1>3, <2>2, <2>3, <2>4, <2>5
  <2>7. m.dims[n] # 1
    BY <1>2, <2>1 DEF IsArray
  <2> QED BY <2>6, <2>7
<1>6. m.dims[2] = 1
  BY <1>2, <1>3, <1>5
<1>7. PICK s : s = <<1, 1>>
  OBVIOUS
<1>8. s \in Seq(Nat) /\ Len(s) = 2 /\ \A i \in 1 .. 2 : s[i] = m.dims[i]
  BY <1>4, <1>6, <1>7
<1> QED BY <1>1, <1>2, <1>5, <1>7, <1>8, SeqEqual

\* What a getter of a number or an array returns covers all of the data.
LEMMA WholeData ==
  ASSUME NEW g, NEW m, NEW v, ReadBy(g, v, m), g.kind \in {"scalar", "vec", "mat", "cube"}
  PROVE  /\ v.kind = g.kind /\ v.class = g.class
         /\ v.view.size = Size(g.kind, m) /\ Elements(v) = m.data
         /\ g.kind = "scalar" => Numel(m) = 1
<1>1. /\ v = Value(g, m) /\ Passed(g.kind, g.class, m) /\ ~Wild(g.kind, m)
      /\ g.kind \notin {"string", "hypercube"}
  BY DEF ReadBy
<1>2. PICK s : s = Size(g.kind, m)
  OBVIOUS
<1>3. IsSize(s, g.kind, m)
  BY <1>1, <1>2, Sizes
<1>4. /\ To(g.kind, m) = View(s, 0, m.data) /\ s \in Seq(Nat) /\ Len(s) # 4
      /\ g.kind # "scalar" => Extent(s, 1, Len(s)) = Numel(m)
      /\ g.kind = "scalar" => Extent(s, 1, Len(s)) = 1
  BY <1>1, <1>3 DEF IsSize
<1>5. v.kind = g.kind /\ v.class = g.class /\ v.view = View(s, 0, m.data)
  BY <1>1, <1>4 DEF Value
<1>6. v.view.size = s /\ v.view.start = 0 /\ v.view.mem = m.data
  BY <1>5 DEF View
<1>7. Extent(s, 1, Len(s)) <= Len(m.data)
  <2>1. 0 + Extent(s, 1, Len(s)) <= Len(m.data)
    BY <1>1, <1>4 DEF Wild, Backed, View
  <2>2. Extent(s, 1, Len(s)) \in Nat
    <3>1. Numel(m) \in Nat
      BY <1>1, ArrayFacts DEF Passed
    <3> QED BY <1>1, <1>4, <3>1
  <2> QED BY <2>1, <2>2
<1>8. Len(m.data) <= Numel(m) /\ Len(m.data) \in Nat /\ Numel(m) \in Nat
  BY <1>1, PassedClass, ArrayFacts DEF Passed
<1>9. g.kind = "scalar" => Numel(m) = 1
  <2>1. SUFFICES ASSUME g.kind = "scalar" PROVE Numel(m) = 1
    OBVIOUS
  <2>2. Numel(m) = GetM(m) * GetN(m) /\ GetM(m) \in Nat /\ GetN(m) \in Nat
    BY <1>1, ArrayFacts DEF Passed
  <2>3. GetM(m) <= 1 /\ GetN(m) <= 1
    BY <1>1, <2>1 DEF Passed, Checked, checkShape, checkScalarSize
  <2>4. \A x, y \in Nat : x <= 1 /\ y <= 1 => x * y <= 1
    <3>1. \A x \in Nat : x <= 1 => x = 0 \/ x = 1
      OBVIOUS
    <3>2. \A y \in Nat : 0 * y = 0 /\ 1 * y = y
      OBVIOUS
    <3> QED BY <3>1, <3>2
  <2>5. 1 <= Numel(m)
    BY <1>4, <1>7, <1>8, <2>1
  <2>6. Numel(m) <= 1
    BY <2>2, <2>3, <2>4
  <2> QED BY <1>8, <2>5, <2>6
<1>10. Extent(s, 1, Len(s)) = Len(m.data)
  BY <1>4, <1>7, <1>8, <1>9
<1>11. Elements(v) = SubSeq(m.data, 1, Len(m.data))
  BY <1>6, <1>8, <1>10 DEF Elements
<1>12. SubSeq(m.data, 1, Len(m.data)) = m.data
  BY <1>1, ArrayFacts, SubSeqFull DEF Passed
<1> QED BY <1>2, <1>5, <1>6, <1>9, <1>11, <1>12

\* A scalar, a vec, a mat or a cube has the dimensions of the array, or is a column.
LEMMA EchoOfArray ==
  ASSUME NEW g, NEW m, NEW v, ReadBy(g, v, m), g.kind \in {"scalar", "vec", "mat", "cube"}
  PROVE  /\ OneToMXArray(v).class = m.class /\ OneToMXArray(v).data = m.data
         /\ OneToMXArray(v).dims = IF v.kind = "vec" THEN <<Numel(m), 1>> ELSE m.dims
<1>1. /\ v.kind = g.kind /\ v.class = g.class
      /\ v.view.size = Size(g.kind, m) /\ Elements(v) = m.data
      /\ g.kind = "scalar" => Numel(m) = 1
  BY WholeData
<1>2. Passed(g.kind, g.class, m) /\ IsArray(m) /\ m.class = g.class
  BY PassedClass DEF ReadBy, Passed
<1>3. Numel(m) \in Nat
  BY <1>2, ArrayFacts
<1>4. CASE g.kind \in {"scalar", "vec"}
  <2>1. PICK n \in Nat : n = Numel(m)
    BY <1>3
  <2>2. PICK s : s = <<n>>
    OBVIOUS
  <2>3. Len(s) = 1 /\ s[1] = n /\ v.view.size = s
    BY <1>1, <1>4, <2>1, <2>2 DEF Size
  <2>4. OneToMXArray(v) = Array(v.class, <<n, 1>>, Elements(v))
    BY <1>1, <1>4, <2>3 DEF OneToMXArray
  <2>5. Trimmed(<<n, 1>>) = <<n, 1>>
    BY PairStays
  <2>6. g.kind = "scalar" => m.dims = <<n, 1>>
    BY <1>1, <1>2, <2>1, OneElement
  <2> QED BY <1>1, <1>2, <1>4, <2>1, <2>4, <2>5, <2>6 DEF Array
<1>5. CASE g.kind = "mat"
  <2>1. PICK s : s = <<GetM(m), GetN(m)>>
    OBVIOUS
  <2>2. Ndim(m) = 2
    BY <1>2, <1>5 DEF Passed, Checked, checkShape, checkNdim
  <2>3. /\ m.dims \in Seq(Nat) /\ Len(m.dims) = 2 /\ GetM(m) = m.dims[1] /\ GetN(m) = m.dims[2]
        /\ m.dims[1] \in Nat /\ m.dims[2] \in Nat
    BY <1>2, <2>2, ArrayFacts
  <2>4. s \in Seq(Nat) /\ Len(s) = 2 /\ s[1] = m.dims[1] /\ s[2] = m.dims[2] /\ v.view.size = s
    BY <1>1, <1>5, <2>1, <2>3 DEF Size
  <2>5. s = m.dims
    <3>1. \A i \in 1 .. 2 : s[i] = m.dims[i]
      BY <2>4
    <3> QED BY <2>3, <2>4, <3>1, SeqEqual
  <2>6. OneToMXArray(v) = Array(v.class, s, Elements(v))
    BY <1>1, <1>5, <2>4 DEF OneToMXArray
  <2>7. Trimmed(s) = s
    BY <2>1, <2>3, PairStays
  <2> QED BY <1>1, <1>2, <1>5, <2>5, <2>6, <2>7 DEF Array
<1>6. CASE g.kind = "cube"
  <2>1. PICK s : s = Size("cube", m)
    OBVIOUS
  <2>2. /\ Len(s) = 3 /\ Len(m.dims) \in 2 .. 3
        /\ (\A d \in 1 .. Len(m.dims) : s[d] = m.dims[d])
        /\ (\A d \in Len(m.dims) + 1 .. 3 : s[d] = 1)
    BY <1>2, <1>6, <2>1, PaddedSize
  <2>3. s \in Seq(Nat)
    BY <1>2, <1>6, <2>1, CubeSize DEF IsSize
  <2>4. Trimmed(s) = m.dims
    <3>1. Len(s) >= Len(m.dims) /\ \A d \in Len(m.dims) + 1 .. Len(s) : s[d] = 1
      BY <2>2
    <3> QED BY <1>2, <2>2, <2>3, <3>1, DimensionsReturn
  <2>5. OneToMXArray(v) = Array(v.class, s, Elements(v))
    BY <1>1, <1>6, <2>1, <2>2 DEF OneToMXArray
  <2> QED BY <1>1, <1>2, <1>6, <2>4, <2>5 DEF Array
<1> QED BY <1>4, <1>5, <1>6

LEMMA EchoOfOne ==
  ASSUME NEW g, NEW m, NEW v, ReadBy(g, v, m), g.kind # "hypercube"
  PROVE  IsEchoOf(OneToMXArray(v), v, m)
<1>1. v.kind = g.kind /\ v = Value(g, m) /\ Passed(g.kind, g.class, m)
  BY DEF ReadBy, Value
<1>2. CASE g.kind = "string"
  <2>1. PICK n \in Nat : DOMAIN Elements(v) = 1 .. n /\ \A i \in 1 .. n : Elements(v)[i] = m.data[i]
    BY <1>1, <1>2, TextIsRead
  <2>2. \E d : OneToMXArray(v) = Array("char", d, Elements(v))
    BY <1>1, <1>2 DEF OneToMXArray
  <2>3. OneToMXArray(v).class = "char" /\ OneToMXArray(v).data = Elements(v)
    BY <2>2 DEF Array
  <2> QED BY <1>1, <1>2, <2>1, <2>3 DEF IsEchoOf
<1>3. CASE g.kind \in {"as", "asBool"}
  <2>1. v.view.size = <<1>>
    BY <1>1, <1>3, NumberIsRead
  <2>2. PICK s : s = <<1>>
    OBVIOUS
  <2>3. Len(s) = 1 /\ s[1] = 1 /\ v.view.size = s
    BY <2>1, <2>2
  <2>4. OneToMXArray(v).dims = Trimmed(<<1, 1>>)
    BY <1>1, <1>3, <2>3 DEF OneToMXArray, Array
  <2>5. OneToMXArray(v).dims = <<1, 1>>
    BY <2>4, PairStays
  <2> QED BY <1>1, <1>3, <2>5 DEF IsEchoOf
<1>4. CASE g.kind \in {"scalar", "vec", "mat", "cube"}
  BY <1>1, <1>4, EchoOfArray DEF IsEchoOf
<1> QED BY <1>1, <1>2, <1>3, <1>4 DEF Passed, Kinds

-----------------------------------------------------------------------------
(* The names of a dictionary in their order. *)

IsSorted(f, S) ==
  /\ f[0] = <<>>
  /\ \A n \in 1 .. Len(NameOrder) :
       f[n] = IF NameOrder[n] \in S THEN Append(f[n - 1], NameOrder[n]) ELSE f[n - 1]
  /\ Sorted(S) = f[Len(NameOrder)]

LEMMA SortedFunction ==
  ASSUME NEW S
  PROVE  \E f \in [Nat -> Seq(S)] : IsSorted(f, S)
<1> DEFINE last == Len(NameOrder)
           more(n, x) == IF n + 1 \in 1 .. last /\ NameOrder[n + 1] \in S THEN Append(x, NameOrder[n + 1]) ELSE x
           step == [n \in Nat |-> [x \in Seq(S) |-> more(n, x)]]
<1>0. last \in Nat
  BY StatsAssumption, LenProperties
<1>1. \A n \in Nat, x \in Seq(S) : more(n, x) \in Seq(S)
  OBVIOUS
<1>2. PICK f \in [Nat -> Seq(S)] : f[0] = <<>> /\ \A n \in Nat : f[n + 1] = step[n][f[n]]
  <2>1. <<>> \in Seq(S) /\ step \in [Nat -> [Seq(S) -> Seq(S)]]
    BY <1>1
  <2> HIDE DEF step
  <2>2. IsDefined(Seq(S), <<>>, step)
    BY <2>1, RecursiveFunction
  <2> QED BY <2>2 DEF IsDefined
<1>3. ASSUME NEW n \in 1 .. last
      PROVE  f[n] = IF NameOrder[n] \in S THEN Append(f[n - 1], NameOrder[n]) ELSE f[n - 1]
  <2>1. n - 1 \in Nat /\ n - 1 + 1 = n /\ f[n - 1] \in Seq(S)
    OBVIOUS
  <2>2. f[n] = step[n - 1][f[n - 1]]
    BY <1>2, <2>1
  <2>3. f[n] = more(n - 1, f[n - 1])
    BY <2>1, <2>2
  <2> QED BY <2>1, <2>3
<1>4. Sorted(S) = f[last]
  <2> DEFINE Is(p) == p = [n \in 0 .. last |->
                             IF n = 0 THEN <<>>
                             ELSE IF NameOrder[n] \in S THEN Append(p[n - 1], NameOrder[n]) ELSE p[n - 1]]
             q == [n \in 0 .. last |-> f[n]]
             p == CHOOSE p : Is(p)
  <2>1. Sorted(S) = p[last]
    BY DEF Sorted
  <2>2. Is(q)
    <3>1. ASSUME NEW n \in 0 .. last
          PROVE  q[n] = IF n = 0 THEN <<>>
                        ELSE IF NameOrder[n] \in S THEN Append(q[n - 1], NameOrder[n]) ELSE q[n - 1]
      <4>1. CASE n = 0
        BY <1>2, <4>1
      <4>2. CASE n # 0
        <5>1. n \in 1 .. last /\ n - 1 \in 0 .. last
          BY <1>0, <4>2
        <5> QED BY <1>3, <4>2, <5>1
      <4> QED BY <4>1, <4>2
    <3> QED BY <3>1
  <2>3. Is(p)
    BY <2>2
  <2> HIDE DEF p
  <2>4. p[0] = f[0]
    BY <1>0, <1>2, <2>3
  <2>5. ASSUME NEW n \in 0 + 1 .. last, p[n - 1] = f[n - 1 - 0]
        PROVE  p[n] = f[n - 0]
    <3>1. n \in 1 .. last /\ n \in 0 .. last /\ n # 0 /\ n - 0 = n /\ n - 1 - 0 = n - 1
      BY <1>0
    <3>2. p[n] = IF NameOrder[n] \in S THEN Append(p[n - 1], NameOrder[n]) ELSE p[n - 1]
      BY <2>3, <3>1
    <3>3. f[n] = IF NameOrder[n] \in S THEN Append(f[n - 1], NameOrder[n]) ELSE f[n - 1]
      BY <1>3, <3>1
    <3>4. p[n - 1] = f[n - 1]
      BY <2>5, <3>1
    <3>5. p[n] = f[n]
      BY <3>2, <3>3, <3>4
    <3> QED BY <3>1, <3>5
  <2>6. GoesOn(p, f, 0, last)
    BY <2>4, <2>5 DEF GoesOn
  <2> HIDE DEF last
  <2>7. \A n \in 0 .. last : p[n] = f[n - 0]
    BY <1>0, <2>6, Follows, SMTT(30)
  <2>8. last \in 0 .. last /\ last - 0 = last
    BY <1>0
  <2> QED BY <2>1, <2>7, <2>8
<1> QED BY <1>2, <1>3, <1>4 DEF IsSorted

\* A sequence that has each of some names once.
Lists(s, S) ==
  /\ s \in Seq(S) /\ \A x \in S : \E i \in 1 .. Len(s) : s[i] = x
  /\ \A i, j \in 1 .. Len(s) : s[i] = s[j] => i = j

LEMMA ListGrows ==
  ASSUME NEW S, NEW s, Lists(s, S), NEW x, x \notin S
  PROVE  Lists(Append(s, x), S \cup {x})
<1>1. PICK n \in Nat : n = Len(s)
  BY LenProperties DEF Lists
<1>2. s \in Seq(S \cup {x}) /\ x \in S \cup {x}
  BY DEF Lists
<1>3. PICK a : a = Append(s, x)
  OBVIOUS
<1>4. a \in Seq(S \cup {x}) /\ Len(a) = n + 1 /\ (\A i \in 1 .. n : a[i] = s[i]) /\ a[n + 1] = x
  BY <1>1, <1>2, <1>3, AppendProperties
<1>5. \A i \in 1 .. n : s[i] \in S /\ s[i] # x
  BY <1>1, ElementOfSeq DEF Lists
<1>6. \A i \in 1 .. n + 1 : i \in 1 .. n \/ i = n + 1
  OBVIOUS
<1>7. ASSUME NEW y \in S \cup {x}
      PROVE  \E i \in 1 .. n + 1 : a[i] = y
  <2>1. CASE y = x
    <3>1. n + 1 \in 1 .. n + 1
      OBVIOUS
    <3> QED BY <1>4, <2>1, <3>1
  <2>2. CASE y # x
    <3>1. PICK i \in 1 .. n : s[i] = y
      BY <1>1, <2>2 DEF Lists
    <3>2. i \in 1 .. n + 1
      OBVIOUS
    <3> QED BY <1>4, <3>1, <3>2
  <2> QED BY <2>1, <2>2
<1>8. ASSUME NEW i \in 1 .. n + 1, NEW j \in 1 .. n + 1, a[i] = a[j]
      PROVE  i = j
  BY <1>1, <1>4, <1>5, <1>6, <1>8 DEF Lists
<1> QED BY <1>3, <1>4, <1>7, <1>8 DEF Lists

LEMMA SortedLists ==
  ASSUME NEW S, S \subseteq Names
  PROVE  Lists(Sorted(S), S)
<1>1. PICK f \in [Nat -> Seq(S)] : IsSorted(f, S)
  BY SortedFunction
<1>2. PICK last \in Nat : last = Len(NameOrder) /\ DOMAIN NameOrder = 1 .. last
  BY StatsAssumption, LenProperties
<1> DEFINE upTo(n) == {x \in S : \E i \in 1 .. n : NameOrder[i] = x}
           T == {n \in Nat : n <= last => Lists(f[n], upTo(n))}
<1>3. 0 \in T
  <2>1. upTo(0) = {}
    OBVIOUS
  <2>2. <<>> \in Seq(upTo(0)) /\ Len(<<>>) = 0
    OBVIOUS
  <2>3. f[0] = <<>>
    BY <1>1 DEF IsSorted
  <2> QED BY <2>1, <2>2, <2>3 DEF Lists
<1>4. ASSUME NEW n \in T \cap Nat
      PROVE  n + 1 \in T
  <2>1. SUFFICES ASSUME n + 1 <= last PROVE Lists(f[n + 1], upTo(n + 1))
    OBVIOUS
  <2>2. Lists(f[n], upTo(n)) /\ n + 1 \in 1 .. last /\ n + 1 - 1 = n
    BY <2>1
  <2>3. PICK x : x = NameOrder[n + 1]
    OBVIOUS
  <2>4. f[n + 1] = IF x \in S THEN Append(f[n], x) ELSE f[n]
    BY <1>1, <1>2, <2>2, <2>3 DEF IsSorted
  <2>5. x \notin upTo(n)
    <3>1. \A i \in 1 .. n : i \in 1 .. last /\ i # n + 1
      BY <2>2
    <3> QED BY <1>2, <2>2, <2>3, <3>1, StatsAssumption
  <2>6. upTo(n + 1) = IF x \in S THEN upTo(n) \cup {x} ELSE upTo(n)
    <3>1. \A i \in 1 .. n + 1 : i \in 1 .. n \/ i = n + 1
      OBVIOUS
    <3>2. (\A i \in 1 .. n : i \in 1 .. n + 1) /\ n + 1 \in 1 .. n + 1
      OBVIOUS
    <3> QED BY <2>3, <3>1, <3>2
  <2> HIDE DEF upTo
  <2>7. CASE x \in S
    <3>1. Lists(Append(f[n], x), upTo(n) \cup {x})
      BY <2>2, <2>5, ListGrows
    <3> QED BY <2>4, <2>6, <2>7, <3>1
  <2>8. CASE x \notin S
    BY <2>2, <2>4, <2>6, <2>8
  <2> QED BY <2>7, <2>8
<1>5. last \in T
  <2> HIDE DEF T
  <2> QED BY <1>2, <1>3, <1>4, SetInduction
<1>6. upTo(last) = S
  BY <1>2 DEF Names
<1>7. Sorted(S) = f[last]
  BY <1>1, <1>2 DEF IsSorted
<1> HIDE DEF upTo
<1> QED BY <1>2, <1>5, <1>6, <1>7

\* Two lists of the same names are equally long.
LEMMA ListsAgree ==
  ASSUME NEW S, NEW s, NEW u, Lists(s, S), Lists(u, S)
  PROVE  Len(s) = Len(u)
<1>1. ASSUME NEW v, Lists(v, S)
      PROVE  Len(v) \in Nat /\ Cardinality(S) = Len(v)
  <2>1. PICK n \in Nat : n = Len(v)
    BY <1>1, LenProperties DEF Lists
  <2>2. v \in [1 .. n -> S]
    BY <1>1, <2>1, LenProperties DEF Lists
  <2>3. v \in Bijection(1 .. n, S)
    <3>1. \A x \in S : \E i \in 1 .. n : v[i] = x
      BY <1>1, <2>1 DEF Lists
    <3>2. \A i, j \in 1 .. n : v[i] = v[j] => i = j
      BY <1>1, <2>1 DEF Lists
    <3>3. v \in Surjection(1 .. n, S)
      BY <2>2, <3>1 DEF Surjection
    <3>4. v \in Injection(1 .. n, S)
      BY <2>2, <3>2 DEF Injection, IsInjective
    <3> QED BY <3>3, <3>4 DEF Bijection
  <2>4. ExistsBijection(1 .. n, S)
    BY <2>3 DEF ExistsBijection
  <2> QED BY <2>1, <2>4, FS_CountingElements
<1> QED BY <1>1

-----------------------------------------------------------------------------
(* The subscript of an offset: what display_subscript makes of an index. *)

LEMMA Remainder ==
  ASSUME NEW a \in Nat, NEW b \in Nat, NEW e \in Nat \ {0}, a < e
  PROVE  (a + b * e) % e = a /\ (a + b * e) \div e = b
<1>1. (a + b * e) \div e = b
  BY Quotient
<1>2. (a + b * e) % e = a
  OBVIOUS
<1> QED BY <1>1, <1>2

LEMMA OneMoreRow ==
  ASSUME NEW e \in Nat, NEW o \in Nat, o < e, NEW x \in Nat \ {0}, NEW y \in Nat, x <= y
  PROVE  o + (x - 1) * e < y * e
<1>1. PICK w \in Nat : w = x - 1
  OBVIOUS
<1>2. PICK z \in Nat : z = y - x
  OBVIOUS
<1>3. y = (w + 1) + z
  BY <1>1, <1>2
<1>4. ((w + 1) + z) * e = (w + 1) * e + z * e /\ (w + 1) * e = w * e + e
  OBVIOUS
<1>5. w * e \in Nat /\ z * e \in Nat
  OBVIOUS
<1>6. y * e = w * e + e + z * e
  BY <1>3, <1>4, <1>5
<1> QED BY <1>1, <1>5, <1>6

\* The offset in the first d dimensions is an index of what they span.
LEMMA OffsetsBelow ==
  ASSUME NEW dims \in Seq(Nat), NEW sub \in Subscripts(dims), NEW f \in [Nat -> Nat], IsOffset(f, dims, sub)
  PROVE  \A d \in 0 .. Len(dims) : f[d] < Extent(dims, 1, d)
<1> DEFINE E(d) == Extent(dims, 1, d)
           S == {d \in Nat : d <= Len(dims) => f[d] < E(d)}
<1>0. PICK n \in Nat : n = Len(dims) /\ DOMAIN dims = 1 .. n
  BY LenProperties
<1>1. 0 \in S
  <2>1. E(1 - 1) = 1
    BY <1>0, Extents
  <2> QED BY <2>1 DEF IsOffset
<1>2. ASSUME NEW d \in S \cap Nat
      PROVE  d + 1 \in S
  <2>1. SUFFICES ASSUME d + 1 <= n PROVE f[d + 1] < E(d + 1)
    BY <1>0
  <2>2. d + 1 \in 1 .. n /\ d + 1 - 1 = d /\ d \in 0 .. n /\ d <= n
    BY <2>1
  <2>3. f[d] < E(d)
    BY <1>0, <2>2
  <2>4. E(d) \in Nat /\ f[d] \in Nat
    BY <1>0, <2>2, ExtentIsNat
  <2>5. sub[d + 1] \in Nat \ {0} /\ sub[d + 1] <= dims[d + 1] /\ dims[d + 1] \in Nat
    BY <1>0, <2>2, SubscriptsAre, ElementOfSeq DEF IsSub
  <2>6. f[d + 1] = f[d] + (sub[d + 1] - 1) * E(d)
    <3>1. PICK b \in 1 .. Len(dims) : b = d + 1 /\ b - 1 = d
      BY <1>0, <2>2
    <3>2. f[b] = f[b - 1] + (sub[b] - 1) * Extent(dims, 1, b - 1)
      BY DEF IsOffset
    <3> QED BY <3>1, <3>2
  <2>7. E(d + 1) = dims[d + 1] * E(d)
    <3>1. \A b \in 1 .. Len(dims) : E(b) = dims[b] * E(b - 1)
      BY Extents
    <3> QED BY <1>0, <2>2, <3>1
  <2> HIDE DEF E
  <2>8. f[d] + (sub[d + 1] - 1) * E(d) < dims[d + 1] * E(d)
    BY <2>3, <2>4, <2>5, OneMoreRow
  <2> QED BY <2>6, <2>7, <2>8
<1> HIDE DEF S
<1>3. Nat \subseteq S
  BY <1>1, <1>2, SetInduction
<1> QED BY <1>3 DEF S

LEMMA OffsetsSplit ==
  ASSUME NEW dims \in Seq(Nat), NEW sub \in Subscripts(dims), NEW f \in [Nat -> Nat], IsOffset(f, dims, sub),
         NEW d \in 1 .. Len(dims)
  PROVE  /\ f[d] \div Extent(dims, 1, d - 1) = sub[d] - 1
         /\ f[d] % Extent(dims, 1, d - 1) = f[d - 1]
<1>0. PICK n \in Nat : n = Len(dims) /\ DOMAIN dims = 1 .. n
  BY LenProperties
<1>1. d - 1 \in 0 .. Len(dims) /\ d \in DOMAIN dims /\ d - 1 \in Nat
  BY <1>0
<1>2. PICK e : e = Extent(dims, 1, d - 1)
  OBVIOUS
<1>3. e \in Nat /\ f[d - 1] < e /\ f[d - 1] \in Nat
  BY <1>1, <1>2, OffsetsBelow, ExtentIsNat
<1>4. sub[d] - 1 \in Nat /\ e \in Nat \ {0}
  <2>1. sub[d] \in Nat \ {0}
    BY <1>1, SubscriptsAre DEF IsSub
  <2>2. sub[d] - 1 \in Nat
    <3>1. \A x \in Nat \ {0} : x - 1 \in Nat
      OBVIOUS
    <3> QED BY <2>1, <3>1, Zenon
  <2>3. e # 0
    BY <1>3
  <2> QED BY <1>3, <2>2, <2>3
<1>5. f[d] = f[d - 1] + (sub[d] - 1) * e
  BY <1>2 DEF IsOffset
<1>6. (f[d - 1] + (sub[d] - 1) * e) % e = f[d - 1] /\ (f[d - 1] + (sub[d] - 1) * e) \div e = sub[d] - 1
  BY <1>3, <1>4, Remainder
<1> QED BY <1>2, <1>5, <1>6

\* display_subscript finds the subscript of every element.
LEMMA SubscriptIsBack ==
  ASSUME NEW m, m.dims \in Seq(Nat), Len(m.dims) >= 1, NEW sub \in Subscripts(m.dims)
  PROVE  display_subscript(m, Offset(m.dims, sub)) = sub
<1>1. PICK f \in [Nat -> Nat] : IsOffset(f, m.dims, sub)
  BY SubscriptsAre, OffsetFunction
<1>2. PICK nd \in Nat \ {0} : nd = Len(m.dims) /\ nd = Ndim(m)
  BY DEF Ndim
<1>3. Offset(m.dims, sub) = f[nd]
  BY <1>1, <1>2 DEF IsOffset
<1>4. \A d \in 1 .. nd : /\ f[d] \div Extent(m.dims, 1, d - 1) = sub[d] - 1
                         /\ f[d] % Extent(m.dims, 1, d - 1) = f[d - 1]
  <2>1. ASSUME NEW d \in 1 .. nd
        PROVE  /\ f[d] \div Extent(m.dims, 1, d - 1) = sub[d] - 1
               /\ f[d] % Extent(m.dims, 1, d - 1) = f[d - 1]
    <3>1. d \in 1 .. Len(m.dims)
      BY <1>2
    <3> QED BY <1>1, <3>1, OffsetsSplit, Zenon
  <2> QED BY <2>1, Zenon
<1> DEFINE Is(p) == p = [d \in 1 .. nd |-> IF d = nd THEN f[nd] ELSE p[d + 1] % Extent(m.dims, 1, d)]
           q == [d \in 1 .. nd |-> f[d]]
           p == CHOOSE p : Is(p)
<1>5. Is(q)
  <2>1. ASSUME NEW d \in 1 .. nd
        PROVE  q[d] = IF d = nd THEN f[nd] ELSE q[d + 1] % Extent(m.dims, 1, d)
    <3>1. CASE d = nd
      BY <3>1
    <3>2. CASE d # nd
      <4>1. d + 1 \in 1 .. nd /\ d + 1 - 1 = d
        BY <3>2
      <4> QED BY <1>4, <3>2, <4>1
    <3> QED BY <3>1, <3>2
  <2> QED BY <2>1
<1>6. Is(p)
  BY <1>5
<1>7. display_subscript(m, Offset(m.dims, sub)) = [d \in 1 .. nd |-> (p[d] \div Extent(m.dims, 1, d - 1)) + 1]
  BY <1>2, <1>3 DEF display_subscript
<1> HIDE DEF p
<1>8. \A d \in 1 .. nd : p[d] = f[d]
  <2> DEFINE S == {k \in Nat : k < nd => p[nd - k] = f[nd - k]}
  <2>1. 0 \in S
    BY <1>6
  <2>2. ASSUME NEW k \in S \cap Nat
        PROVE  k + 1 \in S
    <3>1. SUFFICES ASSUME k + 1 < nd PROVE p[nd - (k + 1)] = f[nd - (k + 1)]
      OBVIOUS
    <3>2. PICK d \in 1 .. nd : /\ d = nd - (k + 1) /\ d + 1 = nd - k /\ d # nd /\ d + 1 \in 1 .. nd
                               /\ d + 1 - 1 = d /\ p[d + 1] = f[d + 1]
      BY <3>1
    <3>3. p[d] = p[d + 1] % Extent(m.dims, 1, d)
      BY <1>6, <3>2
    <3>4. f[d + 1] % Extent(m.dims, 1, d) = f[d]
      BY <1>4, <3>2
    <3> QED BY <3>2, <3>3, <3>4
  <2> HIDE DEF S
  <2>3. Nat \subseteq S
    BY <2>1, <2>2, SetInduction
  <2>4. ASSUME NEW d \in 1 .. nd
        PROVE  p[d] = f[d]
    <3>1. nd - d \in Nat /\ nd - d < nd /\ nd - (nd - d) = d /\ nd - d \in S
      BY <2>3
    <3> QED BY <3>1 DEF S
  <2> QED BY <2>4
<1>9. sub \in Seq(Nat) /\ Len(sub) = nd /\ DOMAIN sub = 1 .. nd
  BY <1>2, SubscriptsAre, LenProperties
<1>10. \A d \in 1 .. nd : (p[d] \div Extent(m.dims, 1, d - 1)) + 1 = sub[d]
  <2>1. \A d \in 1 .. nd : sub[d] \in Nat
    BY <1>9, ElementOfSeq
  <2>2. ASSUME NEW d \in 1 .. nd
        PROVE  (p[d] \div Extent(m.dims, 1, d - 1)) + 1 = sub[d]
    <3>1. PICK x : x = p[d] \div Extent(m.dims, 1, d - 1)
      OBVIOUS
    <3>2. x = sub[d] - 1
      BY <1>4, <1>8, <3>1, Zenon
    <3>3. sub[d] \in Nat
      BY <2>1
    <3>4. x + 1 = sub[d]
      BY <3>2, <3>3, SMTT(20)
    <3> QED BY <3>1, <3>4
  <2> QED BY <2>2
<1>11. sub = [d \in 1 .. nd |-> sub[d]]
  BY <1>9
<1> QED BY <1>7, <1>10, <1>11

LEMMA RowNumber ==
  ASSUME NEW a \in Nat \ {0}, NEW M \in Nat, a <= M, NEW q \in Nat, NEW P \in Nat, q < P
  PROVE  /\ q * M + a \in 1 .. M * P /\ M # 0
         /\ ((q * M + a) - 1) \div M = q /\ ((q * M + a) - 1) % M = a - 1
<1>1. PICK b \in Nat : b = a - 1 /\ b < M /\ M \in Nat \ {0} /\ q + 1 \in Nat \ {0} /\ q + 1 <= P
  OBVIOUS
<1>2. PICK y \in Nat : y = q * M
  BY NatTimes
<1>3. PICK z \in Nat : z = P * M /\ z = M * P
  OBVIOUS
<1>4. (y + a) - 1 = b + y
  BY <1>1, <1>2
<1>5. (b + q * M) % M = b /\ (b + q * M) \div M = q
  BY <1>1, Remainder
<1>6. b + (q + 1 - 1) * M < P * M
  BY <1>1, OneMoreRow
<1>7. q + 1 - 1 = q
  OBVIOUS
<1>8. b + y < z
  BY <1>2, <1>3, <1>6, <1>7
<1>9. y + a \in 1 .. z
  BY <1>1, <1>8
<1>10. ((q * M + a) - 1) = b + q * M
  BY <1>2, <1>4
<1>11. q * M + a \in 1 .. M * P
  BY <1>2, <1>3, <1>9
<1> QED BY <1>1, <1>5, <1>10, <1>11

-----------------------------------------------------------------------------
(* Pages, of which string arrays are printed row by row. *)

LEMMA ThreeOf ==
  \A a, b, c \in Nat : a * (b * c) = b * (a * c)
  OBVIOUS

\* An array is pages of dims[1] rows and dims[2] columns.
LEMMA ExtentOfPages ==
  ASSUME NEW dims \in Seq(Nat), Len(dims) >= 2
  PROVE  /\ Extent(dims, 3, 2) = 1
         /\ \A b \in 2 .. Len(dims) : /\ Extent(dims, 3, b) \in Nat
                                      /\ Extent(dims, 1, b) = Extent(dims, 1, 2) * Extent(dims, 3, b)
<1> DEFINE page == Extent(dims, 1, 2)
           S == {n \in Nat : n + 2 <= Len(dims) => Extent(dims, 1, n + 2) = page * Extent(dims, 3, n + 2)}
<1>0. PICK l \in Nat : l = Len(dims) /\ DOMAIN dims = 1 .. l /\ \A d \in 1 .. l : dims[d] \in Nat
  BY LenProperties
<1>1. page \in Nat
  <2>1. 2 \in 0 .. Len(dims)
    BY <1>0
  <2> QED BY <2>1, ExtentIsNat
<1>2. /\ Extent(dims, 3, 2) = 1
      /\ \A b \in 2 .. l : Extent(dims, 3, b) \in Nat
      /\ \A b \in 3 .. l : Extent(dims, 3, b) = dims[b] * Extent(dims, 3, b - 1)
  <2>1. 3 \in Nat \ {0} /\ 3 <= Len(dims) + 1 /\ 3 - 1 = 2
    BY <1>0
  <2> QED BY <1>0, <2>1, Extents
<1>3. \A b \in 1 .. l : Extent(dims, 1, b) = dims[b] * Extent(dims, 1, b - 1)
  <2>1. \A b \in 1 .. Len(dims) : Extent(dims, 1, b) = dims[b] * Extent(dims, 1, b - 1)
    <3>1. 1 \in Nat \ {0}
      OBVIOUS
    <3> QED BY <3>1, Extents
  <2> QED BY <1>0, <2>1
<1>4. 0 \in S
  BY <1>1, <1>2
<1> HIDE DEF page
<1>5. ASSUME NEW n \in S \cap Nat
      PROVE  n + 1 \in S
  <2>1. SUFFICES ASSUME n + 1 + 2 <= Len(dims)
                 PROVE  Extent(dims, 1, n + 1 + 2) = page * Extent(dims, 3, n + 1 + 2)
    OBVIOUS
  <2>2. PICK b \in Nat : /\ b = n + 1 + 2 /\ b \in 1 .. l /\ b \in 3 .. l /\ b - 1 = n + 2 /\ b - 1 \in 2 .. l
                         /\ Extent(dims, 1, n + 2) = page * Extent(dims, 3, n + 2)
    BY <1>0, <2>1
  <2>3. PICK x \in Nat : x = Extent(dims, 3, b - 1)
    BY <1>2, <2>2
  <2>4. Extent(dims, 1, b) = dims[b] * (page * x) /\ Extent(dims, 3, b) = dims[b] * x
    BY <1>2, <1>3, <2>2, <2>3
  <2>5. dims[b] * (page * x) = page * (dims[b] * x)
    BY <1>0, <1>1, <2>2, ThreeOf
  <2> QED BY <2>2, <2>4, <2>5
<1> HIDE DEF S
<1>6. Nat \subseteq S
  BY <1>4, <1>5, SetInduction
<1>7. ASSUME NEW b \in 2 .. Len(dims)
      PROVE  Extent(dims, 3, b) \in Nat /\ Extent(dims, 1, b) = page * Extent(dims, 3, b)
  <2>1. b - 2 \in S /\ b - 2 + 2 = b /\ b \in 2 .. l
    BY <1>0, <1>6
  <2> QED BY <1>2, <2>1 DEF S
<1> QED BY <1>2, <1>7 DEF page

LEMMA LargestDimension ==
  ASSUME NEW dims \in Seq(Nat), Len(dims) >= 2
  PROVE  \E d \in DOMAIN dims : \A e \in DOMAIN dims : dims[e] <= dims[d]
<1>0. PICK n \in Nat : n = Len(dims) /\ n >= 2 /\ DOMAIN dims = 1 .. n /\ \A d \in 1 .. n : dims[d] \in Nat
  BY LenProperties
<1> DEFINE S == {k \in Nat : k + 1 <= n => \E d \in 1 .. k + 1 : \A e \in 1 .. k + 1 : dims[e] <= dims[d]}
<1>1. 0 \in S
  <2>1. 1 \in 1 .. 0 + 1 /\ (\A e \in 1 .. 0 + 1 : e = 1) /\ 1 \in 1 .. n
    BY <1>0
  <2>2. dims[1] <= dims[1]
    BY <1>0, <2>1
  <2> QED BY <2>1, <2>2
<1>2. ASSUME NEW k \in S \cap Nat
      PROVE  k + 1 \in S
  <2>1. SUFFICES ASSUME k + 1 + 1 <= n
                 PROVE  \E d \in 1 .. k + 1 + 1 : \A e \in 1 .. k + 1 + 1 : dims[e] <= dims[d]
    OBVIOUS
  <2>2. PICK d \in 1 .. k + 1 : \A e \in 1 .. k + 1 : dims[e] <= dims[d]
    BY <1>0, <2>1
  <2> HIDE DEF S
  <2>3. PICK b \in 1 .. n : b = k + 1 + 1 /\ (\A e \in 1 .. k + 1 + 1 : e = b \/ e \in 1 .. k + 1)
    BY <1>0, <2>1
  <2>4. d \in 1 .. n /\ d \in 1 .. k + 1 + 1 /\ b \in 1 .. k + 1 + 1 /\ \A e \in 1 .. k + 1 : e \in 1 .. n
    BY <1>0, <2>1, <2>3
  <2>5. dims[d] \in Nat /\ dims[b] \in Nat
    BY <1>0, <2>4
  <2>6. CASE dims[b] <= dims[d]
    BY <2>2, <2>3, <2>4, <2>6
  <2>7. CASE dims[d] <= dims[b]
    <3>1. \A e \in 1 .. k + 1 : dims[e] <= dims[b]
      BY <1>0, <2>2, <2>4, <2>5, <2>7
    <3>2. dims[b] <= dims[b]
      BY <2>5
    <3> QED BY <2>3, <2>4, <3>1, <3>2
  <2> QED BY <2>5, <2>6, <2>7
<1> HIDE DEF S
<1>3. Nat \subseteq S
  BY <1>1, <1>2, SetInduction
<1>4. PICK k \in Nat : k + 1 = n /\ k \in S
  <2>1. n - 1 \in Nat /\ n - 1 + 1 = n
    BY <1>0
  <2> QED BY <1>3, <2>1
<1>5. \E d \in 1 .. k + 1 : \A e \in 1 .. k + 1 : dims[e] <= dims[d]
  BY <1>0, <1>4 DEF S
<1> QED BY <1>0, <1>4, <1>5

\* The column of an element does not matter to its page.
LEMMA FirstOfRow ==
  ASSUME NEW dims \in Seq(Nat), Len(dims) >= 2, NEW sub \in Subscripts(dims)
  PROVE  [sub EXCEPT ![2] = 1] \in Subscripts(dims)
<1> DEFINE widest == CHOOSE w \in {dims[d] : d \in DOMAIN dims} : \A d \in DOMAIN dims : dims[d] <= w
<1>1. sub \in [DOMAIN dims -> 1 .. widest] /\ \A d \in DOMAIN dims : sub[d] <= dims[d]
  BY DEF Subscripts
<1>2. Subscripts(dims) = {s \in [DOMAIN dims -> 1 .. widest] : \A d \in DOMAIN dims : s[d] <= dims[d]}
  BY DEF Subscripts
<1> HIDE DEF widest
<1>3. 2 \in DOMAIN dims /\ \A d \in DOMAIN dims : dims[d] \in Nat
  <2>1. PICK n \in Nat : n = Len(dims) /\ DOMAIN dims = 1 .. n
    BY LenProperties
  <2> QED BY <2>1, ElementOfSeq
<1>4. 1 \in 1 .. widest /\ 1 <= dims[2]
  <2>1. widest \in Nat
    <3>1. PICK d \in DOMAIN dims : \A e \in DOMAIN dims : dims[e] <= dims[d]
      BY LargestDimension
    <3>2. dims[d] \in {dims[e] : e \in DOMAIN dims}
      BY <3>1
    <3>3. widest \in {dims[e] : e \in DOMAIN dims}
      BY <3>1, <3>2 DEF widest
    <3> QED BY <1>3, <3>3
  <2>2. sub[2] \in 1 .. widest /\ sub[2] <= dims[2] /\ dims[2] \in Nat
    BY <1>1, <1>3
  <2> QED BY <2>1, <2>2
<1> QED BY <1>1, <1>2, <1>3, <1>4

LEMMA PageOffset ==
  ASSUME NEW M \in Nat, NEW a \in Nat, NEW c \in Nat, NEW q \in Nat, NEW s \in Nat, NEW page \in Nat, NEW x \in Nat
  PROVE  /\ (a + q * page) + s * (page * x) = a + (q + s * x) * page
         /\ ((a + c * M) + q * page) + s * (page * x) = (a + c * M) + (q + s * x) * page
<1>1. s * (page * x) = (s * x) * page
  OBVIOUS
<1>2. PICK y \in Nat : y = s * x
  OBVIOUS
<1>3. (q + y) * page = q * page + y * page /\ q * page \in Nat /\ y * page \in Nat
  OBVIOUS
<1>4. c * M \in Nat
  OBVIOUS
<1> QED BY <1>1, <1>2, <1>3, <1>4

LEMMA NextDimension ==
  ASSUME NEW e \in Nat, NEW n \in Nat, e >= 2, e + 1 <= n
  PROVE  /\ e + 1 - 1 = e /\ e + 1 # 2 /\ e \in 2 .. n
         /\ e + 1 \in 2 .. n /\ e + 1 \in 1 .. n /\ e + 1 \in 3 .. n
  OBVIOUS

InPage(dims, sub, q, o, first) ==
  /\ first = (sub[1] - 1) + q * Extent(dims, 1, 2)
  /\ o = ((sub[1] - 1) + (sub[2] - 1) * dims[1]) + q * Extent(dims, 1, 2)

LEMMA SamePage ==
  ASSUME NEW dims \in Seq(Nat), Len(dims) >= 2, NEW sub \in Subscripts(dims)
  PROVE  \E q \in Nat : /\ q < Extent(dims, 3, Len(dims))
                        /\ InPage(dims, sub, q, Offset(dims, sub), Offset(dims, [sub EXCEPT ![2] = 1]))
<1>0. PICK n \in Nat : n = Len(dims) /\ n >= 2 /\ DOMAIN dims = 1 .. n /\ \A d \in 1 .. n : dims[d] \in Nat
  BY LenProperties
<1>1. PICK top : top = [sub EXCEPT ![2] = 1]
  OBVIOUS
<1>2. top \in Subscripts(dims)
  BY <1>1, FirstOfRow
<1>3. DOMAIN sub = 1 .. n /\ \A d \in 1 .. n : sub[d] \in Nat \ {0} /\ sub[d] <= dims[d]
  BY <1>0, SubscriptsAre DEF IsSub
<1>4. top[2] = 1 /\ \A d \in 1 .. n : d # 2 => top[d] = sub[d]
  BY <1>0, <1>1, <1>3
<1>5. PICK f \in [Nat -> Nat] : IsOffset(f, dims, sub)
  BY SubscriptsAre, OffsetFunction
<1>6. PICK g \in [Nat -> Nat] : IsOffset(g, dims, top)
  BY <1>2, SubscriptsAre, OffsetFunction
<1>7. PICK page \in Nat : page = Extent(dims, 1, 2)
  <2>1. 2 \in 0 .. Len(dims)
    BY <1>0
  <2> QED BY <2>1, ExtentIsNat
<1>8. PICK r \in Nat, c \in Nat, M \in Nat : r = sub[1] - 1 /\ c = sub[2] - 1 /\ M = dims[1]
  <2>1. 1 \in 1 .. n /\ 2 \in 1 .. n
    BY <1>0
  <2>2. sub[1] \in Nat \ {0} /\ sub[2] \in Nat \ {0} /\ dims[1] \in Nat
    BY <1>0, <1>3, <2>1
  <2>3. \A y \in Nat \ {0} : y - 1 \in Nat
    OBVIOUS
  <2>4. sub[1] - 1 \in Nat /\ sub[2] - 1 \in Nat
    BY <2>2, <2>3
  <2> QED BY <2>2, <2>4
<1> DEFINE Here(k) == \E q \in Nat : /\ q < Extent(dims, 3, k)
                                   /\ g[k] = r + q * page
                                   /\ f[k] = (r + c * M) + q * page
           S == {k \in Nat : k + 2 <= n => Here(k + 2)}
<1>9. Here(2)
  <2>1. Extent(dims, 3, 2) = 1 /\ Extent(dims, 1, 0) = 1 /\ Extent(dims, 1, 1) = M
    <3>1. Len(dims) >= 1 /\ Len(dims) >= 2
      BY <1>0
    <3>2. Extent(dims, 1, 0) = 1 /\ Extent(dims, 1, 1) = dims[1]
      BY <3>1, ShortExtents
    <3>3. Extent(dims, 3, 2) = 1
      BY <3>1, ExtentOfPages
    <3> QED BY <1>8, <3>2, <3>3
  <2>2. f[0] = 0 /\ f[1] = f[0] + (sub[1] - 1) * Extent(dims, 1, 0) /\ f[2] = f[1] + (sub[2] - 1) * Extent(dims, 1, 1)
    <3>1. 1 \in 1 .. Len(dims) /\ 2 \in 1 .. Len(dims) /\ 1 - 1 = 0 /\ 2 - 1 = 1
      BY <1>0
    <3> QED BY <1>5, <3>1 DEF IsOffset
  <2>3. g[0] = 0 /\ g[1] = g[0] + (top[1] - 1) * Extent(dims, 1, 0) /\ g[2] = g[1] + (top[2] - 1) * Extent(dims, 1, 1)
    <3>1. 1 \in 1 .. Len(dims) /\ 2 \in 1 .. Len(dims) /\ 1 - 1 = 0 /\ 2 - 1 = 1
      BY <1>0
    <3> QED BY <1>6, <3>1 DEF IsOffset
  <2>4. top[1] - 1 = r /\ top[2] - 1 = 0
    <3>1. 1 \in 1 .. n /\ 1 # 2
      BY <1>0
    <3>2. top[1] = sub[1] /\ top[2] = 1
      BY <1>4, <3>1
    <3> QED BY <1>8, <3>2
  <2>5. g[2] = r + 0 * page /\ f[2] = (r + c * M) + 0 * page
    <3>1. 0 * page = 0 /\ c * M \in Nat /\ 0 * M = 0
      OBVIOUS
    <3>2. f[1] = r /\ g[1] = r
      <4>1. f[1] = 0 + r * 1
        BY <1>8, <2>1, <2>2
      <4>2. g[1] = 0 + r * 1
        BY <2>1, <2>3, <2>4
      <4> QED BY <4>1, <4>2
    <3>3. f[2] = r + c * M
      BY <1>8, <2>1, <2>2, <3>2
    <3>4. g[2] = r + 0 * M
      BY <2>1, <2>3, <2>4, <3>2
    <3> QED BY <3>1, <3>3, <3>4
  <2>6. 0 < Extent(dims, 3, 2)
    BY <2>1
  <2> QED BY <2>5, <2>6
<1>10. 0 \in S
  <2>1. 0 + 2 = 2 /\ 0 \in Nat
    OBVIOUS
  <2> HIDE DEF Here
  <2> QED BY <1>9, <2>1
<1> HIDE DEF Here
<1>11. ASSUME NEW k \in S \cap Nat
       PROVE  k + 1 \in S
  <2>0. k \in Nat /\ (k + 2 <= n => Here(k + 2))
    OBVIOUS
  <2>1. SUFFICES ASSUME k + 1 + 2 <= n PROVE Here(k + 1 + 2)
    OBVIOUS
  <2>2. PICK d \in Nat : /\ d = k + 2 /\ d + 1 = k + 1 + 2 /\ d + 1 - 1 = d /\ d + 1 # 2
                         /\ d \in 2 .. n /\ d + 1 \in 2 .. n /\ d + 1 \in 1 .. n /\ d + 1 \in 3 .. n /\ Here(d)
    <3> HIDE DEF S
    <3>1. k + 2 <= n
      BY <1>0, <2>0, <2>1
    <3>2. Here(k + 2)
      BY <2>0, <3>1
    <3>3. PICK e \in Nat : e = k + 2
      BY <2>0
    <3>4. e + 1 = k + 1 + 2 /\ e >= 2 /\ e + 1 <= n
      BY <1>0, <2>0, <2>1, <3>3
    <3>5. e + 1 - 1 = e /\ e + 1 # 2 /\ e \in 2 .. n /\ e + 1 \in 2 .. n /\ e + 1 \in 1 .. n /\ e + 1 \in 3 .. n
      BY <3>4, NextDimension
    <3> QED BY <3>2, <3>3, <3>4, <3>5
  <2>3. PICK q \in Nat : /\ q < Extent(dims, 3, d)
                         /\ g[d] = r + q * page
                         /\ f[d] = (r + c * M) + q * page
    BY <2>2 DEF Here
  <2>4. PICK x \in Nat : x = Extent(dims, 3, d) /\ Extent(dims, 1, d) = page * x
    BY <1>0, <1>7, <2>2, ExtentOfPages
  <2>5. PICK s \in Nat : s = sub[d + 1] - 1 /\ s = top[d + 1] - 1
    <3>1. top[d + 1] = sub[d + 1] /\ sub[d + 1] \in Nat \ {0}
      BY <1>3, <1>4, <2>2
    <3>2. \A y \in Nat \ {0} : y - 1 \in Nat
      OBVIOUS
    <3> QED BY <3>1, <3>2
  <2>6. f[d + 1] = f[d] + s * (page * x) /\ g[d + 1] = g[d] + s * (page * x)
    <3>1. PICK b \in 1 .. Len(dims) : b = d + 1 /\ b - 1 = d
      BY <1>0, <2>2
    <3>2. f[b] = f[b - 1] + (sub[b] - 1) * Extent(dims, 1, b - 1)
      BY <1>5 DEF IsOffset
    <3>3. g[b] = g[b - 1] + (top[b] - 1) * Extent(dims, 1, b - 1)
      BY <1>6 DEF IsOffset
    <3> QED BY <2>4, <2>5, <3>1, <3>2, <3>3
  <2>7. f[d + 1] = (r + c * M) + (q + s * x) * page /\ g[d + 1] = r + (q + s * x) * page
    <3>1. (r + q * page) + s * (page * x) = r + (q + s * x) * page
      BY PageOffset
    <3>2. ((r + c * M) + q * page) + s * (page * x) = (r + c * M) + (q + s * x) * page
      BY PageOffset
    <3> QED BY <2>3, <2>6, <3>1, <3>2
  <2>8. q + s * x \in Nat /\ q + s * x < Extent(dims, 3, d + 1)
    <3>1. Extent(dims, 3, d + 1) = dims[d + 1] * x
      <4>1. \A b \in 3 .. Len(dims) : Extent(dims, 3, b) = dims[b] * Extent(dims, 3, b - 1)
        <5>1. 3 \in Nat \ {0}
          OBVIOUS
        <5> QED BY <5>1, Extents
      <4> QED BY <1>0, <2>2, <2>4, <4>1
    <3>2. sub[d + 1] \in Nat \ {0} /\ sub[d + 1] <= dims[d + 1] /\ dims[d + 1] \in Nat /\ q < x
      BY <1>0, <1>3, <2>2, <2>3, <2>4
    <3>3. q + (sub[d + 1] - 1) * x < dims[d + 1] * x
      BY <3>2, OneMoreRow
    <3>4. q + s * x < dims[d + 1] * x
      BY <2>5, <3>3
    <3>5. s * x \in Nat
      BY NatTimes
    <3>6. PICK y \in Nat : y = s * x
      BY <3>5
    <3>7. q + y \in Nat
      OBVIOUS
    <3> QED BY <3>1, <3>4, <3>6, <3>7
  <2>9. Here(d + 1)
    BY <2>7, <2>8 DEF Here
  <2> QED BY <2>2, <2>9
<1> HIDE DEF S
<1>12. Nat \subseteq S
  BY <1>10, <1>11, SetInduction
<1>13. Here(n)
  <2>1. PICK k \in Nat : k + 2 = n
    <3>1. n - 2 \in Nat /\ n - 2 + 2 = n
      BY <1>0
    <3> QED BY <3>1
  <2>2. k \in S
    BY <1>12, Zenon
  <2>3. k + 2 <= n
    BY <2>1
  <2>4. Here(k + 2)
    BY <2>2, <2>3 DEF S
  <2> QED BY <2>1, <2>4
<1>14. Offset(dims, sub) = f[n] /\ Offset(dims, top) = g[n]
  BY <1>0, <1>5, <1>6 DEF IsOffset
<1>15. PICK q \in Nat : q < Extent(dims, 3, n) /\ g[n] = r + q * page /\ f[n] = (r + c * M) + q * page
  BY <1>13 DEF Here
<1>16. InPage(dims, sub, q, Offset(dims, sub), Offset(dims, top))
  BY <1>7, <1>8, <1>14, <1>15 DEF InPage
<1> QED BY <1>0, <1>1, <1>15, <1>16
=============================================================================
