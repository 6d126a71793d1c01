---------------------------- MODULE NumericProofs ----------------------------
(***************************************************************************)
(* The conversions of getAsInt, getAsFloat and getAsBool, for every width  *)
(* of the integer classes and every precision of the floats that are in    *)
(* the order the assumptions of NumericClass state.                        *)
(*                                                                         *)
(* A number of a float class is a multiple of a power of two (Fitting).    *)
(* Rounding never passes a number of the class, upwards or downwards, and  *)
(* ends in the class; a comparison of two integers is exact where the      *)
(* common class has them both, and every limit that a float is compared    *)
(* with is either a number of the class or rounds to the next power.  The  *)
(* four conversions follow from these, and the properties from the four.   *)
(***************************************************************************)
EXTENDS NumericConversion, Recursion

-----------------------------------------------------------------------------
(* Division and powers of two. *)

LEMMA Division ==
  ASSUME NEW a \in Int, NEW b \in Nat \ {0}
  PROVE  /\ a \div b \in Int /\ a % b \in 0 .. b - 1
         /\ a = (a \div b) * b + (a % b)
  OBVIOUS

LEMMA Quotient ==
  ASSUME NEW a \in Nat, NEW b \in Nat \ {0}
  PROVE  /\ a \div b \in Nat /\ a % b \in 0 .. b - 1
         /\ a = (a \div b) * b + (a % b)
<1> DEFINE q == a \div b
           r == a % b
<1>1. q \in Int /\ r \in 0 .. b - 1 /\ a = q * b + r
  BY Division
<1> HIDE DEF q, r
<1>2. ~(q < 0)
  <2>1. SUFFICES ASSUME q <= -1 PROVE FALSE
    BY <1>1
  <2>2. q * b <= (-1) * b
    BY <1>1, <2>1
  <2> QED BY <1>1, <2>2
<1>3. q \in Nat
  BY <1>1, <1>2
<1> QED BY <1>1, <1>3 DEF q, r

LEMMA DivisionIsUnique ==
  ASSUME NEW a \in Int, NEW b \in Nat \ {0}, NEW q \in Int, NEW r \in 0 .. b - 1, a = q * b + r
  PROVE  a \div b = q /\ a % b = r
  OBVIOUS

LEMMA Products ==
  ASSUME NEW a \in Int, NEW b \in Int, NEW c \in Nat \ {0}
  PROVE  /\ a * c \in Int
         /\ a <= b <=> a * c <= b * c
         /\ a < b <=> a * c < b * c
         /\ a = b <=> a * c = b * c
  OBVIOUS

LEMMA PowerSteps ==
  Pow2[0] = 1 /\ \A n \in Nat : Pow2[n + 1] = 2 * Pow2[n]
<1> DEFINE double == [n \in Nat |-> [x \in Nat |-> 2 * x]]
           Is(f) == f = [n \in Nat |-> IF n = 0 THEN 1 ELSE 2 * f[n - 1]]
<1>1. PICK f \in [Nat -> Nat] : f[0] = 1 /\ \A n \in Nat : f[n + 1] = double[n][f[n]]
  <2>1. 1 \in Nat /\ double \in [Nat -> [Nat -> Nat]]
    OBVIOUS
  <2> HIDE DEF double
  <2>2. IsDefined(Nat, 1, double)
    BY <2>1, RecursiveFunction
  <2> QED BY <2>2 DEF IsDefined
<1>2. Is(f)
  <2>1. \A n \in Nat : f[n + 1] = 2 * f[n]
    BY <1>1
  <2>2. \A n \in Nat \ {0} : n - 1 \in Nat /\ n - 1 + 1 = n
    OBVIOUS
  <2>3. \A n \in Nat : f[n] = IF n = 0 THEN 1 ELSE 2 * f[n - 1]
    BY <1>1, <2>1, <2>2
  <2> QED BY <2>3
<1>3. Pow2 = [n \in Nat |-> IF n = 0 THEN 1 ELSE 2 * Pow2[n - 1]]
  <2>1. Pow2 = CHOOSE p : Is(p)
    BY DEF Pow2
  <2>2. Is(Pow2)
    BY <1>2, <2>1
  <2> QED BY <2>2
<1>4. \A n \in Nat : n + 1 \in Nat /\ n + 1 # 0 /\ n + 1 - 1 = n
  OBVIOUS
<1> QED BY <1>3, <1>4

LEMMA Powers ==
  \A n \in Nat : Pow2[n] \in Nat \ {0}
<1> DEFINE S == {n \in Nat : Pow2[n] \in Nat \ {0}}
<1>1. 0 \in S
  BY PowerSteps
<1>2. \A n \in S \cap Nat : n + 1 \in S
  BY PowerSteps
<1> HIDE DEF S
<1>3. Nat \subseteq S
  BY <1>1, <1>2, SetInduction
<1> QED BY <1>3 DEF S

LEMMA PowerOfSum ==
  ASSUME NEW a \in Nat, NEW b \in Nat
  PROVE  Pow2[a + b] = Pow2[a] * Pow2[b]
<1> DEFINE S == {n \in Nat : Pow2[a + n] = Pow2[a] * Pow2[n]}
<1>1. 0 \in S
  BY PowerSteps, Powers
<1>2. ASSUME NEW n \in S \cap Nat
      PROVE  n + 1 \in S
  <2>1. Pow2[n + 1] = 2 * Pow2[n] /\ Pow2[(a + n) + 1] = 2 * Pow2[a + n]
    BY PowerSteps
  <2>2. (a + n) + 1 = a + (n + 1) /\ Pow2[a] \in Nat /\ Pow2[n] \in Nat
    BY Powers
  <2> QED BY <2>1, <2>2
<1> HIDE DEF S
<1>3. b \in S
  BY <1>1, <1>2, SetInduction
<1> QED BY <1>3 DEF S

LEMMA PowersGrow ==
  ASSUME NEW a \in Nat, NEW b \in Nat
  PROVE  /\ a <= b <=> Pow2[a] <= Pow2[b]
         /\ a < b <=> Pow2[a] < Pow2[b]
         /\ a < b => 2 * Pow2[a] <= Pow2[b]
         /\ a <= b => Pow2[b] = Pow2[a] * Pow2[b - a]
<1>1. ASSUME NEW c \in Nat, NEW d \in Nat
      PROVE  /\ Pow2[c + d] = Pow2[c] * Pow2[d]
             /\ Pow2[c] <= Pow2[c + d]
             /\ d # 0 => 2 * Pow2[c] <= Pow2[c + d]
  <2>1. Pow2[c + d] = Pow2[c] * Pow2[d] /\ Pow2[c] \in Nat \ {0} /\ Pow2[d] \in Nat \ {0}
    BY PowerOfSum, Powers
  <2>2. d # 0 => Pow2[d] >= 2
    <3> SUFFICES ASSUME d # 0 PROVE Pow2[d] >= 2
      OBVIOUS
    <3>1. d - 1 \in Nat /\ d - 1 + 1 = d
      OBVIOUS
    <3>2. Pow2[d] = 2 * Pow2[d - 1] /\ Pow2[d - 1] \in Nat \ {0}
      BY <3>1, PowerSteps, Powers
    <3> QED BY <3>2
  <2>3. 1 * Pow2[c] <= Pow2[d] * Pow2[c]
    BY <2>1, Products
  <2>4. d # 0 => 2 * Pow2[c] <= Pow2[d] * Pow2[c]
    BY <2>1, <2>2, Products
  <2> QED BY <2>1, <2>3, <2>4
<1>2. a <= b => b - a \in Nat /\ a + (b - a) = b
  OBVIOUS
<1>3. b < a => a - b \in Nat \ {0} /\ b + (a - b) = a
  OBVIOUS
<1>4. Pow2[a] \in Nat \ {0} /\ Pow2[b] \in Nat \ {0}
  BY Powers
<1>5. CASE a <= b
  <2>1. /\ Pow2[b] = Pow2[a] * Pow2[b - a]
        /\ Pow2[a] <= Pow2[b]
        /\ b - a # 0 => 2 * Pow2[a] <= Pow2[b]
    BY <1>1, <1>2, <1>5
  <2>2. b - a # 0 <=> a < b
    BY <1>5
  <2>3. a = b => Pow2[a] = Pow2[b]
    OBVIOUS
  <2>4. Pow2[b] # 0 /\ Pow2[a] # 0
    BY <1>4
  <2> QED BY <1>4, <1>5, <2>1, <2>2, <2>3, <2>4
<1>6. CASE b < a
  <2>1. 2 * Pow2[b] <= Pow2[a]
    BY <1>1, <1>3, <1>6
  <2> QED BY <1>4, <1>6, <2>1
<1> QED BY <1>5, <1>6

\* A multiple of a power is one of every lesser power.
LEMMA Multiples ==
  ASSUME NEW a \in Nat, NEW b \in Nat, a <= b, NEW n \in Int, n % Pow2[b] = 0
  PROVE  n % Pow2[a] = 0
<1>1. b - a \in Nat /\ Pow2[a] \in Nat \ {0} /\ Pow2[b] \in Nat \ {0} /\ Pow2[b - a] \in Nat \ {0}
  BY Powers
<1>2. Pow2[b] = Pow2[a] * Pow2[b - a]
  BY PowersGrow
<1> DEFINE q == n \div Pow2[b]
<1>3. q \in Int /\ n = q * Pow2[b]
  <2>1. n = (n \div Pow2[b]) * Pow2[b] + (n % Pow2[b]) /\ q \in Int
    BY <1>1, Division
  <2> QED BY <1>1, <2>1
<1>4. q * Pow2[b - a] \in Int /\ n = (q * Pow2[b - a]) * Pow2[a] + 0
  BY <1>1, <1>2, <1>3
<1>5. 0 \in 0 .. Pow2[a] - 1
  BY <1>1
<1> HIDE DEF q
<1> QED BY <1>1, <1>4, <1>5, DivisionIsUnique

-----------------------------------------------------------------------------
(* Numbers and the integer classes. *)

LEMMA Numbers ==
  ASSUME NEW n \in Int
  PROVE  /\ Finite(Num(n)) /\ Num(n).n = n /\ Num(n) \notin {PosInf, NegInf, NaN}
         /\ Fabs(Num(n)) = Num(IF n < 0 THEN -n ELSE n)
         /\ ~Finite(PosInf) /\ ~Finite(NegInf) /\ ~Finite(NaN)
         /\ PosInf # NegInf /\ PosInf # NaN /\ NegInf # NaN
         /\ Fabs(PosInf) = PosInf /\ Fabs(NegInf) = PosInf /\ Fabs(NaN) = NaN
         /\ PosInf.n = 1 /\ NegInf.n = -1 /\ NaN.n = 0
  BY DEF Finite, Num, Fabs, PosInf, NegInf, NaN

LEMMA NumIsInjective ==
  ASSUME NEW m, NEW n, Num(m) = Num(n)
  PROVE  m = n
  BY DEF Num

LEMMA Widths ==
  ASSUME NEW c \in Integer
  PROVE  /\ Width[c] \in Nat \ {0} /\ Width[c] - 1 \in Nat /\ Width[c] <= Width["int64"]
         /\ Pow2[Width[c]] = 2 * Pow2[Width[c] - 1]
         /\ Pow2[Width[c] - 1] \in Nat \ {0}
         /\ MinInt(c) \in Int /\ MaxInt(c) \in Nat /\ MinInt(c) <= 0
         /\ Pow2[Width[c]] = MaxInt(c) - MinInt(c) + 1
<1>1. Width[c] \in Nat \ {0} /\ Width[c] - 1 \in Nat /\ Width[c] - 1 + 1 = Width[c]
  BY WidthAssumption
<1>2. Pow2[Width[c]] = 2 * Pow2[Width[c] - 1] /\ Pow2[Width[c] - 1] \in Nat \ {0}
  BY <1>1, PowerSteps, Powers
<1>3. Width[c] <= Width["int64"]
  BY WidthAssumption DEF Integer, Signed, Unsigned
<1> QED BY <1>1, <1>2, <1>3 DEF MinInt, MaxInt

LEMMA OneIsPositive == One \in Nat \ {0}
  BY FloatAssumption, Powers

LEMMA Units ==
  ASSUME NEW k \in Int
  PROVE  k * One \in Int /\ (k * One) \div One = k /\ (k * One) % One = 0
<1>1. k * One = k * One + 0 /\ k * One \in Int /\ 0 \in 0 .. One - 1
  BY OneIsPositive
<1> QED BY <1>1, OneIsPositive, DivisionIsUnique

\* Wrapping leaves what is in the range of the class, and leads into it.
LEMMA Wraps ==
  ASSUME NEW c \in Integer, NEW k \in Int
  PROVE  /\ Wrap(c, k) \in MinInt(c) .. MaxInt(c)
         /\ k \in MinInt(c) .. MaxInt(c) => Wrap(c, k) = k
<1> DEFINE size == Pow2[Width[c]]
           r == k % size
<1>1. size \in Nat \ {0} /\ size = MaxInt(c) - MinInt(c) + 1 /\ MinInt(c) \in Int
      /\ MaxInt(c) \in Nat /\ MinInt(c) <= 0
  BY Widths
<1>2. Wrap(c, k) = IF r > MaxInt(c) THEN r - size ELSE r
  BY DEF Wrap
<1> HIDE DEF size
<1>3. r \in 0 .. size - 1
  BY <1>1
<1> HIDE DEF r
<1>4. Wrap(c, k) \in MinInt(c) .. MaxInt(c)
  BY <1>1, <1>2, <1>3
<1>5. ASSUME k \in 0 .. MaxInt(c)
      PROVE  Wrap(c, k) = k
  <2>1. k = 0 * size + k /\ k \in 0 .. size - 1
    BY <1>1, <1>5
  <2>2. r = k
    BY <1>1, <2>1, DivisionIsUnique DEF r
  <2> QED BY <1>1, <1>2, <1>5, <2>2
<1>6. ASSUME k \in MinInt(c) .. -1
      PROVE  Wrap(c, k) = k
  <2>1. k = (-1) * size + (k + size) /\ k + size \in 0 .. size - 1
    BY <1>1, <1>6
  <2>2. r = k + size
    <3>1. \A q \in Int, m \in 0 .. size - 1 : k = q * size + m => k % size = m
      BY <1>1, DivisionIsUnique
    <3>2. -1 \in Int
      OBVIOUS
    <3> QED BY <2>1, <3>1, <3>2 DEF r
  <2> QED BY <1>1, <1>2, <1>6, <2>2
<1>7. k \in MinInt(c) .. MaxInt(c) => k \in 0 .. MaxInt(c) \/ k \in MinInt(c) .. -1
  BY <1>1
<1> QED BY <1>4, <1>5, <1>6, <1>7

\* Comparing two integers in a class that holds them both compares their values.
LEMMA LessOfIntegers ==
  ASSUME NEW a \in Integer, NEW b \in Integer, CommonClass(a, b) \in Integer,
         NEW j \in MinInt(CommonClass(a, b)) .. MaxInt(CommonClass(a, b)),
         NEW k \in MinInt(CommonClass(a, b)) .. MaxInt(CommonClass(a, b))
  PROVE  Less(a, Int1(j), b, Int1(k)) <=> j < k
<1> DEFINE c == CommonClass(a, b)
<1>1. MinInt(c) \in Int /\ MaxInt(c) \in Int
  BY Widths
<1>2. j \in Int /\ k \in Int
  BY <1>1
<1>3. Wrap(c, j) = j /\ Wrap(c, k) = k
  BY <1>2, Wraps
<1> HIDE DEF c
<1>4. /\ Int1(j).n \div One = j /\ Int1(k).n \div One = k
      /\ Int1(j).n = j * One /\ Int1(k).n = k * One
  BY <1>2, Units, Numbers DEF Int1
<1>5. Convert(c, Int1(j)) = Int1(j) /\ Convert(c, Int1(k)) = Int1(k)
  BY <1>3, <1>4 DEF Convert, c
<1>6. Before(Int1(j), Int1(k)) <=> j * One < k * One
  BY <1>2, <1>4, Units, Numbers DEF Before, Int1
<1>7. NaN \notin {Int1(j), Int1(k)}
  BY <1>2, Units, Numbers DEF Int1
<1>8. j < k <=> j * One < k * One
  BY <1>2, OneIsPositive, Products
<1> QED BY <1>5, <1>6, <1>7, <1>8 DEF Less, c

LEMMA WidthOrder ==
  /\ \A c \in Integer : Promoted(c) \in Integer /\ Width[c] <= Width[Promoted(c)]
  /\ \A c \in Integer : Width["int32"] <= Width[Promoted(c)]
  /\ \A c \in Unsigned :
       Promoted(c) = c \/ (Promoted(c) \in Signed /\ Width[c] < Width[Promoted(c)])
  /\ \A c \in Signed : Promoted(c) \in Signed
  /\ \A c \in Integer : c \in Unsigned <=> c \notin Signed
<1>1. "int32" \in Integer /\ "int32" \in Signed
  BY DEF Integer, Signed
<1>2. \A c \in Integer : Width[c] \in Nat
  BY Widths
<1>3. \A c \in Integer : c \in Unsigned <=> c \notin Signed
  BY DEF Integer, Signed, Unsigned
<1>4. ASSUME NEW c \in Integer
      PROVE  \/ Width[c] < Width["int32"] /\ Promoted(c) = "int32"
             \/ Width["int32"] <= Width[c] /\ Promoted(c) = c
  BY <1>1, <1>2 DEF Promoted
<1>5. Signed \subseteq Integer /\ Unsigned \subseteq Integer
  BY DEF Integer
<1> QED BY <1>1, <1>2, <1>3, <1>4, <1>5

\* The ranges of two classes by their widths.
LEMMA Ranges ==
  ASSUME NEW a \in Integer, NEW b \in Integer, Width[a] <= Width[b]
  PROVE  /\ MinInt(b) <= MinInt(a) \/ (b \in Unsigned /\ a \in Signed)
         /\ MaxInt(a) <= MaxInt(b) \/ (b \in Signed /\ a \in Unsigned /\ Width[a] = Width[b])
<1>1. /\ Width[a] \in Nat /\ Width[b] \in Nat /\ Width[a] - 1 \in Nat /\ Width[b] - 1 \in Nat
      /\ Pow2[Width[a] - 1] \in Nat \ {0} /\ Pow2[Width[b] - 1] \in Nat \ {0}
      /\ Pow2[Width[a]] = 2 * Pow2[Width[a] - 1] /\ Pow2[Width[b]] = 2 * Pow2[Width[b] - 1]
  BY Widths
<1>2. Pow2[Width[a] - 1] <= Pow2[Width[b] - 1]
  <2>1. Width[a] - 1 <= Width[b] - 1
    BY <1>1
  <2> QED BY <1>1, <2>1, PowersGrow, Zenon
<1>3. Width[a] < Width[b] => 2 * Pow2[Width[a] - 1] <= Pow2[Width[b] - 1]
  <2>1. Width[a] < Width[b] => Width[a] - 1 < Width[b] - 1
    BY <1>1
  <2> QED BY <1>1, <2>1, PowersGrow
<1>4. /\ a \in Signed \/ (a \notin Signed /\ a \in Unsigned)
      /\ b \in Signed \/ (b \notin Signed /\ b \in Unsigned)
  BY WidthOrder
<1>5. Width[a] < Width[b] \/ Width[a] = Width[b]
  BY <1>1
<1> QED BY <1>1, <1>2, <1>3, <1>4, <1>5 DEF MinInt, MaxInt

LEMMA WidensTo ==
  ASSUME NEW a \in Integer, NEW c \in Integer, Width[Promoted(a)] <= Width[c],
         c \in Signed /\ Promoted(a) \in Unsigned => Width[Promoted(a)] < Width[c]
  PROVE  MaxInt(a) <= MaxInt(c) /\ (c \in Signed => MinInt(c) <= MinInt(a))
<1>1. /\ Width[a] \in Nat /\ Width[c] \in Nat /\ Width[Promoted(a)] \in Nat
      /\ Promoted(a) \in Integer /\ Width[a] <= Width[Promoted(a)]
  BY WidthOrder, Widths
<1>2. Width[a] <= Width[c]
  BY <1>1
<1>3. a \in Unsigned /\ c \in Signed => Width[a] < Width[c]
  BY <1>1, WidthOrder
<1>4. ~(Width[a] < Width[c] /\ Width[a] = Width[c])
  BY <1>1
<1> QED BY <1>2, <1>3, <1>4, Ranges, WidthOrder

\* The class of a comparison has every value of both operands, or it is unsigned and
\* has all but the negative ones, of which only one operand has any.
LEMMA CommonRange ==
  ASSUME NEW a \in Integer, NEW b \in Integer
  PROVE  LET c == CommonClass(a, b)
         IN  /\ c \in Integer
             /\ MaxInt(a) <= MaxInt(c) /\ MaxInt(b) <= MaxInt(c)
             /\ c \notin Unsigned => MinInt(c) <= MinInt(a) /\ MinInt(c) <= MinInt(b)
             /\ c \in Unsigned /\ a \in Signed => b \in Unsigned /\ MaxInt(a) <= MaxInt(b)
             /\ c \in Unsigned /\ b \in Signed => a \in Unsigned /\ MaxInt(b) <= MaxInt(a)
             /\ c \in Unsigned <=> CommonClass(b, a) \in Unsigned
<1> DEFINE c == CommonClass(a, b)
           p == Promoted(a)
           q == Promoted(b)
           wider(x, y) == IF Width[x] >= Width[y] THEN x ELSE y
           mixed(s, u) == IF Width[u] >= Width[s] THEN u ELSE s
           common(x, y) == IF x \in Signed /\ y \in Unsigned THEN mixed(x, y)
                           ELSE IF x \in Unsigned /\ y \in Signed THEN mixed(y, x)
                           ELSE wider(x, y)
<1>1. CommonClass(a, b) = common(p, q) /\ CommonClass(b, a) = common(q, p)
  BY DEF CommonClass, Integer, Signed, Unsigned
<1>2. /\ p \in Integer /\ q \in Integer /\ Width[p] \in Nat /\ Width[q] \in Nat
      /\ a \in Signed => p \in Signed
      /\ b \in Signed => q \in Signed
      /\ p \in Unsigned => p = a
      /\ q \in Unsigned => q = b
  BY WidthOrder, Widths
<1> HIDE DEF p, q
<1>3. \A x \in Integer : x \in Unsigned <=> x \notin Signed
  BY WidthOrder
<1>4. /\ c \in {p, q} /\ Width[p] <= Width[c] /\ Width[q] <= Width[c]
      /\ c \in Signed /\ p \in Unsigned => Width[p] < Width[c]
      /\ c \in Signed /\ q \in Unsigned => Width[q] < Width[c]
      /\ c \in Unsigned /\ p \in Signed => q \in Unsigned /\ c = q
      /\ c \in Unsigned /\ q \in Signed => p \in Unsigned /\ c = p
      /\ c \in Unsigned <=> common(q, p) \in Unsigned
  BY <1>1, <1>2, <1>3
<1> HIDE DEF c
<1>5. MaxInt(a) <= MaxInt(c) /\ (c \in Signed => MinInt(c) <= MinInt(a))
  BY <1>2, <1>4, WidensTo DEF p
<1>6. MaxInt(b) <= MaxInt(c) /\ (c \in Signed => MinInt(c) <= MinInt(b))
  BY <1>2, <1>4, WidensTo DEF q
<1>7. c \in Integer
  BY <1>2, <1>4
<1>8. c \in Unsigned /\ a \in Signed => b \in Unsigned /\ MaxInt(a) <= MaxInt(b)
  BY <1>2, <1>3, <1>4, <1>5
<1>9. c \in Unsigned /\ b \in Signed => a \in Unsigned /\ MaxInt(b) <= MaxInt(a)
  BY <1>2, <1>3, <1>4, <1>6
<1>10. c \in Unsigned <=> CommonClass(b, a) \in Unsigned
  BY <1>1, <1>4
<1> QED BY <1>3, <1>5, <1>6, <1>7, <1>8, <1>9, <1>10 DEF c

-----------------------------------------------------------------------------
(* The float classes. *)

Unit == CHOOSE u \in 0 .. MaxExp["single"] : One = Pow2[u]

LEMMA Floats ==
  ASSUME NEW c \in Float
  PROVE  /\ Digits[c] \in Nat /\ LeastExp[c] \in Nat /\ MaxExp[c] \in Nat /\ Unit \in Nat
         /\ MaxExp["double"] \in Nat /\ Digits["double"] \in Nat /\ Width["int64"] \in Nat
         /\ One = Pow2[Unit] /\ LeastExp[c] <= Unit /\ Unit + 1 <= MaxExp[c]
         /\ 2 <= Digits[c] /\ Digits[c] + 2 < Width["int64"]
         /\ Unit + Width["int64"] < Digits[c] + MaxExp[c]
         /\ MaxExp[c] <= MaxExp["double"] /\ Digits[c] <= Digits["double"]
         /\ LeastExp["double"] <= LeastExp[c]
<1>1. Unit \in 0 .. MaxExp["single"] /\ One = Pow2[Unit]
  BY FloatAssumption DEF Unit
<1>2. /\ Width["int8"] \in Nat \ {0} /\ Width["int16"] \in Nat /\ Width["int32"] \in Nat
      /\ Width["int64"] \in Nat
  BY WidthAssumption DEF Integer, Signed
<1>3. \A f \in {"single", "double"} : Digits[f] \in Nat /\ LeastExp[f] \in Nat /\ MaxExp[f] \in Nat
  BY FloatAssumption DEF Float
<1>4. /\ 2 <= Digits["single"] /\ Digits["single"] + 2 < Width["int64"]
      /\ Digits["single"] <= Digits["double"] /\ Digits["double"] + 2 < Width["int64"]
  BY <1>2, <1>3, WidthAssumption, FloatAssumption
<1>5. Unit \in Nat /\ Unit + Width["int64"] < Digits["single"] + MaxExp["single"]
  <2>1. Unit \in Nat
    BY <1>1, <1>3
  <2>2. Pow2[Unit + Width["int64"]] < Pow2[Digits["single"] + MaxExp["single"]]
    BY <1>1, <1>2, <2>1, PowerOfSum, FloatAssumption
  <2> QED BY <1>2, <1>3, <2>1, <2>2, PowersGrow
<1>6. LeastExp["single"] <= Unit
  <2>1. Digits["single"] - 1 + LeastExp["single"] \in Nat
    BY <1>3, <1>4
  <2>2. Digits["single"] - 1 + LeastExp["single"] < Unit
    BY <1>1, <1>5, <2>1, PowersGrow, FloatAssumption
  <2> QED BY <1>3, <1>4, <1>5, <2>2
<1>7. LeastExp["double"] <= LeastExp["single"] /\ MaxExp["single"] <= MaxExp["double"]
  BY FloatAssumption
<1> QED BY <1>1, <1>2, <1>3, <1>4, <1>5, <1>6, <1>7 DEF Float

\* A multiple of the spacing 2^e, of no more digits than the class has.
HasSpacing(c, n, e) == n % Pow2[e] = 0 /\ n < Pow2[Digits[c] + e]
Fitting(c, n) == \E e \in LeastExp[c] .. MaxExp[c] : HasSpacing(c, n, e)

\* The exponents that Spacing chooses from reach beyond every number there is.
TopExp == MaxExp["double"] + Digits["double"]

LEMMA Spacings ==
  ASSUME NEW c \in Float, NEW n \in Nat, n < Pow2[Digits[c] + TopExp]
  PROVE  LET e == Spacing(c, n)
         IN  /\ e \in Nat /\ LeastExp[c] <= e /\ n < Pow2[Digits[c] + e]
             /\ e = LeastExp[c] \/ n >= Pow2[Digits[c] - 1 + e]
<1> DEFINE Is(e) == /\ n < Pow2[Digits[c] + e]
                    /\ e = LeastExp[c] \/ n >= Pow2[Digits[c] - 1 + e]
           S == {k \in Nat : LeastExp[c] + k <= TopExp => n >= Pow2[Digits[c] + (LeastExp[c] + k)]}
<1>1. /\ Digits[c] \in Nat /\ Digits[c] - 1 \in Nat /\ LeastExp[c] \in Nat /\ TopExp \in Nat
      /\ LeastExp[c] <= TopExp
  BY Floats DEF TopExp
<1>2. \E e \in LeastExp[c] .. TopExp : Is(e)
  <2>1. SUFFICES ASSUME \A e \in LeastExp[c] .. TopExp : ~Is(e) PROVE FALSE
    OBVIOUS
  <2>2. \A e \in Nat : Pow2[Digits[c] + e] \in Nat
    BY <1>1, Powers
  <2>3. 0 \in S
    BY <1>1, <2>1, <2>2
  <2>4. ASSUME NEW k \in S \cap Nat
        PROVE  k + 1 \in S
    <3> DEFINE e == LeastExp[c] + (k + 1)
    <3>1. SUFFICES ASSUME e <= TopExp PROVE n >= Pow2[Digits[c] + e]
      OBVIOUS
    <3>2. e \in LeastExp[c] .. TopExp /\ e \in Nat /\ Digits[c] - 1 + e = Digits[c] + (LeastExp[c] + k)
      BY <1>1, <3>1
    <3>3. n >= Pow2[Digits[c] - 1 + e]
      BY <1>1, <3>1, <3>2
    <3>4. ~Is(e)
      BY <2>1, <3>2
    <3> QED BY <2>2, <3>2, <3>3, <3>4
  <2> HIDE DEF S
  <2>5. TopExp - LeastExp[c] \in S
    BY <1>1, <2>3, <2>4, SetInduction
  <2>6. LeastExp[c] + (TopExp - LeastExp[c]) = TopExp
    BY <1>1
  <2>7. n >= Pow2[Digits[c] + TopExp]
    BY <1>1, <2>5, <2>6 DEF S
  <2> QED BY <1>1, <2>2, <2>7
<1>3. Spacing(c, n) = CHOOSE e \in LeastExp[c] .. TopExp : Is(e)
  BY DEF Spacing, TopExp
<1> HIDE DEF Is
<1>4. Spacing(c, n) \in LeastExp[c] .. TopExp /\ Is(Spacing(c, n))
  BY <1>2, <1>3
<1> QED BY <1>1, <1>4 DEF Is

\* A multiple of 2^e as such.
LEMMA Multiplier ==
  ASSUME NEW n \in Nat, NEW e \in Nat, n % Pow2[e] = 0
  PROVE  \E p \in Nat : n = p * Pow2[e]
<1>1. Pow2[e] \in Nat \ {0}
  BY Powers
<1>2. n = (n \div Pow2[e]) * Pow2[e] + (n % Pow2[e]) /\ n \div Pow2[e] \in Nat
  BY <1>1, Quotient
<1> QED BY <1>1, <1>2

LEMMA MultipleOf ==
  ASSUME NEW p \in Nat, NEW e \in Nat
  PROVE  p * Pow2[e] \in Nat /\ (p * Pow2[e]) % Pow2[e] = 0
<1>1. Pow2[e] \in Nat \ {0}
  BY Powers
<1>2. p * Pow2[e] \in Nat /\ p * Pow2[e] = p * Pow2[e] + 0 /\ 0 \in 0 .. Pow2[e] - 1
  BY <1>1
<1> QED BY <1>1, <1>2, DivisionIsUnique

\* The neighbours of n among the multiples of its spacing, one of which is nearest.
LEMMA NearestIsNext ==
  ASSUME NEW c \in Float, NEW n \in Nat, n < Pow2[Digits[c] + TopExp]
  PROVE  LET step == Pow2[Spacing(c, n)]
         IN  \E q \in Nat : /\ q * step <= n /\ n < (q + 1) * step
                            /\ \/ Nearest(c, n) = q * step
                               \/ Nearest(c, n) = (q + 1) * step /\ q * step < n
<1> DEFINE step == Pow2[Spacing(c, n)]
           q == n \div step
           r == n % step
<1>1. step \in Nat \ {0}
  BY Spacings, Powers
<1>2. Nearest(c, n) = IF 2 * r > step \/ (2 * r = step /\ q % 2 = 1) THEN (q + 1) * step ELSE q * step
  BY DEF Nearest
<1> HIDE DEF step
<1>3. q \in Nat /\ r \in 0 .. step - 1 /\ n = q * step + r
  BY <1>1, Quotient
<1> HIDE DEF q, r
<1>4. (q + 1) * step = q * step + step /\ q * step \in Nat
  BY <1>1, <1>3
<1>5. q * step <= n /\ n < (q + 1) * step
  BY <1>1, <1>3, <1>4
<1>6. CASE 2 * r > step \/ (2 * r = step /\ q % 2 = 1)
  <2>1. Nearest(c, n) = (q + 1) * step
    BY <1>2, <1>6
  <2>2. q * step < n
    BY <1>1, <1>3, <1>4, <1>6
  <2> QED BY <1>3, <1>5, <2>1, <2>2 DEF step
<1>7. CASE ~(2 * r > step \/ (2 * r = step /\ q % 2 = 1))
  <2>1. Nearest(c, n) = q * step
    BY <1>2, <1>7
  <2> QED BY <1>3, <1>5, <2>1 DEF step
<1> QED BY <1>6, <1>7

\* A number of the class is a multiple of the spacing of everything up to it.
LEMMA SpacingBelow ==
  ASSUME NEW c \in Float, NEW n \in Nat, n < Pow2[Digits[c] + TopExp],
         NEW m \in Nat, n <= m, NEW e \in Nat, LeastExp[c] <= e, HasSpacing(c, m, e)
  PROVE  Spacing(c, n) \in Nat /\ \E p \in Nat : m = p * Pow2[Spacing(c, n)]
<1> DEFINE s == Spacing(c, n)
<1>1. s \in Nat /\ (s = LeastExp[c] \/ n >= Pow2[Digits[c] - 1 + s])
  BY Spacings
<1> HIDE DEF s
<1>2. Digits[c] \in Nat /\ 2 <= Digits[c] /\ LeastExp[c] \in Nat
  BY Floats
<1>3. s <= e
  <2>1. CASE s = LeastExp[c]
    BY <2>1
  <2>2. CASE n >= Pow2[Digits[c] - 1 + s]
    <3>1. Digits[c] - 1 + s \in Nat /\ Digits[c] + e \in Nat
      BY <1>1, <1>2
    <3>2. Pow2[Digits[c] - 1 + s] \in Nat /\ Pow2[Digits[c] + e] \in Nat
      BY <3>1, Powers
    <3>3. Pow2[Digits[c] - 1 + s] < Pow2[Digits[c] + e]
      BY <2>2, <3>2 DEF HasSpacing
    <3>4. Digits[c] - 1 + s < Digits[c] + e
      BY <3>1, <3>3, PowersGrow
    <3> QED BY <1>1, <1>2, <3>4
  <2> QED BY <1>1, <2>1, <2>2
<1>4. m % Pow2[s] = 0
  BY <1>1, <1>3, Multiples DEF HasSpacing
<1> QED BY <1>1, <1>4, Multiplier DEF s

\* Rounding does not pass a number of the class, and leaves it as it is.
LEMMA NearestStaysBelow ==
  ASSUME NEW c \in Float, NEW n \in Nat, n < Pow2[Digits[c] + TopExp],
         NEW m \in Nat, n <= m, NEW e \in Nat, LeastExp[c] <= e, HasSpacing(c, m, e)
  PROVE  /\ Nearest(c, n) \in Nat /\ Nearest(c, n) <= m
         /\ n = m => Nearest(c, n) = n
<1> DEFINE step == Pow2[Spacing(c, n)]
<1>1. PICK p \in Nat : m = p * step
  BY SpacingBelow
<1>2. step \in Nat \ {0}
  BY SpacingBelow, Powers
<1>3. PICK q \in Nat : /\ q * step <= n /\ n < (q + 1) * step
                       /\ \/ Nearest(c, n) = q * step
                          \/ Nearest(c, n) = (q + 1) * step /\ q * step < n
  BY NearestIsNext
<1> HIDE DEF step
<1>4. q * step \in Nat /\ (q + 1) * step \in Nat /\ p * step \in Nat
  BY <1>2
<1>5. CASE Nearest(c, n) = q * step
  <2>1. n = m => q = p
    <3>1. SUFFICES ASSUME n = m PROVE q = p
      OBVIOUS
    <3>2. q * step <= p * step /\ p * step < (q + 1) * step
      BY <1>1, <1>3, <3>1
    <3>3. q <= p /\ p < q + 1
      BY <1>2, <3>2, Products
    <3> QED BY <3>3
  <2> QED BY <1>1, <1>3, <1>4, <1>5, <2>1
<1>6. CASE Nearest(c, n) = (q + 1) * step /\ q * step < n
  <2>1. q * step < p * step
    BY <1>1, <1>4, <1>6
  <2>2. q < p /\ q + 1 \in Int
    BY <1>2, <2>1, Products
  <2>3. q + 1 <= p
    BY <2>2
  <2>4. (q + 1) * step <= p * step
    BY <1>2, <2>3, Products
  <2>5. n # m
    <3>1. SUFFICES ASSUME n = m PROVE FALSE
      OBVIOUS
    <3>2. p * step < (q + 1) * step
      BY <1>1, <1>3, <3>1
    <3> QED BY <1>4, <2>4, <3>2
  <2> QED BY <1>1, <1>4, <1>6, <2>4, <2>5
<1> QED BY <1>3, <1>5, <1>6

\* Nor does it pass one on its way down.
LEMMA NearestStaysAbove ==
  ASSUME NEW c \in Float, NEW n \in Nat, n < Pow2[Digits[c] + TopExp],
         NEW m \in Nat, m <= n, NEW e \in Nat, LeastExp[c] <= e, HasSpacing(c, m, e)
  PROVE  m <= Nearest(c, n)
<1> DEFINE s == Spacing(c, n)
           step == Pow2[s]
<1>1. PICK q \in Nat : /\ q * step <= n /\ n < (q + 1) * step
                       /\ \/ Nearest(c, n) = q * step
                          \/ Nearest(c, n) = (q + 1) * step /\ q * step < n
  BY NearestIsNext
<1>2. s \in Nat /\ (s = LeastExp[c] \/ n >= Pow2[Digits[c] - 1 + s])
  BY Spacings
<1> HIDE DEF s
<1>3. Digits[c] \in Nat /\ 2 <= Digits[c] /\ Digits[c] - 1 \in Nat /\ LeastExp[c] \in Nat
  BY Floats
<1>4. step \in Nat \ {0} /\ Pow2[Digits[c] - 1] \in Nat
  BY <1>2, <1>3, Powers
<1>5. \E p \in Nat : m <= p * step /\ p * step <= n
  <2>1. CASE s <= e
    <3>1. m % Pow2[s] = 0
      BY <1>2, <2>1, Multiples DEF HasSpacing
    <3>2. \E p \in Nat : m = p * step
      BY <1>2, <3>1, Multiplier
    <3> QED BY <3>2
  <2>2. CASE e < s
    <3>1. n >= Pow2[Digits[c] - 1 + s]
      BY <1>2, <1>3, <2>2
    <3>2. Pow2[Digits[c] - 1 + s] = Pow2[Digits[c] - 1] * step
      BY <1>2, <1>3, PowerOfSum
    <3>3. /\ Digits[c] + e \in Nat /\ Digits[c] - 1 + s \in Nat
          /\ Digits[c] + e <= Digits[c] - 1 + s
      BY <1>2, <1>3, <2>2
    <3>4. /\ Pow2[Digits[c] + e] \in Nat /\ Pow2[Digits[c] - 1 + s] \in Nat
          /\ Pow2[Digits[c] + e] <= Pow2[Digits[c] - 1 + s]
      BY <3>3, Powers, PowersGrow
    <3>5. m <= Pow2[Digits[c] - 1 + s]
      BY <3>4 DEF HasSpacing
    <3> QED BY <1>4, <3>1, <3>2, <3>5
  <2> QED BY <1>2, <2>1, <2>2
<1> HIDE DEF step
<1>6. PICK p \in Nat : m <= p * step /\ p * step <= n
  BY <1>5
<1>7. p * step \in Nat /\ q * step \in Nat /\ (q + 1) * step \in Nat /\ (q + 1) * step = q * step + step
  BY <1>4
<1>8. p * step < (q + 1) * step
  BY <1>1, <1>6, <1>7
<1>9. p < q + 1
  BY <1>4, <1>8, Products
<1>10. p * step <= q * step
  <2>1. p <= q
    BY <1>9
  <2> QED BY <1>4, <2>1, Products
<1> QED BY <1>1, <1>4, <1>6, <1>7, <1>10

LEMMA LargestFinite ==
  ASSUME NEW c \in Float
  PROVE  /\ MaxFinite(c) \in Nat /\ MaxFinite(c) < Pow2[Digits[c] + MaxExp[c]]
         /\ Pow2[Digits[c] - 1 + MaxExp[c]] <= MaxFinite(c)
         /\ HasSpacing(c, MaxFinite(c), MaxExp[c]) /\ Fitting(c, MaxFinite(c))
<1> DEFINE d == Pow2[Digits[c] - 1]
           e == Pow2[MaxExp[c]]
<1>1. /\ Digits[c] - 1 \in Nat /\ Digits[c] \in Nat /\ MaxExp[c] \in Nat
      /\ LeastExp[c] \in Nat /\ LeastExp[c] <= MaxExp[c] /\ Digits[c] - 1 + 1 = Digits[c]
  BY Floats
<1>2. /\ d \in Nat \ {0} /\ e \in Nat \ {0} /\ Pow2[Digits[c]] = 2 * d
  BY <1>1, Powers, PowerSteps
<1>3. Pow2[Digits[c] + MaxExp[c]] = (2 * d) * e /\ Pow2[Digits[c] - 1 + MaxExp[c]] = d * e
  <2>1. Pow2[Digits[c] + MaxExp[c]] = Pow2[Digits[c]] * e
    BY <1>1, PowerOfSum
  <2>2. Pow2[(Digits[c] - 1) + MaxExp[c]] = d * e
    BY <1>1, PowerOfSum
  <2> QED BY <1>2, <2>1, <2>2
<1>4. MaxFinite(c) = (2 * d - 1) * e
  BY <1>2 DEF MaxFinite
<1>5. MaxFinite(c) \in Nat /\ MaxFinite(c) % Pow2[MaxExp[c]] = 0
  <2>1. 2 * d - 1 \in Nat
    BY <1>2
  <2> HIDE DEF d
  <2> QED BY <1>1, <1>4, <2>1, MultipleOf
<1> HIDE DEF d, e
<1>6. (2 * d - 1) * e < (2 * d) * e /\ d * e <= (2 * d - 1) * e
  BY <1>2, Products
<1> QED BY <1>1, <1>3, <1>4, <1>5, <1>6 DEF HasSpacing, Fitting

LEMMA FittingIsFinite ==
  ASSUME NEW c \in Float, NEW n \in Nat, Fitting(c, n)
  PROVE  n <= MaxFinite(c)
<1>1. PICK e \in LeastExp[c] .. MaxExp[c] : n % Pow2[e] = 0 /\ n < Pow2[Digits[c] + e]
  BY DEF Fitting, HasSpacing
<1>2. e \in Nat /\ e <= MaxExp[c] /\ MaxExp[c] \in Nat /\ Digits[c] \in Nat
  BY Floats
<1>3. Pow2[e] \in Nat \ {0} /\ Pow2[MaxExp[c]] \in Nat \ {0} /\ Pow2[Digits[c]] \in Nat \ {0}
      /\ Pow2[e] <= Pow2[MaxExp[c]]
  BY <1>2, Powers, PowersGrow
<1>4. PICK p \in Nat : n = p * Pow2[e]
  BY <1>1, <1>2, Multiplier
<1>5. p < Pow2[Digits[c]]
  <2>1. Pow2[Digits[c] + e] = Pow2[Digits[c]] * Pow2[e]
    BY <1>2, PowerOfSum
  <2> QED BY <1>1, <1>3, <1>4, <2>1, Products
<1> DEFINE top == Pow2[Digits[c]] - 1
<1>6. top \in Nat /\ p <= top
  BY <1>3, <1>5
<1> HIDE DEF top
<1>7. p * Pow2[e] <= top * Pow2[e]
  BY <1>3, <1>6, Products
<1>8. top * Pow2[e] <= top * Pow2[MaxExp[c]]
  BY <1>3, <1>6
<1>9. top * Pow2[e] \in Nat /\ top * Pow2[MaxExp[c]] \in Nat
  BY <1>3, <1>6
<1> QED BY <1>4, <1>7, <1>8, <1>9 DEF MaxFinite, top

LEMMA PowerFits ==
  ASSUME NEW c \in Float, NEW e \in Nat, LeastExp[c] <= e
  PROVE  /\ Pow2[e] \in Nat /\ HasSpacing(c, Pow2[e], e)
         /\ e < Digits[c] + MaxExp[c] => Fitting(c, Pow2[e])
<1>1. /\ Digits[c] \in Nat \ {0} /\ MaxExp[c] \in Nat /\ LeastExp[c] \in Nat
      /\ LeastExp[c] <= MaxExp[c]
  BY Floats
<1>2. Pow2[e] \in Nat \ {0}
  BY Powers
<1>3. Pow2[e] % Pow2[e] = 0
  <2>1. 1 * Pow2[e] = Pow2[e]
    BY <1>2
  <2> QED BY <2>1, MultipleOf
<1>4. Pow2[e] < Pow2[Digits[c] + e]
  BY <1>1, PowersGrow
<1>5. CASE e <= MaxExp[c]
  BY <1>1, <1>2, <1>3, <1>4, <1>5 DEF HasSpacing, Fitting
<1>6. CASE MaxExp[c] < e
  <2>1. Pow2[e] % Pow2[MaxExp[c]] = 0
    BY <1>1, <1>2, <1>3, <1>6, Multiples
  <2>2. e < Digits[c] + MaxExp[c] => Pow2[e] < Pow2[Digits[c] + MaxExp[c]]
    BY <1>1, PowersGrow
  <2> QED BY <1>1, <1>2, <1>3, <1>4, <2>1, <2>2 DEF HasSpacing, Fitting
<1> QED BY <1>1, <1>5, <1>6

\* What rounding leads to is in the class unless it is beyond its largest number.
LEMMA NearestFits ==
  ASSUME NEW c \in Float, NEW n \in Nat, n < Pow2[Digits[c] + TopExp]
  PROVE  Nearest(c, n) \in Nat /\ (Nearest(c, n) <= MaxFinite(c) => Fitting(c, Nearest(c, n)))
<1> DEFINE e == Spacing(c, n)
           step == Pow2[e]
           most == Pow2[Digits[c]]
           half == Pow2[Digits[c] - 1]
<1>1. /\ Digits[c] \in Nat /\ 2 <= Digits[c] /\ Digits[c] - 1 \in Nat
      /\ LeastExp[c] \in Nat /\ MaxExp[c] \in Nat /\ LeastExp[c] <= MaxExp[c]
  BY Floats
<1>2. /\ e \in Nat /\ LeastExp[c] <= e /\ n < Pow2[Digits[c] + e]
      /\ e = LeastExp[c] \/ n >= Pow2[Digits[c] - 1 + e]
  BY Spacings
<1>3. PICK q \in Nat : /\ q * step <= n /\ n < (q + 1) * step
                       /\ \/ Nearest(c, n) = q * step
                          \/ Nearest(c, n) = (q + 1) * step /\ q * step < n
  BY NearestIsNext
<1> HIDE DEF e
<1>4. /\ step \in Nat \ {0} /\ most \in Nat \ {0} /\ half \in Nat \ {0} /\ most = 2 * half
      /\ Pow2[Digits[c] + e] = most * step /\ Pow2[Digits[c] - 1 + e] = half * step
  <2>1. Digits[c] - 1 + 1 = Digits[c]
    BY <1>1
  <2>2. most = 2 * half
    BY <1>1, <2>1, PowerSteps
  <2>3. Pow2[Digits[c] + e] = most * step /\ Pow2[Digits[c] - 1 + e] = half * step
    BY <1>1, <1>2, PowerOfSum
  <2> QED BY <1>1, <1>2, <2>2, <2>3, Powers
<1>5. PICK p \in Nat : p \in {q, q + 1} /\ Nearest(c, n) = p * step
  BY <1>3
<1>6. p <= most /\ (e = LeastExp[c] \/ half <= p)
  <2>1. q * step < most * step
    BY <1>2, <1>3, <1>4
  <2>2. q < most
    BY <1>4, <2>1, Products
  <2>3. n >= half * step => half <= q
    <3>1. SUFFICES ASSUME n >= half * step PROVE half <= q
      OBVIOUS
    <3>2. half * step < (q + 1) * step
      BY <1>3, <1>4, <3>1
    <3>3. half < q + 1
      BY <1>4, <3>2, Products
    <3> QED BY <1>4, <3>3
  <2> QED BY <1>2, <1>4, <1>5, <2>2, <2>3
<1>7. Nearest(c, n) \in Nat /\ Nearest(c, n) % Pow2[e] = 0
  BY <1>2, <1>5, MultipleOf
<1>8. SUFFICES ASSUME Nearest(c, n) <= MaxFinite(c) PROVE Fitting(c, Nearest(c, n))
  BY <1>7
<1>9. Nearest(c, n) < Pow2[Digits[c] + MaxExp[c]] /\ Pow2[Digits[c] + MaxExp[c]] \in Nat
  BY <1>1, <1>7, <1>8, LargestFinite, Powers
<1>10. e <= MaxExp[c]
  <2>1. SUFFICES ASSUME e # LeastExp[c] PROVE e <= MaxExp[c]
    BY <1>1
  <2>2. half * step <= p * step
    BY <1>4, <1>6, <2>1, Products
  <2>3. Pow2[Digits[c] - 1 + e] < Pow2[Digits[c] + MaxExp[c]]
    BY <1>4, <1>5, <1>7, <1>9, <2>2
  <2>4. Digits[c] - 1 + e \in Nat /\ Digits[c] + MaxExp[c] \in Nat
    BY <1>1, <1>2
  <2>5. Digits[c] - 1 + e < Digits[c] + MaxExp[c]
    BY <2>3, <2>4, PowersGrow
  <2> QED BY <1>1, <1>2, <2>5
<1>11. CASE p < most
  <2>1. p * step < most * step
    BY <1>4, <1>11, Products
  <2>2. HasSpacing(c, Nearest(c, n), e)
    BY <1>4, <1>5, <1>7, <2>1 DEF HasSpacing
  <2> QED BY <1>1, <1>2, <1>10, <2>2 DEF Fitting
<1>12. CASE p = most
  <2>1. Nearest(c, n) = Pow2[Digits[c] + e] /\ Digits[c] + e \in Nat
    BY <1>1, <1>2, <1>4, <1>5, <1>12
  <2>2. Digits[c] + e < Digits[c] + MaxExp[c]
    <3>1. Pow2[Digits[c] + e] < Pow2[Digits[c] + MaxExp[c]] /\ Digits[c] + MaxExp[c] \in Nat
      BY <1>1, <1>9, <2>1
    <3> QED BY <2>1, <3>1, PowersGrow
  <2>3. LeastExp[c] <= Digits[c] + e
    BY <1>1, <1>2
  <2> QED BY <2>1, <2>2, <2>3, PowerFits
<1> QED BY <1>4, <1>6, <1>11, <1>12

Size(n) == IF n < 0 THEN -n ELSE n

LEMMA FittingWidens ==
  ASSUME NEW c \in Float, NEW n \in Nat, Fitting(c, n)
  PROVE  Fitting("double", n) /\ n < Pow2[TopExp]
<1>1. PICK e \in LeastExp[c] .. MaxExp[c] : n % Pow2[e] = 0 /\ n < Pow2[Digits[c] + e]
  BY DEF Fitting, HasSpacing
<1>2. /\ LeastExp[c] \in Nat /\ MaxExp[c] \in Nat /\ LeastExp["double"] <= LeastExp[c]
      /\ MaxExp[c] <= MaxExp["double"] /\ Digits[c] <= Digits["double"]
      /\ MaxExp["double"] \in Nat /\ Digits["double"] \in Nat /\ Digits[c] \in Nat
  BY Floats
<1>3. LeastExp["double"] \in Nat
  BY Floats DEF Float
<1>4. e \in Nat /\ e \in LeastExp["double"] .. MaxExp["double"]
  BY <1>2, <1>3
<1>5. /\ Digits[c] + e \in Nat /\ Digits["double"] + e \in Nat /\ TopExp \in Nat
      /\ Digits[c] + e <= Digits["double"] + e /\ Digits["double"] + e <= TopExp
  BY <1>2, <1>4 DEF TopExp
<1>6. /\ Pow2[Digits[c] + e] \in Nat /\ Pow2[Digits["double"] + e] \in Nat /\ Pow2[TopExp] \in Nat
      /\ Pow2[Digits[c] + e] <= Pow2[Digits["double"] + e] /\ Pow2[Digits["double"] + e] <= Pow2[TopExp]
  BY <1>5, Powers, PowersGrow
<1>7. n < Pow2[Digits["double"] + e] /\ n < Pow2[TopExp]
  BY <1>1, <1>6
<1> QED BY <1>1, <1>4, <1>7 DEF Fitting, HasSpacing

LEMMA InReach ==
  ASSUME NEW c \in Float, NEW n \in Nat, n < Pow2[TopExp]
  PROVE  n < Pow2[Digits[c] + TopExp]
<1>1. Digits[c] \in Nat /\ TopExp \in Nat
  BY Floats DEF TopExp
<1>2. Pow2[TopExp] <= Pow2[Digits[c] + TopExp] /\ Pow2[TopExp] \in Nat /\ Pow2[Digits[c] + TopExp] \in Nat
  BY <1>1, Powers, PowersGrow
<1> QED BY <1>2

LEMMA ZeroFits ==
  ASSUME NEW c \in Float
  PROVE  Fitting(c, 0)
<1>1. LeastExp[c] \in LeastExp[c] .. MaxExp[c] /\ LeastExp[c] \in Nat /\ Digits[c] + LeastExp[c] \in Nat
  BY Floats
<1>2. Pow2[LeastExp[c]] \in Nat \ {0} /\ Pow2[Digits[c] + LeastExp[c]] \in Nat \ {0}
  BY <1>1, Powers
<1> QED BY <1>1, <1>2 DEF Fitting, HasSpacing

\* What rounding makes of a finite number.
LEMMA Rounds ==
  ASSUME NEW c \in Float, NEW n \in Int
  PROVE  LET w == Nearest(c, Size(n))
         IN  Round(c, Num(n)) = IF w > MaxFinite(c) THEN IF n < 0 THEN NegInf ELSE PosInf
                                ELSE Num(IF n < 0 THEN -w ELSE w)
<1>1. Fabs(Num(n)).n = Size(n) /\ Finite(Num(n)) /\ Num(n).n = n
  <2>1. Size(n) \in Int
    BY DEF Size
  <2> QED BY <2>1, Numbers DEF Size
<1> QED BY <1>1 DEF Round

LEMMA RoundKeeps ==
  ASSUME NEW c \in Float, NEW n \in Int, Fitting(c, Size(n))
  PROVE  Round(c, Num(n)) = Num(n)
<1>1. Size(n) \in Nat
  BY DEF Size
<1>2. PICK e \in LeastExp[c] .. MaxExp[c] : HasSpacing(c, Size(n), e)
  BY DEF Fitting
<1>3. e \in Nat /\ LeastExp[c] <= e
  BY Floats
<1>4. Nearest(c, Size(n)) = Size(n)
  BY <1>1, <1>2, <1>3, FittingWidens, InReach, NearestStaysBelow
<1>5. Size(n) <= MaxFinite(c) /\ MaxFinite(c) \in Nat
  BY <1>1, FittingIsFinite, LargestFinite
<1> QED BY <1>1, <1>4, <1>5, Rounds DEF Size

LEMMA RoundStaysBelow ==
  ASSUME NEW c \in Float, NEW n \in Nat, NEW m \in Nat, n <= m, Fitting(c, m)
  PROVE  \E w \in Nat : /\ w <= m /\ Round(c, Num(n)) = Num(w)
                        /\ \A l \in Nat : Fitting(c, l) /\ l <= n => l <= w
<1>1. PICK e \in LeastExp[c] .. MaxExp[c] : HasSpacing(c, m, e)
  BY DEF Fitting
<1>2. e \in Nat /\ LeastExp[c] <= e
  BY Floats
<1>3. m < Pow2[TopExp] /\ Pow2[TopExp] \in Int
  <2>1. TopExp \in Nat
    BY Floats DEF TopExp
  <2> QED BY <2>1, FittingWidens, Powers
<1>4. n < Pow2[TopExp] /\ Size(n) = n
  BY <1>3 DEF Size
<1>5. Nearest(c, n) \in Nat /\ Nearest(c, n) <= m
  BY <1>1, <1>2, <1>4, InReach, NearestStaysBelow
<1>6. m <= MaxFinite(c) /\ MaxFinite(c) \in Nat
  BY FittingIsFinite, LargestFinite
<1>7. ASSUME NEW l \in Nat, Fitting(c, l), l <= n
      PROVE  l <= Nearest(c, n)
  <2>1. PICK f \in LeastExp[c] .. MaxExp[c] : HasSpacing(c, l, f)
    BY <1>7 DEF Fitting
  <2>2. f \in Nat /\ LeastExp[c] <= f
    BY Floats
  <2> QED BY <1>4, <1>7, <2>1, <2>2, InReach, NearestStaysAbove
<1>8. Round(c, Num(n)) = Num(Nearest(c, n))
  BY <1>4, <1>5, <1>6, Rounds
<1> QED BY <1>5, <1>7, <1>8

\* Holds, of a float class.
LEMMA HoldsFloat ==
  ASSUME NEW c \in Float
  PROVE  /\ \A n \in Int : Holds(c, Num(n)) <=> Fitting(c, Size(n))
         /\ \A v \in {PosInf, NegInf, NaN} : Holds(c, v)
<1>1. c \notin Integer
  BY DEF Float, Integer, Signed, Unsigned
<1>2. \A n \in Int : Fabs(Num(n)).n = Size(n) /\ Finite(Num(n))
  <2>1. \A n \in Int : Size(n) \in Int
    BY DEF Size
  <2> QED BY <2>1, Numbers DEF Size
<1>3. \A v \in {PosInf, NegInf, NaN} : ~Finite(v)
  BY DEF Finite, PosInf, NegInf, NaN
<1> QED BY <1>1, <1>2, <1>3 DEF Holds, Fitting, HasSpacing

LEMMA RoundsToClass ==
  ASSUME NEW c \in Float, NEW n \in Int, Size(n) < Pow2[TopExp]
  PROVE  Holds(c, Round(c, Num(n)))
<1> DEFINE w == Nearest(c, Size(n))
<1>1. Size(n) \in Nat
  BY DEF Size
<1>2. w \in Nat /\ (w <= MaxFinite(c) => Fitting(c, w)) /\ MaxFinite(c) \in Nat
  BY <1>1, InReach, NearestFits, LargestFinite
<1>3. Round(c, Num(n)) = IF w > MaxFinite(c) THEN IF n < 0 THEN NegInf ELSE PosInf
                         ELSE Num(IF n < 0 THEN -w ELSE w)
  BY Rounds
<1> HIDE DEF w
<1>4. CASE w > MaxFinite(c)
  BY <1>3, <1>4, HoldsFloat
<1>5. CASE w <= MaxFinite(c)
  <2> DEFINE z == IF n < 0 THEN -w ELSE w
  <2>1. z \in Int /\ Size(z) = w /\ Round(c, Num(n)) = Num(z)
    BY <1>2, <1>3, <1>5 DEF Size
  <2> QED BY <1>2, <1>5, <2>1, HoldsFloat
<1> QED BY <1>2, <1>4, <1>5

-----------------------------------------------------------------------------
(* The elements of a class, and comparisons with a float. *)

LEMMA FloatElements ==
  ASSUME NEW c \in Float, NEW v \in Values(c)
  PROVE  v \in {PosInf, NegInf, NaN} \/ \E n \in Int : v = Num(n) /\ Fitting(c, Size(n))
<1>1. c \notin Integer
  BY DEF Float, Integer, Signed, Unsigned
<1>2. SUFFICES ASSUME v \in FiniteFloats(c)
               PROVE  \E n \in Int : v = Num(n) /\ Fitting(c, Size(n))
  BY <1>1 DEF Values
<1>3. PICK m \in 0 .. Pow2[Digits[c]] - 1, e \in LeastExp[c] .. MaxExp[c] :
        v = Num(m * Pow2[e]) \/ v = Num(-(m * Pow2[e]))
  BY <1>2 DEF FiniteFloats
<1>4. Digits[c] \in Nat /\ e \in Nat
  BY Floats
<1>5. Pow2[Digits[c]] \in Nat \ {0} /\ Pow2[e] \in Nat \ {0}
  BY <1>4, Powers
<1> DEFINE n == m * Pow2[e]
<1>6. n \in Nat /\ n % Pow2[e] = 0
  BY <1>4, MultipleOf
<1>7. n < Pow2[Digits[c] + e]
  <2>1. Pow2[Digits[c] + e] = Pow2[Digits[c]] * Pow2[e]
    BY <1>4, PowerOfSum
  <2> QED BY <1>5, <2>1, Products
<1> HIDE DEF n
<1>8. Fitting(c, n)
  BY <1>6, <1>7 DEF Fitting, HasSpacing
<1>9. n \in Int /\ -n \in Int /\ Size(n) = n /\ Size(-n) = n
  BY <1>6 DEF Size
<1> QED BY <1>3, <1>8, <1>9 DEF n

LEMMA IntegerElements ==
  ASSUME NEW c \in Integer
  PROVE  /\ \A v \in Values(c) : \E k \in MinInt(c) .. MaxInt(c) : v = Int1(k)
         /\ \A k \in Int : Holds(c, Int1(k)) <=> k \in MinInt(c) .. MaxInt(c)
         /\ \A k \in MinInt(c) .. MaxInt(c) : Int1(k) \in Values(c)
<1>1. MinInt(c) \in Int /\ MaxInt(c) \in Int
  BY Widths
<1>2. \A k \in Int : Finite(Int1(k)) /\ Int1(k).n % One = 0 /\ Int1(k).n \div One = k
  BY Units, Numbers DEF Int1
<1> QED BY <1>1, <1>2 DEF Values, Holds

LEMMA SizeOfInteger ==
  ASSUME NEW k \in Int
  PROVE  /\ Size(k) \in Nat /\ k * One \in Int /\ Size(k) * One \in Nat
         /\ Size(k * One) = Size(k) * One
<1>1. k * One \in Int /\ (-k) * One = -(k * One) /\ Size(k) \in Nat
  BY OneIsPositive DEF Size
<1>2. k < 0 <=> k * One < 0 * One
  BY OneIsPositive, Products
<1>3. Size(k) * One \in Nat
  BY <1>1, OneIsPositive
<1> QED BY <1>1, <1>2, <1>3, OneIsPositive DEF Size

\* An integer of any class is far within the range of the floats.
LEMMA IntegersInRange ==
  ASSUME NEW c \in Integer, NEW k \in MinInt(c) .. MaxInt(c)
  PROVE  k \in Int /\ k * One \in Int /\ Size(k * One) < Pow2[TopExp]
<1>1. /\ MinInt(c) \in Int /\ MaxInt(c) \in Nat /\ MinInt(c) <= 0
      /\ Pow2[Width[c]] = MaxInt(c) - MinInt(c) + 1
      /\ Width[c] \in Nat /\ Width[c] <= Width["int64"]
  BY Widths
<1>2. /\ Unit \in Nat /\ One = Pow2[Unit] /\ Width["int64"] \in Nat /\ TopExp \in Nat
      /\ Unit + Width["int64"] < TopExp
  BY Floats DEF Float, TopExp
<1>3. Pow2[Width[c]] * One = Pow2[Width[c] + Unit]
  BY <1>1, <1>2, PowerOfSum
<1>4. Pow2[Width[c] + Unit] < Pow2[TopExp]
  <2>1. Width[c] + Unit \in Nat /\ Width[c] + Unit < TopExp
    BY <1>1, <1>2
  <2> QED BY <1>2, <2>1, PowersGrow
<1>5. k \in Int /\ Size(k) \in Nat /\ Size(k) <= Pow2[Width[c]]
  BY <1>1 DEF Size
<1>6. One \in Nat \ {0} /\ Pow2[Width[c]] \in Nat /\ Pow2[TopExp] \in Nat
  BY <1>1, <1>2, OneIsPositive, Powers
<1>7. Size(k) * One <= Pow2[Width[c]] * One
  BY <1>5, <1>6, Products
<1>8. k * One \in Int /\ Size(k) * One \in Nat /\ Size(k * One) = Size(k) * One
  BY <1>5, SizeOfInteger
<1> QED BY <1>3, <1>4, <1>5, <1>6, <1>7, <1>8

LEMMA CommonOfFloat ==
  /\ \A s \in Float, d \in Integer : CommonClass(s, d) = s /\ CommonClass(d, s) = s
  /\ CommonClass("single", "double") = "double" /\ CommonClass("double", "single") = "double"
  BY DEF CommonClass, Float, Integer, Signed, Unsigned

LEMMA LessOfFloats ==
  ASSUME NEW a, NEW b, NEW x, NEW y, CommonClass(a, b) \in Float
  PROVE  Less(a, x, b, y) <=>
           /\ NaN \notin {x, y}
           /\ Before(Round(CommonClass(a, b), x), Round(CommonClass(a, b), y))
<1>1. CommonClass(a, b) \notin Integer
  BY DEF Float, Integer, Signed, Unsigned
<1> QED BY <1>1 DEF Less, Convert

LEMMA BeforeOfNumbers ==
  ASSUME NEW m \in Int, NEW n \in Int
  PROVE  /\ Before(Num(m), Num(n)) <=> m < n
         /\ Before(Num(m), PosInf) /\ Before(NegInf, Num(m)) /\ Before(NegInf, PosInf)
         /\ ~Before(PosInf, Num(m)) /\ ~Before(Num(m), NegInf) /\ ~Before(PosInf, NegInf)
  BY Numbers DEF Before

LEMMA RoundOfNonFinite ==
  \A c, v : ~Finite(v) => Round(c, v) = v
  BY DEF Round

-----------------------------------------------------------------------------
(* From a float to an integer. *)

\* The limits of an integer class, as a float class has them.
LEMMA LimitsAsFloats ==
  ASSUME NEW s \in Float, NEW d \in Integer
  PROVE  /\ Round(s, MinOf(d)) = MinOf(d) /\ MinOf(d) = Num(MinInt(d) * One)
         /\ \E w \in Nat :
              /\ w <= (MaxInt(d) + 1) * One /\ Round(s, MaxOf(d)) = Num(w)
              /\ \A l \in Nat : Fitting(s, l) /\ l <= MaxInt(d) * One => l <= w
<1>1. /\ Width[d] \in Nat /\ Width[d] - 1 \in Nat /\ Width[d] <= Width["int64"]
      /\ MinInt(d) \in Int /\ MaxInt(d) \in Nat
  BY Widths
<1>2. /\ Unit \in Nat /\ One = Pow2[Unit] /\ LeastExp[s] \in Nat /\ LeastExp[s] <= Unit
      /\ Unit + Width["int64"] < Digits[s] + MaxExp[s]
      /\ Width["int64"] \in Nat /\ Digits[s] \in Nat /\ MaxExp[s] \in Nat
  BY Floats
<1>3. ASSUME NEW w \in Nat, w <= Width[d]
      PROVE  Pow2[w] * One \in Nat /\ Fitting(s, Pow2[w] * One)
  <2>1. w + Unit \in Nat /\ LeastExp[s] <= w + Unit /\ w + Unit < Digits[s] + MaxExp[s]
    BY <1>1, <1>2, <1>3
  <2>2. Pow2[w + Unit] = Pow2[w] * One
    BY <1>2, PowerOfSum
  <2> QED BY <2>1, <2>2, PowerFits
<1>4. Round(s, MinOf(d)) = MinOf(d) /\ MinOf(d) = Num(MinInt(d) * One)
  <2>1. MinOf(d) = Num(MinInt(d) * One) /\ MinInt(d) * One \in Int
    BY <1>1, OneIsPositive DEF MinOf, Int1
  <2>2. Fitting(s, Size(MinInt(d) * One))
    <3>1. CASE d \in Signed
      <4> DEFINE m == Pow2[Width[d] - 1]
      <4>1. m * One \in Nat /\ Fitting(s, m * One) /\ m \in Nat
        BY <1>1, <1>3, Powers
      <4>2. MinInt(d) * One = -(m * One)
        BY <3>1, <4>1, OneIsPositive DEF MinInt
      <4> HIDE DEF m
      <4>3. Size(-(m * One)) = m * One
        BY <4>1 DEF Size
      <4> QED BY <4>1, <4>2, <4>3
    <3>2. CASE d \notin Signed
      <4>1. MinInt(d) * One = 0 /\ Size(0) = 0
        BY <3>2, OneIsPositive DEF MinInt, Size
      <4> QED BY <4>1, ZeroFits
    <3> QED BY <3>1, <3>2
  <2> QED BY <2>1, <2>2, RoundKeeps
<1>5. \E w \in Nat :
        /\ w <= (MaxInt(d) + 1) * One /\ Round(s, MaxOf(d)) = Num(w)
        /\ \A l \in Nat : Fitting(s, l) /\ l <= MaxInt(d) * One => l <= w
  <2>1. MaxOf(d) = Num(MaxInt(d) * One) /\ MaxInt(d) * One \in Nat
    BY <1>1, OneIsPositive DEF MaxOf, Int1
  <2>2. PICK w \in Nat : w <= Width[d] /\ MaxInt(d) + 1 = Pow2[w]
    <3>1. Pow2[Width[d]] \in Nat /\ Pow2[Width[d] - 1] \in Nat
      BY <1>1, Powers
    <3> QED BY <1>1, <3>1 DEF MaxInt
  <2>3. (MaxInt(d) + 1) * One \in Nat /\ Fitting(s, (MaxInt(d) + 1) * One)
    BY <1>3, <2>2
  <2>4. MaxInt(d) * One <= (MaxInt(d) + 1) * One
    BY <1>1, OneIsPositive, Products
  <2> QED BY <2>1, <2>3, <2>4, RoundStaysBelow
<1> QED BY <1>4, <1>5

LEMMA FloatsAsInteger ==
  ASSUME NEW s \in Float, NEW d \in Integer
  PROVE  /\ \A v \in {PosInf, NegInf, NaN} : RefusesFloat(s, d, v)
         /\ \A n \in Int : Fitting(s, Size(n)) /\ ~RefusesFloat(s, d, Num(n)) =>
              MinInt(d) * One <= n /\ n <= (MaxInt(d) + 1) * One
         /\ \A n \in Int : Fitting(s, Size(n)) /\ RefusesFloat(s, d, Num(n)) =>
              n < MinInt(d) * One \/ n > MaxInt(d) * One
<1>1. CommonClass(d, s) = s /\ CommonClass(s, d) = s
  BY CommonOfFloat
<1>2. \A v \in {PosInf, NegInf, NaN} : RefusesFloat(s, d, v)
  BY DEF RefusesFloat, Finite, PosInf, NegInf, NaN
<1>3. ASSUME NEW n \in Int, Fitting(s, Size(n))
      PROVE  /\ ~RefusesFloat(s, d, Num(n)) =>
                  MinInt(d) * One <= n /\ n <= (MaxInt(d) + 1) * One
             /\ RefusesFloat(s, d, Num(n)) => n < MinInt(d) * One \/ n > MaxInt(d) * One
  <2>1. Round(s, Num(n)) = Num(n)
    BY <1>3, RoundKeeps
  <2>2. /\ MinInt(d) \in Int /\ MaxInt(d) \in Nat /\ MinInt(d) * One \in Int
        /\ (MaxInt(d) + 1) * One \in Int /\ MaxInt(d) * One \in Nat
    BY Widths, OneIsPositive
  <2>3. Round(s, MinOf(d)) = Num(MinInt(d) * One) /\ MinOf(d) = Num(MinInt(d) * One)
    BY LimitsAsFloats
  <2>4. PICK w \in Nat : /\ w <= (MaxInt(d) + 1) * One /\ Round(s, MaxOf(d)) = Num(w)
                         /\ \A l \in Nat : Fitting(s, l) /\ l <= MaxInt(d) * One => l <= w
    BY LimitsAsFloats
  <2>5. NaN \notin {Num(n), MinOf(d), MaxOf(d)}
    <3>1. MaxInt(d) * One \in Int /\ MaxOf(d) = Num(MaxInt(d) * One)
      BY <2>2, OneIsPositive DEF MaxOf, Int1
    <3> QED BY <2>2, <2>3, <3>1, Numbers
  <2>6. /\ Less(d, MaxOf(d), s, Num(n)) <=> Before(Num(w), Num(n))
        /\ Less(s, Num(n), d, MinOf(d)) <=> Before(Num(n), Num(MinInt(d) * One))
    BY <1>1, <2>1, <2>3, <2>4, <2>5, LessOfFloats
  <2>7. RefusesFloat(s, d, Num(n)) <=> w < n \/ n < MinInt(d) * One
    BY <2>2, <2>6, BeforeOfNumbers, Numbers DEF RefusesFloat
  <2>8. n <= MaxInt(d) * One => n <= w
    <3>1. n >= 0 => Size(n) = n /\ n \in Nat
      BY DEF Size
    <3> QED BY <1>3, <2>4, <3>1
  <2> QED BY <2>2, <2>4, <2>7, <2>8
<1> QED BY <1>2, <1>3

\* Cutting the fraction off.
LEMMA Truncates ==
  ASSUME NEW n \in Int
  PROVE  \E t \in Int : /\ Truncated(Num(n)) = Int1(t)
                        /\ n >= 0 => t >= 0 /\ t * One <= n /\ n < (t + 1) * One
                        /\ n < 0 => t <= 0 /\ n <= t * One /\ (t - 1) * One < n
<1>1. Num(n).n = n /\ One \in Nat \ {0}
  BY Numbers, OneIsPositive
<1>2. CASE n >= 0
  <2> DEFINE t == n \div One
  <2>1. Truncated(Num(n)) = Int1(t)
    BY <1>1, <1>2 DEF Truncated
  <2> n \in Nat
    BY <1>2
  <2>2. t \in Nat /\ n % One \in 0 .. One - 1 /\ n = t * One + (n % One)
    BY <1>1, Quotient
  <2> HIDE DEF t
  <2>3. (t + 1) * One = t * One + One /\ t * One \in Nat
    BY <1>1, <2>2
  <2> QED BY <1>1, <1>2, <2>1, <2>2, <2>3
<1>3. CASE n < 0
  <2> DEFINE m == -n
             p == m \div One
  <2>1. Truncated(Num(n)) = Int1(-p)
    BY <1>1, <1>3 DEF Truncated
  <2>2. m \in Nat
    BY <1>3
  <2>3. p \in Nat /\ m % One \in 0 .. One - 1 /\ m = p * One + (m % One)
    BY <1>1, <2>2, Quotient
  <2> HIDE DEF p
  <2>4. (-p) * One = -(p * One) /\ (-p - 1) * One = -(p * One) - One /\ p * One \in Nat
    BY <1>1, <2>3
  <2>5. n <= (-p) * One /\ (-p - 1) * One < n
    BY <1>1, <1>3, <2>3, <2>4
  <2> QED BY <1>3, <2>1, <2>3, <2>5
<1> QED BY <1>2, <1>3

\* What is accepted and below the upper limit of the float can be held when truncated.
LEMMA TruncationHolds ==
  ASSUME NEW d \in Integer, NEW n \in Int, NEW t \in Int,
         MinInt(d) * One <= n, n < (MaxInt(d) + 1) * One,
         n >= 0 => t >= 0 /\ t * One <= n /\ n < (t + 1) * One,
         n < 0 => t <= 0 /\ n <= t * One /\ (t - 1) * One < n
  PROVE  t \in MinInt(d) .. MaxInt(d)
<1>1. MinInt(d) \in Int /\ MaxInt(d) \in Nat /\ MinInt(d) <= 0 /\ One \in Nat \ {0}
  BY Widths, OneIsPositive
<1>2. MinInt(d) * One \in Int /\ (MaxInt(d) + 1) * One \in Int /\ t * One \in Int
  BY <1>1
<1>3. CASE n >= 0
  <2>1. t * One < (MaxInt(d) + 1) * One
    BY <1>2, <1>3
  <2>2. t < MaxInt(d) + 1
    BY <1>1, <2>1, Products
  <2> QED BY <1>1, <1>3, <2>2
<1>4. CASE n < 0
  <2>1. MinInt(d) * One <= t * One
    BY <1>2, <1>4
  <2>2. MinInt(d) <= t
    BY <1>1, <2>1, Products
  <2> QED BY <1>1, <1>4, <2>2
<1> QED BY <1>3, <1>4

-----------------------------------------------------------------------------
(* The four conversions, of a value of a class s to a class d. *)

LEMMA IntegerToIntegers ==
  ASSUME NEW s \in Integer, NEW d \in Integer, NEW k \in MinInt(s) .. MaxInt(s)
  PROVE  /\ \A o \in IntegerToInteger(s, d, Int1(k)) :
              o = Refused \/ \E j \in MinInt(d) .. MaxInt(d) :
                               o = Got(Int1(j)) /\ (k \in MinInt(d) .. MaxInt(d) => j = k)
         /\ \/ s \in Signed /\ d \in Unsigned /\ k < 0 /\ CommonClass(s, d) \in Unsigned
            \/ RefusesInteger(s, d, Int1(k)) \/ k \in MinInt(d) .. MaxInt(d)
         /\ \/ s \in Unsigned /\ d \in Signed /\ CommonClass(s, d) \in Unsigned
            \/ ~RefusesInteger(s, d, Int1(k)) \/ k \notin MinInt(d) .. MaxInt(d)
<1> DEFINE c == CommonClass(s, d)
           e == CommonClass(d, s)
<1>1. /\ MinInt(s) \in Int /\ MaxInt(s) \in Nat /\ MinInt(s) <= 0
      /\ MinInt(d) \in Int /\ MaxInt(d) \in Nat /\ MinInt(d) <= 0 /\ k \in Int
  BY Widths
<1>2. \A o \in IntegerToInteger(s, d, Int1(k)) :
        o = Refused \/ \E j \in MinInt(d) .. MaxInt(d) :
                         o = Got(Int1(j)) /\ (k \in MinInt(d) .. MaxInt(d) => j = k)
  <2>1. Int1(k).n \div One = k
    BY <1>1, Units, Numbers DEF Int1
  <2>2. Convert(d, Int1(k)) = Int1(Wrap(d, k))
    BY <2>1 DEF Convert
  <2> QED BY <1>1, <2>2, Wraps DEF IntegerToInteger
<1>3. /\ c \in Integer /\ MaxInt(s) <= MaxInt(c) /\ MaxInt(d) <= MaxInt(c)
      /\ e \in Integer /\ MaxInt(s) <= MaxInt(e) /\ MaxInt(d) <= MaxInt(e)
      /\ c \notin Unsigned => MinInt(c) <= MinInt(s) /\ MinInt(c) <= MinInt(d)
      /\ e \notin Unsigned => MinInt(e) <= MinInt(s) /\ MinInt(e) <= MinInt(d)
      /\ c \in Unsigned <=> e \in Unsigned
      /\ c \in Unsigned /\ s \in Signed => d \in Unsigned /\ MaxInt(s) <= MaxInt(d)
      /\ c \in Unsigned /\ d \in Signed => s \in Unsigned /\ MaxInt(d) <= MaxInt(s)
  BY CommonRange
<1>4. /\ MinInt(c) \in Int /\ MaxInt(c) \in Nat /\ MinInt(c) <= 0
      /\ MinInt(e) \in Int /\ MaxInt(e) \in Nat /\ MinInt(e) <= 0
  BY <1>3, Widths
<1>5. /\ \A x \in Unsigned : MinInt(x) = 0
      /\ s \in Unsigned <=> s \notin Signed
      /\ d \in Unsigned <=> d \notin Signed
  BY WidthOrder DEF MinInt, Signed, Unsigned
<1> HIDE DEF c, e
<1>6. \A i \in MinInt(e) .. MaxInt(e), j \in MinInt(e) .. MaxInt(e) :
        Less(d, Int1(i), s, Int1(j)) <=> i < j
  BY <1>3, LessOfIntegers DEF e
<1>7. \A i \in MinInt(c) .. MaxInt(c), j \in MinInt(c) .. MaxInt(c) :
        Less(s, Int1(i), d, Int1(j)) <=> i < j
  BY <1>3, LessOfIntegers DEF c
<1>8. /\ MaxInt(s) \in MinInt(e) .. MaxInt(e) /\ MaxInt(d) \in MinInt(e) .. MaxInt(e)
      /\ k \in MinInt(e) .. MaxInt(e) \/ (e \in Unsigned /\ k < 0)
      /\ k \in MinInt(c) .. MaxInt(c) \/ (c \in Unsigned /\ k < 0)
      /\ c \notin Unsigned => MinInt(s) \in MinInt(c) .. MaxInt(c) /\ MinInt(d) \in MinInt(c) .. MaxInt(c)
      /\ d \in Unsigned => MinInt(d) \in MinInt(c) .. MaxInt(c)
  BY <1>1, <1>3, <1>4, <1>5
<1> DEFINE narrower == Less(d, MaxOf(d), s, MaxOf(s))
           higher   == Less(s, MinOf(s), d, MinOf(d))
           tooBig   == Less(d, MaxOf(d), s, Int1(k))
           tooSmall == Less(s, Int1(k), d, MinOf(d))
<1>9. /\ MaxOf(d) = Int1(MaxInt(d)) /\ MaxOf(s) = Int1(MaxInt(s))
      /\ MinOf(d) = Int1(MinInt(d)) /\ MinOf(s) = Int1(MinInt(s))
  BY DEF MaxOf, MinOf
<1>10. RefusesInteger(s, d, Int1(k)) <=>
         s # d /\ ((narrower /\ (tooBig \/ tooSmall)) \/ (~narrower /\ higher /\ tooSmall))
  BY DEF RefusesInteger
<1>11. narrower <=> MaxInt(d) < MaxInt(s)
  BY <1>6, <1>8, <1>9
<1> HIDE DEF narrower
<1>12. /\ c \notin Unsigned => (higher <=> MinInt(s) < MinInt(d)) /\ (tooSmall <=> k < MinInt(d))
       /\ d \in Unsigned /\ k >= 0 => ~tooSmall
       /\ c \notin Unsigned \/ k >= 0 => (tooBig <=> MaxInt(d) < k)
  BY <1>1, <1>3, <1>5, <1>6, <1>7, <1>8, <1>9
<1> HIDE DEF higher, tooBig, tooSmall
<1>13. CASE c \notin Unsigned
  BY <1>1, <1>3, <1>10, <1>11, <1>12, <1>13, <1>2
<1>14. CASE c \in Unsigned
  BY <1>1, <1>2, <1>3, <1>5, <1>10, <1>11, <1>12, <1>14 DEF c
<1> QED BY <1>13, <1>14

LEMMA LimitIsInt64 ==
  ASSUME NEW d \in Float
  PROVE  Pow2[Digits[d] + 1] \in 0 .. MaxInt("int64") /\ "int64" \in Integer
<1>1. /\ Digits[d] + 1 \in Nat /\ Width["int64"] - 1 \in Nat
      /\ Digits[d] + 1 < Width["int64"] - 1
  BY Floats
<1>2. /\ Pow2[Digits[d] + 1] \in Nat /\ Pow2[Width["int64"] - 1] \in Nat
      /\ Pow2[Digits[d] + 1] < Pow2[Width["int64"] - 1]
  BY <1>1, Powers, PowersGrow
<1> QED BY <1>2 DEF MaxInt, Integer, Signed

\* Only a uint64 is compared with an int64 as if both were unsigned.
LEMMA ComparedWithInt64 ==
  ASSUME NEW s \in Integer, s # "uint64"
  PROVE  CommonClass("int64", s) \notin Unsigned
<1>1. SUFFICES ASSUME CommonClass("int64", s) \in Unsigned PROVE FALSE
  OBVIOUS
<1>2. "int64" \in Signed /\ "int64" \in Integer
  BY DEF Signed, Integer
<1>3. s \in Unsigned /\ MaxInt("int64") <= MaxInt(s)
  BY <1>1, <1>2, CommonRange
<1>4. Width[s] \in Nat /\ Width["int64"] - 1 \in Nat
  BY <1>2, Widths
<1>5. Width[s] < Width["int64"] - 1
  <2>1. \A c \in Integer : Width[c] \in Nat
    BY Widths
  <2>2. Integer = Signed \cup Unsigned
    BY DEF Integer
  <2> QED BY <1>3, <2>1, <2>2, WidthAssumption DEF Unsigned, Signed
<1>6. /\ Pow2[Width[s]] \in Nat /\ Pow2[Width["int64"] - 1] \in Nat
      /\ Pow2[Width[s]] < Pow2[Width["int64"] - 1]
  BY <1>4, <1>5, Powers, PowersGrow
<1>7. s \notin Signed
  BY <1>3, WidthOrder
<1> QED BY <1>2, <1>3, <1>6, <1>7 DEF MaxInt

LEMMA IntegerRefused ==
  ASSUME NEW s \in Integer, NEW d \in Float, NEW k \in MinInt(s) .. MaxInt(s)
  PROVE  /\ Less("int64", LargestInteger(d), s, Int1(k)) <=> Pow2[Digits[d] + 1] < k
         /\ s # "uint64" =>
              (Less(s, Int1(k), "int64", Num(-LargestInteger(d).n)) <=> k < -Pow2[Digits[d] + 1])
<1> DEFINE most == Pow2[Digits[d] + 1]
           c == CommonClass("int64", s)
           e == CommonClass(s, "int64")
<1>1. most \in 0 .. MaxInt("int64") /\ "int64" \in Integer /\ "int64" \in Signed
  BY LimitIsInt64 DEF Signed
<1> HIDE DEF most
<1>2. /\ MinInt(s) \in Int /\ MaxInt(s) \in Nat /\ k \in Int
      /\ MaxInt("int64") \in Nat /\ MinInt("int64") \in Int
      /\ -most \in MinInt("int64") .. MaxInt("int64") /\ -most \in Int
  <2>1. MinInt("int64") = -MaxInt("int64") - 1
    <3>1. Pow2[Width["int64"] - 1] \in Nat
      BY <1>1, Widths
    <3> QED BY <1>1, <3>1 DEF MinInt, MaxInt
  <2> QED BY <1>1, <2>1, Widths
<1>3. /\ c \in Integer /\ MaxInt(s) <= MaxInt(c) /\ MaxInt("int64") <= MaxInt(c)
      /\ c \notin Unsigned => MinInt(c) <= MinInt(s) /\ MinInt(c) <= MinInt("int64")
      /\ c \in Unsigned => s \in Unsigned
      /\ e \in Integer /\ MaxInt(s) <= MaxInt(e) /\ MaxInt("int64") <= MaxInt(e)
      /\ e \notin Unsigned => MinInt(e) <= MinInt(s) /\ MinInt(e) <= MinInt("int64")
      /\ e \in Unsigned <=> c \in Unsigned
  BY <1>1, CommonRange
<1>4. s # "uint64" => c \notin Unsigned
  BY ComparedWithInt64
<1> HIDE DEF c, e
<1>5. \A x \in Unsigned : x \in Integer /\ MinInt(x) = 0
  BY WidthOrder DEF MinInt, Integer
<1>6. /\ MinInt(c) \in Int /\ MaxInt(c) \in Nat /\ MinInt(c) <= 0
      /\ MinInt(e) \in Int /\ MaxInt(e) \in Nat
  BY <1>3, Widths
<1>7. LargestInteger(d) = Int1(most) /\ Num(-LargestInteger(d).n) = Int1(-most)
  <2>1. most * One \in Int /\ (-most) * One = -(most * One)
    BY <1>1, OneIsPositive
  <2> QED BY <2>1, Numbers DEF LargestInteger, Int1, most
<1>8. most \in MinInt(c) .. MaxInt(c) /\ k \in MinInt(c) .. MaxInt(c)
  BY <1>1, <1>2, <1>3, <1>5, <1>6
<1>9. Less("int64", Int1(most), s, Int1(k)) <=> most < k
  BY <1>1, <1>3, <1>8, LessOfIntegers DEF c
<1>10. ASSUME s # "uint64"
       PROVE  Less(s, Int1(k), "int64", Int1(-most)) <=> k < -most
  <2>1. k \in MinInt(e) .. MaxInt(e) /\ -most \in MinInt(e) .. MaxInt(e)
    BY <1>1, <1>2, <1>3, <1>4, <1>6, <1>10
  <2> QED BY <1>1, <1>3, <2>1, LessOfIntegers DEF e
<1> QED BY <1>7, <1>9, <1>10 DEF most

\* An integer of no more digits than the class has, or one beyond them.
LEMMA SmallIntegersFit ==
  ASSUME NEW d \in Float, NEW m \in Nat, m <= Pow2[Digits[d]]
  PROVE  m * One \in Nat /\ Fitting(d, m * One)
<1>1. /\ Unit \in Nat /\ One = Pow2[Unit] /\ LeastExp[d] \in Nat /\ LeastExp[d] <= Unit
      /\ Unit < MaxExp[d] /\ Digits[d] \in Nat /\ MaxExp[d] \in Nat
  BY Floats
<1>2. m * One \in Nat /\ (m * One) % Pow2[Unit] = 0
  BY <1>1, MultipleOf
<1>3. Pow2[Digits[d]] \in Nat /\ Pow2[Digits[d] + Unit] = Pow2[Digits[d]] * One
  BY <1>1, Powers, PowerOfSum
<1>4. CASE m < Pow2[Digits[d]]
  <2>1. m * One < Pow2[Digits[d]] * One
    BY <1>3, <1>4, OneIsPositive, Products
  <2>2. Unit \in LeastExp[d] .. MaxExp[d]
    BY <1>1
  <2>3. HasSpacing(d, m * One, Unit)
    BY <1>2, <1>3, <2>1 DEF HasSpacing
  <2> QED BY <1>2, <2>2, <2>3 DEF Fitting
<1>5. CASE m = Pow2[Digits[d]]
  <2>1. /\ Digits[d] + Unit \in Nat /\ LeastExp[d] <= Digits[d] + Unit
        /\ Digits[d] + Unit < Digits[d] + MaxExp[d]
    BY <1>1
  <2> QED BY <1>2, <1>3, <1>5, <2>1, PowerFits
<1> QED BY <1>3, <1>4, <1>5

LEMMA IntegerToFloats ==
  ASSUME NEW s \in Integer, NEW d \in Float, NEW k \in MinInt(s) .. MaxInt(s)
  PROVE  /\ \A o \in IntegerToFloat(s, d, Int1(k)) :
              \/ o = Refused /\ (s = "uint64" \/ Size(k) > Pow2[Digits[d] + 1])
              \/ o = Got(Round(d, Int1(k))) /\ Size(k) <= Pow2[Digits[d] + 1]
         /\ Holds(d, Round(d, Int1(k)))
         /\ Size(k) <= Pow2[Digits[d]] => Round(d, Int1(k)) = Int1(k)
<1>1. /\ k \in Int /\ Size(k) \in Nat /\ k * One \in Int /\ Size(k * One) = Size(k) * One
      /\ Size(k * One) < Pow2[TopExp]
  BY IntegersInRange, SizeOfInteger
<1>2. Pow2[Digits[d] + 1] \in Nat
  BY LimitIsInt64
<1>3. d \notin Integer
  BY DEF Float, Integer, Signed, Unsigned
<1>4. s = "uint64" => k >= 0
  <2>1. MinInt("uint64") = 0
    BY DEF MinInt, Signed
  <2> QED BY <1>1, <2>1
<1>5. \A o \in IntegerToFloat(s, d, Int1(k)) :
        \/ o = Refused /\ (s = "uint64" \/ Size(k) > Pow2[Digits[d] + 1])
        \/ o = Got(Round(d, Int1(k))) /\ Size(k) <= Pow2[Digits[d] + 1]
  <2> DEFINE above == Less("int64", LargestInteger(d), s, Int1(k))
             below == Less(s, Int1(k), "int64", Num(-LargestInteger(d).n))
  <2>1. /\ above <=> Pow2[Digits[d] + 1] < k
        /\ s # "uint64" => (below <=> k < -Pow2[Digits[d] + 1])
    BY IntegerRefused
  <2>2. IntegerToFloat(s, d, Int1(k)) = IF above \/ below THEN {Refused} ELSE {Got(Round(d, Int1(k)))}
    BY <1>3 DEF IntegerToFloat, Convert
  <2> HIDE DEF above, below
  <2>3. above \/ below => s = "uint64" \/ Size(k) > Pow2[Digits[d] + 1]
    BY <1>1, <1>2, <2>1 DEF Size
  <2>4. ~(above \/ below) => Size(k) <= Pow2[Digits[d] + 1]
    BY <1>1, <1>2, <1>4, <2>1 DEF Size
  <2> QED BY <2>2, <2>3, <2>4
<1>6. Holds(d, Round(d, Int1(k)))
  BY <1>1, RoundsToClass DEF Int1
<1>7. Size(k) <= Pow2[Digits[d]] => Round(d, Int1(k)) = Int1(k)
  <2>1. SUFFICES ASSUME Size(k) <= Pow2[Digits[d]] PROVE Round(d, Int1(k)) = Int1(k)
    OBVIOUS
  <2>2. Fitting(d, Size(k * One))
    BY <1>1, <2>1, SmallIntegersFit
  <2> QED BY <1>1, <2>2, RoundKeeps DEF Int1
<1> QED BY <1>5, <1>6, <1>7

\* What a float becomes as an integer: where the truncation can be held, it is that.
Cut(n, j) == /\ n >= 0 => j >= 0 /\ j * One <= n /\ n < (j + 1) * One
             /\ n < 0 => j <= 0 /\ n <= j * One /\ (j - 1) * One < n

LEMMA FloatToIntegers ==
  ASSUME NEW s \in Float, NEW d \in Integer, NEW v \in Values(s)
  PROVE  /\ \A o \in FloatToInteger(s, d, v) :
              \/ o = Refused /\ ~Holds(d, v)
              \/ \E j \in MinInt(d) .. MaxInt(d), n \in Int :
                   o = Got(Int1(j)) /\ v = Num(n) /\ (v # Int1(MaxInt(d) + 1) => Cut(n, j))
<1>1. /\ MinInt(d) \in Int /\ MaxInt(d) \in Nat /\ One \in Nat \ {0}
      /\ (MaxInt(d) + 1) * One \in Int
  BY Widths, OneIsPositive
<1>2. CASE v \in {PosInf, NegInf, NaN}
  <2>1. RefusesFloat(s, d, v) /\ ~Holds(d, v)
    BY <1>2, FloatsAsInteger DEF Holds, Finite, PosInf, NegInf, NaN
  <2>2. FloatToInteger(s, d, v) = {Refused}
    BY <2>1 DEF FloatToInteger
  <2> QED BY <2>1, <2>2
<1>3. ASSUME NEW n \in Int, v = Num(n), Fitting(s, Size(n))
      PROVE  \A o \in FloatToInteger(s, d, v) :
               \/ o = Refused /\ ~Holds(d, v)
               \/ \E j \in MinInt(d) .. MaxInt(d) :
                    o = Got(Int1(j)) /\ (v # Int1(MaxInt(d) + 1) => Cut(n, j))
  <2>1. CASE RefusesFloat(s, d, v)
    <3>1. FloatToInteger(s, d, v) = {Refused}
      BY <2>1 DEF FloatToInteger
    <3>2. n < MinInt(d) * One \/ n > MaxInt(d) * One
      BY <1>3, <2>1, FloatsAsInteger
    <3>3. ~Holds(d, v)
      <4>1. SUFFICES ASSUME Holds(d, v) PROVE FALSE
        OBVIOUS
      <4> DEFINE k == n \div One
      <4>2. k \in Int /\ n = k * One + (n % One)
        BY <1>1, Division
      <4>3. Num(n).n = n
        BY Numbers
      <4>4. n % One = 0 /\ MinInt(d) <= k /\ k <= MaxInt(d)
        BY <1>3, <4>1, <4>3 DEF Holds
      <4> HIDE DEF k
      <4>5. n = k * One
        BY <1>1, <4>2, <4>4
      <4>6. MinInt(d) * One <= k * One /\ k * One <= MaxInt(d) * One
        BY <1>1, <4>2, <4>4, Products
      <4>7. MinInt(d) * One \in Int /\ MaxInt(d) * One \in Int
        BY <1>1
      <4> QED BY <3>2, <4>5, <4>6, <4>7
    <3> QED BY <3>1, <3>3
  <2>2. CASE ~RefusesFloat(s, d, v)
    <3>1. MinInt(d) * One <= n /\ n <= (MaxInt(d) + 1) * One
      BY <1>3, <2>2, FloatsAsInteger
    <3>2. PICK t \in Int : Truncated(v) = Int1(t) /\ Cut(n, t)
      BY <1>3, Truncates DEF Cut
    <3>3. CASE Holds(d, Truncated(v))
      <4>1. FloatToInteger(s, d, v) = {Got(Int1(t))}
        BY <2>2, <3>2, <3>3 DEF FloatToInteger
      <4>2. t \in MinInt(d) .. MaxInt(d)
        BY <3>2, <3>3, IntegerElements
      <4> QED BY <3>2, <4>1, <4>2
    <3>4. CASE ~Holds(d, Truncated(v))
      <4>1. FloatToInteger(s, d, v) = {Got(w) : w \in Values(d)}
        BY <2>2, <3>4 DEF FloatToInteger
      <4>2. \A w \in Values(d) : \E j \in MinInt(d) .. MaxInt(d) : w = Int1(j)
        BY IntegerElements
      <4>3. v = Int1(MaxInt(d) + 1)
        <5>1. SUFFICES ASSUME v # Int1(MaxInt(d) + 1) PROVE FALSE
          OBVIOUS
        <5>2. n < (MaxInt(d) + 1) * One
          <6>1. n # (MaxInt(d) + 1) * One
            BY <1>3, <5>1 DEF Int1
          <6>2. n \in Int
            OBVIOUS
          <6> DEFINE top == (MaxInt(d) + 1) * One
          <6>3. n <= top /\ n # top /\ top \in Int
            BY <1>1, <3>1, <6>1
          <6> HIDE DEF top
          <6>4. n < top
            BY <6>2, <6>3
          <6> QED BY <6>4 DEF top
        <5>3. t \in MinInt(d) .. MaxInt(d)
          BY <3>1, <3>2, <5>2, TruncationHolds DEF Cut
        <5> QED BY <3>2, <3>4, <5>3, IntegerElements
      <4> QED BY <4>1, <4>2, <4>3
    <3> QED BY <3>3, <3>4
  <2> QED BY <2>1, <2>2
<1>4. ASSUME NEW n \in Int, v = Num(n), Fitting(s, Size(n)), NEW o \in FloatToInteger(s, d, v)
      PROVE  \/ o = Refused /\ ~Holds(d, v)
             \/ \E j \in MinInt(d) .. MaxInt(d), m \in Int :
                  o = Got(Int1(j)) /\ v = Num(m) /\ (v # Int1(MaxInt(d) + 1) => Cut(m, j))
  BY <1>3, <1>4
<1> QED BY <1>2, <1>4, FloatElements

LEMMA FloatToFloats ==
  ASSUME NEW s \in Float, NEW d \in Float, NEW v \in Values(s)
  PROVE  /\ \A o \in FloatToFloat(s, d, v) :
              \/ /\ o = Refused
                 /\ Holds(d, v) => /\ s = "double" /\ d = "single"
                                   /\ v = PosInf \/ (Finite(v) /\ Fabs(v).n < MinOf(d).n)
              \/ o = Got(Round(d, v))
         /\ Holds(d, Round(d, v))
         /\ Holds(d, v) => Round(d, v) = v
         /\ s # "double" \/ d # "single" => Holds(d, v)
<1>1. v \in {PosInf, NegInf, NaN} \/ \E n \in Int : v = Num(n) /\ Fitting(s, Size(n))
  BY FloatElements
<1>2. s \in {"single", "double"} /\ d \in {"single", "double"} /\ d \notin Integer
  BY DEF Float, Integer, Signed, Unsigned
<1>3. \A w \in {PosInf, NegInf, NaN} : Holds(d, w) /\ Round(d, w) = w /\ Round("double", w) = w /\ ~Finite(w)
  BY HoldsFloat, RoundOfNonFinite DEF Finite, PosInf, NegInf, NaN
<1>4. \A n \in Int : Size(n) \in Nat
  BY DEF Size
<1>5. ASSUME NEW n \in Int, v = Num(n), Fitting(s, Size(n))
      PROVE  /\ Holds(d, Round(d, v))
             /\ Holds(d, v) => Round(d, v) = v
             /\ s # "double" \/ d # "single" => Holds(d, v)
  <2>1. Size(n) < Pow2[TopExp] /\ Fitting("double", Size(n))
    BY <1>4, <1>5, FittingWidens
  <2>2. Holds(d, Round(d, v))
    BY <1>5, <2>1, RoundsToClass
  <2>3. Holds(d, v) <=> Fitting(d, Size(n))
    BY <1>5, HoldsFloat
  <2>4. Holds(d, v) => Round(d, v) = v
    BY <1>5, <2>3, RoundKeeps
  <2>5. s # "double" \/ d # "single" => Holds(d, v)
    BY <1>2, <1>5, <2>1, <2>3
  <2> QED BY <2>2, <2>4, <2>5
<1>6. ASSUME s = "double", d = "single", Holds(d, v),
             \/ Less(d, MaxOf(d), s, v)
             \/ MinOf(d) # Num(0) /\ Less(s, Fabs(v), d, MinOf(d))
      PROVE  v = PosInf \/ (Finite(v) /\ Fabs(v).n < MinOf(d).n)
  <2>1. CommonClass(d, s) = "double" /\ CommonClass(s, d) = "double" /\ "double" \in Float
    BY <1>6, CommonOfFloat DEF Float
  <2> DEFINE least == Pow2[Digits[d] - 1 + LeastExp[d]]
  <2>2. /\ MaxFinite(d) \in Nat /\ MaxOf(d) = Num(MaxFinite(d))
        /\ Round("double", MaxOf(d)) = MaxOf(d)
    <3>1. MaxFinite(d) \in Nat /\ MaxOf(d) = Num(MaxFinite(d))
      BY <1>2, LargestFinite DEF MaxOf
    <3>2. Fitting("double", MaxFinite(d)) /\ Size(MaxFinite(d)) = MaxFinite(d)
      BY <3>1, LargestFinite, FittingWidens DEF Size
    <3> QED BY <2>1, <3>1, <3>2, RoundKeeps
  <2>3. /\ least \in Nat /\ MinOf(d) = Num(least) /\ MinOf(d).n = least
        /\ Round("double", MinOf(d)) = MinOf(d)
    <3>1. /\ Digits[d] - 1 + LeastExp[d] \in Nat /\ LeastExp[d] <= Digits[d] - 1 + LeastExp[d]
          /\ LeastExp[d] \in Nat /\ LeastExp[d] <= MaxExp[d] /\ MaxExp[d] \in Nat /\ 2 <= Digits[d]
          /\ Digits[d] \in Nat
      BY Floats
    <3>2. Digits[d] - 1 + LeastExp[d] < Digits[d] + MaxExp[d]
      BY <3>1
    <3>3. least \in Nat /\ Fitting(d, least)
      BY <3>1, <3>2, PowerFits
    <3>4. MinOf(d) = Num(least) /\ Size(least) = least
      BY <1>2, <3>3 DEF MinOf, Size
    <3> HIDE DEF least
    <3>5. Fitting("double", least)
      BY <3>3, FittingWidens
    <3>6. MinOf(d).n = least
      BY <3>3, <3>4, Numbers
    <3> QED BY <2>1, <3>3, <3>4, <3>5, <3>6, RoundKeeps
  <2> HIDE DEF least
  <2>4. /\ Less(d, MaxOf(d), s, v) <=> v # NaN /\ Before(MaxOf(d), Round("double", v))
        /\ Less(s, Fabs(v), d, MinOf(d)) <=> Fabs(v) # NaN /\ Before(Round("double", Fabs(v)), MinOf(d))
    BY <2>1, <2>2, <2>3, LessOfFloats, Numbers
  <2>5. CASE v \in {NegInf, NaN}
    <3>1. Fabs(NegInf) = PosInf /\ Fabs(NaN) = NaN
      BY Numbers
    <3>2. ~Before(MaxOf(d), NegInf) /\ ~Before(PosInf, MinOf(d))
      BY <2>2, <2>3, BeforeOfNumbers
    <3> QED BY <1>3, <1>6, <2>4, <2>5, <3>1, <3>2
  <2>6. ASSUME NEW n \in Int, v = Num(n), Fitting(s, Size(n))
        PROVE  Finite(v) /\ Fabs(v).n < MinOf(d).n
    <3>1. /\ Finite(v) /\ Size(n) \in Nat /\ Fabs(v) = Num(Size(n)) /\ Fabs(v).n = Size(n)
          /\ Size(Size(n)) = Size(n)
      BY <2>6, Numbers DEF Size
    <3>2. Round("double", v) = v /\ Round("double", Fabs(v)) = Fabs(v)
      BY <1>6, <2>1, <2>6, <3>1, RoundKeeps
    <3>3. Size(n) <= MaxFinite(d)
      BY <1>6, <2>6, <3>1, HoldsFloat, FittingIsFinite
    <3>4. ~Before(MaxOf(d), v)
      <4>1. ~(MaxFinite(d) < n)
        BY <2>2, <3>3 DEF Size
      <4> QED BY <2>2, <2>6, <4>1, BeforeOfNumbers
    <3>5. Before(Num(Size(n)), Num(least)) <=> Size(n) < least
      BY <2>3, <3>1, BeforeOfNumbers
    <3> QED BY <1>6, <2>3, <2>4, <3>1, <3>2, <3>4, <3>5
  <2> QED BY <1>1, <2>5, <2>6
<1>7. ASSUME NEW o \in FloatToFloat(s, d, v)
      PROVE  \/ /\ o = Refused
                /\ Holds(d, v) => /\ s = "double" /\ d = "single"
                                  /\ v = PosInf \/ (Finite(v) /\ Fabs(v).n < MinOf(d).n)
             \/ o = Got(Round(d, v))
  <2> DEFINE beyond == \/ Less(d, MaxOf(d), s, v)
                       \/ MinOf(d) # Num(0) /\ Less(s, Fabs(v), d, MinOf(d))
  <2>1. \/ o = Refused /\ s # d /\ d # "double" /\ beyond
        \/ o = Got(Round(d, v))
    BY <1>2, <1>7 DEF FloatToFloat, Convert
  <2>2. s # d /\ d # "double" => s = "double" /\ d = "single"
    BY <1>2
  <2>3. s = "double" /\ d = "single" /\ Holds(d, v) /\ beyond =>
          v = PosInf \/ (Finite(v) /\ Fabs(v).n < MinOf(d).n)
    BY <1>6
  <2> HIDE DEF beyond
  <2> QED BY <2>1, <2>2, <2>3
<1>8. v \in {PosInf, NegInf, NaN} => Holds(d, v) /\ Round(d, v) = v
  BY <1>3
<1> QED BY <1>1, <1>5, <1>7, <1>8

-----------------------------------------------------------------------------
(* The specification. *)

\* What the state after a call is: one of the outcomes of the call that was made.
Inv ==
  /\ src \in Numeric \cup {"logical", "other"}
  /\ arg \in Elements(src)
  /\ \/ dest = "pending" /\ outcome = Pending
     \/ dest \in Integer /\ outcome \in AsInt(src, dest, arg)
     \/ dest \in Float /\ outcome \in AsFloat(src, dest, arg)
     \/ dest = "logical" /\ outcome \in AsBool(src, arg)

LEMMA InvHolds == Spec => []Inv
<1>1. Init => Inv
  BY DEF Init, Inv
<1>2. Inv /\ [Next]_vars => Inv'
  <2> SUFFICES ASSUME Inv, [Next]_vars PROVE Inv'
    OBVIOUS
  <2>1. CASE GetAsInt
    BY <2>1 DEF GetAsInt, Answer, Inv
  <2>2. CASE GetAsFloat
    BY <2>2 DEF GetAsFloat, Answer, Inv
  <2>3. CASE GetAsBool
    BY <2>3 DEF GetAsBool, Answer, Inv
  <2>4. CASE UNCHANGED vars
    BY <2>4 DEF vars, Inv
  <2> QED BY <2>1, <2>2, <2>3, <2>4 DEF Next
<1> QED BY <1>1, <1>2, PTL DEF Spec

LEMMA Statuses ==
  /\ Refused.status # "got" /\ WrongType.status # "got" /\ Pending.status # "got"
  /\ Refused # WrongType /\ Refused # Pending
  /\ \A v : Got(v).status = "got" /\ Got(v).value = v /\ Got(v) # Refused
<1>1. Refused.status = "BadTypeConversion" /\ WrongType.status = "BadType" /\ Pending.status = "pending"
  BY DEF Refused, WrongType, Pending
<1>2. \A v : Got(v).status = "got" /\ Got(v).value = v
  BY DEF Got
<1> QED BY <1>1, <1>2

LEMMA ClassNames ==
  /\ \A c \in Integer : c \in Numeric /\ c \notin Float /\ c \notin {"logical", "pending", "other", "double", "single"}
  /\ \A c \in Float : c \in Numeric /\ c \notin Integer /\ c \notin {"logical", "pending", "other"}
  /\ Signed \subseteq Integer /\ Unsigned \subseteq Integer
  /\ Numeric = Integer \cup Float /\ {"logical", "pending", "other"} \cap Numeric = {}
  BY DEF Numeric, Integer, Float, Signed, Unsigned

Promises == TypeOK /\ LossIsConfined /\ RefusalIsConfined /\ TruncatesTowardsZero

LEMMA IntegerAsInteger ==
  ASSUME src \in Integer, dest \in Integer, arg \in Values(src),
         outcome \in IntegerToInteger(src, dest, arg)
  PROVE  Promises
<1>1. PICK k \in MinInt(src) .. MaxInt(src) : arg = Int1(k)
  BY IntegerElements
<1>2. /\ k \in Int /\ MinInt(dest) \in Int /\ MaxInt(dest) \in Int
      /\ src \in Numeric /\ dest \in Numeric /\ src \notin Float /\ dest # "logical" /\ dest \notin Float
  <2>1. MinInt(src) \in Int /\ MaxInt(src) \in Int /\ MinInt(dest) \in Int /\ MaxInt(dest) \in Int
    BY Widths
  <2> QED BY <2>1, ClassNames
<1>3. Holds(dest, arg) <=> k \in MinInt(dest) .. MaxInt(dest)
  BY <1>1, <1>2, IntegerElements
<1>4. CASE outcome = Refused
  <2>1. RefusesInteger(src, dest, arg)
    BY <1>4, Statuses DEF IntegerToInteger
  <2>2. k \in MinInt(dest) .. MaxInt(dest) => src \in Unsigned /\ dest \in Signed /\ ComparedUnsigned
    BY <1>1, <2>1, IntegerToIntegers DEF ComparedUnsigned
  <2>3. outcome.status # "got"
    BY <1>4, Statuses
  <2> QED BY <1>2, <1>3, <2>2, <2>3
          DEF Promises, TypeOK, LossIsConfined, RefusalIsConfined, TruncatesTowardsZero, Lossy, Answered, Fits
<1>5. ASSUME NEW j \in MinInt(dest) .. MaxInt(dest), outcome = Got(Int1(j)),
             k \in MinInt(dest) .. MaxInt(dest) => j = k
      PROVE  Promises
  <2>1. outcome # Refused /\ outcome.value = Int1(j) /\ outcome.status = "got"
    BY <1>5, Statuses
  <2>2. Holds(dest, outcome.value)
    BY <1>2, <2>1, IntegerElements
  <2>3. ~RefusesInteger(src, dest, arg)
    BY <2>1 DEF IntegerToInteger
  <2>4. Lossy => src \in Signed /\ dest \in Unsigned /\ k < 0 /\ ComparedUnsigned
    <3>1. Lossy => k \notin MinInt(dest) .. MaxInt(dest)
      BY <1>1, <1>5, <2>1 DEF Lossy
    <3> QED BY <1>1, <2>3, <3>1, IntegerToIntegers DEF ComparedUnsigned
  <2>5. k < 0 => arg.n < 0
    <3>1. arg.n = k * One /\ (k < 0 <=> k * One < 0 * One)
      BY <1>1, <1>2, OneIsPositive, Products, Units, Numbers DEF Int1
    <3> QED BY <3>1, OneIsPositive
  <2> QED BY <1>2, <2>1, <2>2, <2>4, <2>5
          DEF Promises, TypeOK, LossIsConfined, RefusalIsConfined, TruncatesTowardsZero
<1> QED BY <1>1, <1>4, <1>5, IntegerToIntegers

LEMMA IntegerAsFloat ==
  ASSUME src \in Integer, dest \in Float, arg \in Values(src),
         outcome \in IntegerToFloat(src, dest, arg)
  PROVE  Promises
<1>1. PICK k \in MinInt(src) .. MaxInt(src) : arg = Int1(k)
  BY IntegerElements
<1>2. /\ src \in Numeric /\ dest \in Numeric /\ src \notin Float /\ dest # "logical" /\ dest \notin Integer
      /\ "uint64" \in Unsigned
  BY ClassNames DEF Unsigned
<1>3. k \in Int /\ Size(k) \in Nat /\ k * One \in Int /\ Size(k * One) = Size(k) * One
  BY IntegersInRange, SizeOfInteger
<1>4. Pow2[Digits[dest]] \in Nat /\ Pow2[Digits[dest] + 1] \in Nat
  BY Floats, Powers
<1>5. /\ Fabs(arg).n = Size(k) * One
      /\ Fabs(arg).n > One * Pow2[Digits[dest]] <=> Size(k) > Pow2[Digits[dest]]
      /\ Fabs(arg).n > One * Pow2[Digits[dest] + 1] <=> Size(k) > Pow2[Digits[dest] + 1]
      /\ Fabs(arg).n <= One * Pow2[Digits[dest] + 1] <=> Size(k) <= Pow2[Digits[dest] + 1]
  <2>1. Fabs(arg).n = Size(k) * One
    <3>1. Fabs(arg) = Num(Size(k * One)) /\ Size(k * One) \in Int
      BY <1>1, <1>3, Numbers DEF Int1, Size
    <3> QED BY <1>3, <3>1, Numbers
  <2>2. ASSUME NEW p \in Nat
        PROVE  /\ Size(k) * One > One * p <=> Size(k) > p
               /\ Size(k) * One <= One * p <=> Size(k) <= p
    <3>1. One * p = p * One /\ p * One \in Int /\ Size(k) * One \in Int
      BY <1>3, OneIsPositive
    <3>2. p < Size(k) <=> p * One < Size(k) * One
      BY <1>3, OneIsPositive, Products
    <3> QED BY <1>3, <3>1, <3>2
  <2> QED BY <1>4, <2>1, <2>2
<1>6. CASE outcome = Refused
  <2>1. src = "uint64" \/ Size(k) > Pow2[Digits[dest] + 1]
    BY <1>1, <1>6, Statuses, IntegerToFloats
  <2>2. outcome.status # "got"
    BY <1>6, Statuses
  <2> QED BY <1>2, <1>5, <2>1, <2>2
          DEF Promises, TypeOK, LossIsConfined, RefusalIsConfined, TruncatesTowardsZero, Lossy, Answered
<1>7. CASE outcome = Got(Round(dest, Int1(k))) /\ Size(k) <= Pow2[Digits[dest] + 1]
  <2>1. outcome # Refused /\ outcome.value = Round(dest, Int1(k)) /\ outcome.status = "got"
    BY <1>7, Statuses
  <2>2. Holds(dest, outcome.value)
    BY <2>1, IntegerToFloats
  <2>3. Lossy => Size(k) > Pow2[Digits[dest]]
    BY <1>1, <1>3, <1>4, <2>1, IntegerToFloats DEF Lossy
  <2> QED BY <1>2, <1>5, <1>7, <2>1, <2>2, <2>3
          DEF Promises, TypeOK, LossIsConfined, RefusalIsConfined, TruncatesTowardsZero
<1> QED BY <1>1, <1>6, <1>7, IntegerToFloats

LEMMA CutsTowardsZero ==
  ASSUME NEW n \in Int, NEW j \in Int, Cut(n, j)
  PROVE  /\ Size(n) \in Nat /\ Size(j * One) \in Nat
         /\ 0 <= Size(n) - Size(j * One) /\ Size(n) - Size(j * One) < One
         /\ j * One # 0 => (n < 0 <=> j * One < 0)
         /\ n % One = 0 => n = j * One
<1>1. One \in Nat \ {0} /\ j * One \in Int /\ (j + 1) * One = j * One + One /\ (j - 1) * One = j * One - One
  BY OneIsPositive
<1>2. (j < 0 <=> j * One < 0 * One) /\ (0 <= j <=> 0 * One <= j * One) /\ 0 * One = 0
  BY <1>1, Products
<1>3. Size(n) \in Nat /\ Size(j * One) \in Nat
  BY <1>1 DEF Size
<1>4. /\ n >= 0 => j >= 0 /\ j * One <= n /\ n < j * One + One
      /\ n < 0 => j <= 0 /\ n <= j * One /\ j * One - One < n
  BY <1>1 DEF Cut
<1>5. j <= 0 => j * One <= 0
  <2>1. j <= 0 <=> j * One <= 0 * One
    BY <1>1, Products
  <2> QED BY <1>2, <2>1
<1> DEFINE p == j * One
<1>6. n % One = 0 => n = p
  <2> DEFINE q == n \div One
  <2>1. q \in Int /\ n = q * One + (n % One)
    BY <1>1, Division
  <2> HIDE DEF q
  <2>2. SUFFICES ASSUME n % One = 0, n # p PROVE FALSE
    OBVIOUS
  <2>3. n = q * One
    BY <1>1, <2>1, <2>2
  <2>4. q # j
    BY <2>2, <2>3
  <2>5. CASE n >= 0
    <3>1. j * One <= q * One /\ q * One < (j + 1) * One
      BY <1>1, <1>4, <2>3, <2>5
    <3>2. j <= q /\ q < j + 1
      BY <1>1, <2>1, <3>1, Products
    <3> QED BY <2>1, <2>4, <3>2
  <2>6. CASE n < 0
    <3>1. q * One <= j * One /\ (j - 1) * One < q * One
      BY <1>1, <1>4, <2>3, <2>6
    <3>2. q <= j /\ j - 1 < q
      BY <1>1, <2>1, <3>1, Products
    <3> QED BY <2>1, <2>4, <3>2
  <2> QED BY <2>5, <2>6
<1>7. /\ p \in Int /\ (p < 0 <=> j < 0) /\ (j <= 0 => p <= 0)
      /\ n >= 0 => j >= 0 /\ p <= n /\ n < p + One
      /\ n < 0 => j <= 0 /\ n <= p /\ p - One < n
  BY <1>1, <1>2, <1>4, <1>5
<1> HIDE DEF p
<1>8. /\ 0 <= Size(n) - Size(p) /\ Size(n) - Size(p) < One
      /\ p # 0 => (n < 0 <=> p < 0)
  BY <1>1, <1>7 DEF Size
<1> QED BY <1>3, <1>6, <1>8 DEF p

LEMMA FloatAsInteger ==
  ASSUME src \in Float, dest \in Integer, arg \in Values(src),
         outcome \in FloatToInteger(src, dest, arg)
  PROVE  Promises
<1>1. /\ src \in Numeric /\ dest \in Numeric /\ src \notin Integer /\ dest # "logical" /\ dest \notin Float
      /\ src \notin Signed /\ src \notin Unsigned
  BY ClassNames
<1>2. CASE outcome = Refused /\ ~Holds(dest, arg)
  BY <1>1, <1>2, Statuses
     DEF Promises, TypeOK, LossIsConfined, RefusalIsConfined, TruncatesTowardsZero, Lossy, Answered, Fits
<1>3. ASSUME NEW j \in MinInt(dest) .. MaxInt(dest), NEW n \in Int,
             outcome = Got(Int1(j)), arg = Num(n), arg # Int1(MaxInt(dest) + 1) => Cut(n, j)
      PROVE  Promises
  <2>1. outcome # Refused /\ outcome.value = Int1(j) /\ outcome.status = "got"
    BY <1>3, Statuses
  <2>2. j \in Int /\ j * One \in Int
    BY Widths, OneIsPositive
  <2>3. Holds(dest, outcome.value)
    BY <2>1, <2>2, IntegerElements
  <2>4. /\ arg.n = n /\ outcome.value.n = j * One
        /\ Fabs(arg).n = Size(n) /\ Fabs(outcome.value).n = Size(j * One)
    <3>1. \A i \in Int : Fabs(Num(i)) = Num(Size(i)) /\ Size(i) \in Int
      BY Numbers DEF Size
    <3> QED BY <1>3, <2>1, <2>2, <3>1, Numbers DEF Int1
  <2>5. Lossy => arg.n % One # 0 \/ arg = Int1(MaxInt(dest) + 1)
    <3>1. SUFFICES ASSUME n % One = 0, Cut(n, j) PROVE outcome.value = arg
      BY <1>3, <2>4 DEF Lossy
    <3>2. n = j * One
      BY <2>2, <3>1, CutsTowardsZero
    <3> QED BY <1>3, <2>1, <3>2 DEF Int1
  <2>6. TruncatesTowardsZero
    <3>1. SUFFICES ASSUME arg # Int1(MaxInt(dest) + 1)
                   PROVE  /\ 0 <= Fabs(arg).n - Fabs(outcome.value).n
                          /\ Fabs(arg).n - Fabs(outcome.value).n < One
                          /\ outcome.value.n # 0 => (arg.n < 0 <=> outcome.value.n < 0)
      BY DEF TruncatesTowardsZero
    <3>2. Cut(n, j)
      BY <1>3, <3>1
    <3> QED BY <2>2, <2>4, <3>2, CutsTowardsZero
  <2>7. LossIsConfined
    BY <1>1, <2>5 DEF LossIsConfined
  <2>8. TypeOK /\ RefusalIsConfined
    BY <1>1, <2>1, <2>3 DEF TypeOK, RefusalIsConfined
  <2> QED BY <2>6, <2>7, <2>8 DEF Promises
<1> QED BY <1>2, <1>3, FloatToIntegers

LEMMA FloatAsFloat ==
  ASSUME src \in Float, dest \in Float, arg \in Values(src),
         outcome \in FloatToFloat(src, dest, arg)
  PROVE  Promises
<1>1. /\ src \in Numeric /\ dest \in Numeric /\ src \notin Integer /\ dest # "logical" /\ dest \notin Integer
      /\ src \notin Signed /\ src \notin Unsigned
  BY ClassNames
<1>2. ASSUME outcome = Refused,
             Holds(dest, arg) => /\ src = "double" /\ dest = "single"
                                 /\ arg = PosInf \/ (Finite(arg) /\ Fabs(arg).n < MinOf(dest).n)
      PROVE  Promises
  <2>1. outcome.status # "got"
    BY <1>2, Statuses
  <2>2. RefusalIsConfined
    BY <1>2 DEF RefusalIsConfined, Fits, TooSmall
  <2> QED BY <1>1, <2>1, <2>2 DEF Promises, TypeOK, LossIsConfined, TruncatesTowardsZero, Lossy, Answered
<1>3. CASE outcome = Got(Round(dest, arg))
  <2>1. outcome # Refused /\ outcome.value = Round(dest, arg) /\ outcome.status = "got"
    BY <1>3, Statuses
  <2>2. Holds(dest, outcome.value)
    BY <2>1, FloatToFloats
  <2>3. Lossy => ~Holds(dest, arg)
    BY <2>1, FloatToFloats DEF Lossy
  <2>4. Lossy => src = "double" /\ dest = "single" /\ ~Fits
    BY <2>3, FloatToFloats DEF Fits
  <2> QED BY <1>1, <2>1, <2>2, <2>4
          DEF Promises, TypeOK, LossIsConfined, RefusalIsConfined, TruncatesTowardsZero
<1> QED BY <1>2, <1>3, FloatToFloats

LEMMA KeepsPromises ==
  ASSUME Inv
  PROVE  Promises
<1>1. /\ src \in Numeric \cup {"logical", "other"} /\ arg \in Elements(src)
      /\ src \in Numeric => arg \in Values(src)
  BY ClassNames DEF Inv, Elements
<1>2. CASE dest = "pending" /\ outcome = Pending
  BY <1>1, <1>2, Statuses, ClassNames
     DEF Promises, TypeOK, LossIsConfined, RefusalIsConfined, TruncatesTowardsZero, Lossy, Answered
<1>3. CASE dest = "logical" /\ outcome \in AsBool(src, arg)
  <2>1. outcome = WrongType \/ outcome = Got(Bit(TRUE)) \/ outcome = Got(Bit(FALSE))
    <3>1. (arg # Num(0)) \in BOOLEAN
      OBVIOUS
    <3> QED BY <1>3, <3>1 DEF AsBool, Bit
  <2>2. dest \notin Numeric
    BY <1>3, ClassNames
  <2>3. outcome.status = "got" => outcome.value \in {Bit(TRUE), Bit(FALSE)}
    BY <2>1, Statuses
  <2> QED BY <1>1, <1>3, <2>2, <2>3
          DEF Promises, TypeOK, LossIsConfined, RefusalIsConfined, TruncatesTowardsZero, Lossy, Answered, Fits
<1>4. ASSUME dest \in Numeric, outcome = WrongType
      PROVE  Promises
  BY <1>1, <1>4, Statuses, ClassNames
     DEF Promises, TypeOK, LossIsConfined, RefusalIsConfined, TruncatesTowardsZero, Lossy, Answered
<1>5. CASE dest \in Integer /\ outcome \in AsInt(src, dest, arg)
  <2>1. CASE src \in Integer
    <3>1. AsInt(src, dest, arg) = IntegerToInteger(src, dest, arg)
      BY <2>1, ClassNames DEF AsInt
    <3> QED BY <1>1, <1>5, <2>1, <3>1, ClassNames, IntegerAsInteger
  <2>2. CASE src \in Float
    <3>1. AsInt(src, dest, arg) = FloatToInteger(src, dest, arg)
      BY <2>2, ClassNames DEF AsInt
    <3> QED BY <1>1, <1>5, <2>2, <3>1, ClassNames, FloatAsInteger
  <2>3. CASE src \notin Integer /\ src \notin Float
    BY <1>4, <1>5, <2>3, ClassNames DEF AsInt
  <2> QED BY <2>1, <2>2, <2>3
<1>6. CASE dest \in Float /\ outcome \in AsFloat(src, dest, arg)
  <2>1. CASE src \in Integer
    <3>1. AsFloat(src, dest, arg) = IntegerToFloat(src, dest, arg)
      BY <2>1, ClassNames DEF AsFloat
    <3> QED BY <1>1, <1>6, <2>1, <3>1, ClassNames, IntegerAsFloat
  <2>2. CASE src \in Float
    <3>1. AsFloat(src, dest, arg) = FloatToFloat(src, dest, arg)
      BY <2>2, ClassNames DEF AsFloat
    <3> QED BY <1>1, <1>6, <2>2, <3>1, ClassNames, FloatAsFloat
  <2>3. CASE src \notin Integer /\ src \notin Float
    BY <1>4, <1>6, <2>3, ClassNames DEF AsFloat
  <2> QED BY <2>1, <2>2, <2>3
<1> QED BY <1>2, <1>3, <1>5, <1>6 DEF Inv

\* getAsInt, getAsFloat and getAsBool return an element of the C++ type that was
\* asked for, whatever the class and the element of the argument and the widths
\* of the classes (MexIFace.h, checkedToInteger to checkedToFloat).
THEOREM AnswersAreTyped == Spec => []TypeOK
<1>1. Inv => TypeOK
  BY KeepsPromises DEF Promises
<1> QED BY <1>1, InvHolds, PTL

\* An argument that the getAs methods accept changes its value in the four named
\* cases and in no other, for every width and precision.
THEOREM LossesAreConfined == Spec => []LossIsConfined
<1>1. Inv => LossIsConfined
  BY KeepsPromises DEF Promises
<1> QED BY <1>1, InvHolds, PTL

\* An argument that the C++ type can hold is refused in the four named cases and
\* in no other: the limits are compared in the class that C++ brings them to, in
\* which they may have been rounded or wrapped.
THEOREM RefusalsAreConfined == Spec => []RefusalIsConfined
<1>1. Inv => RefusalIsConfined
  BY KeepsPromises DEF Promises
<1> QED BY <1>1, InvHolds, PTL

\* A float that checkedFloatToInteger accepts moves towards zero by less than one,
\* and the conversion is defined, except at the limit that the float rounds up.
THEOREM FloatsAreTruncated == Spec => []TruncatesTowardsZero
<1>1. Inv => TruncatesTowardsZero
  BY KeepsPromises DEF Promises
<1> QED BY <1>1, InvHolds, PTL
=============================================================================
