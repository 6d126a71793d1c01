---------------------------- MODULE NumericClass ----------------------------
(***************************************************************************)
(* The numeric classes of Matlab and the arithmetic that C++ does with     *)
(* their elements: integer promotion, the usual arithmetic conversions,    *)
(* wrap-around and rounding.  A number is a record; the value of a finite  *)
(* one is counted in units, of which the integer 1 has One.                *)
(*                                                                         *)
(* Widths and precisions are constants, so that a small instance has the   *)
(* order of the real ones, 8 < 16 < 24 < 32 < 53 < 64.                       *)
(***************************************************************************)
EXTENDS Integers

CONSTANTS
  Width,      \* integer class -> bits
  Digits,     \* float class -> bits of its mantissa (numeric_limits::digits)
  LeastExp,   \* float class -> exponent of its smallest spacing, in units
  MaxExp,     \* float class -> exponent of its largest spacing, in units
  One         \* units of the integer 1

Signed   == {"int8", "int16", "int32", "int64"}
Unsigned == {"uint8", "uint16", "uint32", "uint64"}
Integer  == Signed \cup Unsigned
Float    == {"single", "double"}
Numeric  == Integer \cup Float

\* 2^n, as a function whose values are proved by induction.
Pow2[n \in Nat] == IF n = 0 THEN 1 ELSE 2 * Pow2[n - 1]

ASSUME WidthAssumption ==
  /\ Width \in [Integer -> Nat \ {0}]
  /\ Width["int8"] = Width["uint8"]   /\ Width["int16"] = Width["uint16"]
  /\ Width["int32"] = Width["uint32"] /\ Width["int64"] = Width["uint64"]
  /\ Width["int8"] + 1 < Width["int16"] /\ Width["int16"] + 1 < Width["int32"]
  /\ Width["int32"] + 1 < Width["int64"]

ASSUME FloatAssumption ==
  /\ Digits \in [Float -> Nat] /\ LeastExp \in [Float -> Nat]
  /\ MaxExp \in [Float -> Nat] /\ \E u \in 0 .. MaxExp["single"] : One = Pow2[u]
  /\ LeastExp["double"] <= LeastExp["single"] /\ MaxExp["single"] <= MaxExp["double"]
  /\ Width["int16"] < Digits["single"] /\ Digits["single"] + 2 < Width["int32"]
  /\ Width["int32"] < Digits["double"] /\ Digits["double"] + 2 < Width["int64"]
  /\ One * Pow2[Width["int64"]] < Pow2[Digits["single"] + MaxExp["single"]]
  /\ Pow2[Digits["single"] - 1 + LeastExp["single"]] < One

-----------------------------------------------------------------------------
Num(n)  == [kind |-> "finite", n |-> n]
PosInf  == [kind |-> "inf", n |-> 1]
NegInf  == [kind |-> "inf", n |-> -1]
NaN     == [kind |-> "nan", n |-> 0]
Int1(k) == Num(k * One)

Finite(v) == v.kind = "finite"
Fabs(v)   == [v EXCEPT !.n = IF @ < 0 THEN -@ ELSE @]

\* numeric_limits<T>::max() and min(): min of a float is its smallest normal.
MaxInt(c) == IF c \in Signed THEN Pow2[Width[c] - 1] - 1 ELSE Pow2[Width[c]] - 1
MinInt(c) == IF c \in Signed THEN -Pow2[Width[c] - 1] ELSE 0

MaxFinite(c) == (Pow2[Digits[c]] - 1) * Pow2[MaxExp[c]]

MaxOf(c) == IF c \in Integer THEN Int1(MaxInt(c)) ELSE Num(MaxFinite(c))
MinOf(c) == IF c \in Integer THEN Int1(MinInt(c))
                             ELSE Num(Pow2[Digits[c] - 1 + LeastExp[c]])

FiniteFloats(c) ==
  LET scaled == {m * Pow2[e] : m \in 0 .. Pow2[Digits[c]] - 1, e \in LeastExp[c] .. MaxExp[c]}
  IN  {Num(n) : n \in scaled} \cup {Num(-n) : n \in scaled}

\* The values an element of the class can have.
Values(c) == IF c \in Integer THEN {Int1(k) : k \in MinInt(c) .. MaxInt(c)}
                              ELSE FiniteFloats(c) \cup {PosInf, NegInf, NaN}

\* v \in Values(c), without going through them.
Holds(c, v) ==
  IF c \in Integer
  THEN /\ Finite(v) /\ v.n % One = 0
       /\ MinInt(c) <= v.n \div One /\ v.n \div One <= MaxInt(c)
  ELSE Finite(v) => \E e \in LeastExp[c] .. MaxExp[c] :
                      Fabs(v).n % Pow2[e] = 0 /\ Fabs(v).n < Pow2[Digits[c] + e]

-----------------------------------------------------------------------------
(* Conversion of a value to a class. *)

\* Modulo 2^w, into the range of the class; k is an integer.
Wrap(c, k) ==
  LET r == k % Pow2[Width[c]]
  IN  IF r > MaxInt(c) THEN r - Pow2[Width[c]] ELSE r

\* The exponent of the spacing of the class at n.
Spacing(c, n) ==
  CHOOSE e \in LeastExp[c] .. MaxExp["double"] + Digits["double"] :
    /\ n < Pow2[Digits[c] + e]
    /\ e = LeastExp[c] \/ n >= Pow2[Digits[c] - 1 + e]

\* To the nearest value of the class, ties to the even one; n >= 0.
Nearest(c, n) ==
  LET step == Pow2[Spacing(c, n)]
      q == n \div step
      r == n % step
  IN  IF 2 * r > step \/ (2 * r = step /\ q % 2 = 1) THEN (q + 1) * step ELSE q * step

Round(c, v) ==
  LET n == Nearest(c, Fabs(v).n)
  IN  CASE ~Finite(v)       -> v
        [] Finite(v) /\ n > MaxFinite(c) -> IF v.n < 0 THEN NegInf ELSE PosInf
        [] OTHER            -> Num(IF v.n < 0 THEN -n ELSE n)

\* From an integer class or, to a float class, from any class.
Convert(c, v) == IF c \in Integer THEN Int1(Wrap(c, v.n \div One)) ELSE Round(c, v)

-----------------------------------------------------------------------------
(* Comparison of operands of two classes. *)

Promoted(c) == IF c \in Integer /\ Width[c] < Width["int32"] THEN "int32" ELSE c

\* The usual arithmetic conversions: the class both operands are brought to.
CommonClass(a, b) ==
  LET p == Promoted(a)
      q == Promoted(b)
      wider(x, y) == IF Width[x] >= Width[y] THEN x ELSE y
      mixed(s, u) == IF Width[u] >= Width[s] THEN u ELSE s
  IN  CASE "double" \in {a, b}                -> "double"
        [] "single" \in {a, b} /\ "double" \notin {a, b} -> "single"
        [] a \in Integer /\ b \in Integer ->
             IF p \in Signed /\ q \in Unsigned THEN mixed(p, q)
             ELSE IF p \in Unsigned /\ q \in Signed THEN mixed(q, p)
             ELSE wider(p, q)

\* Infinities lie beyond every finite value.
Before(x, y) ==
  \/ x = NegInf /\ y # NegInf
  \/ y = PosInf /\ x # PosInf
  \/ Finite(x) /\ Finite(y) /\ x.n < y.n

\* The C++ expression x < y, where x is of class a and y of class b.
Less(a, x, b, y) ==
  LET c == CommonClass(a, b)
  IN  NaN \notin {x, y} /\ Before(Convert(c, x), Convert(c, y))
=============================================================================
