-------------------------- MODULE NumericConversion --------------------------
(***************************************************************************)
(* getAsInt, getAsFloat and getAsBool of MexIFace.h: an argument of any    *)
(* Matlab class becomes an element of the C++ type the method asked for,   *)
(* or the call is refused with BadTypeConversion or BadType.               *)
(***************************************************************************)
EXTENDS NumericClass, FiniteSets

VARIABLES
  src,      \* class of the argument, "logical" or "other"
  arg,      \* its element
  dest,     \* class of the C++ type asked for, "pending" before the call
  outcome   \* what the call came to

vars == <<src, arg, dest, outcome>>

Got(v)    == [status |-> "got", value |-> v]
Refused   == [status |-> "BadTypeConversion"]
WrongType == [status |-> "BadType"]
Pending   == [status |-> "pending"]

Bit(b) == Int1(IF b THEN 1 ELSE 0)

-----------------------------------------------------------------------------
(* The four checked conversions; each is the set of possible outcomes. *)

RefusesInteger_MaxOnly(s, d, v) ==   \* mutant: the minimum is not compared
  s # d /\ Less(d, MaxOf(d), s, MaxOf(s)) /\ Less(d, MaxOf(d), s, v)

RefusesInteger_OffByOne(s, d, v) ==  \* mutant: dest_max <= val
  s # d /\ (~Less(s, v, d, MaxOf(d)) \/ Less(s, v, d, MinOf(d)))

RefusesInteger(s, d, v) ==
  /\ s # d
  /\ LET narrower == Less(d, MaxOf(d), s, MaxOf(s))
         higher   == Less(s, MinOf(s), d, MinOf(d))
         tooBig   == Less(d, MaxOf(d), s, v)
         tooSmall == Less(s, v, d, MinOf(d))
     IN  \/ narrower /\ (tooBig \/ tooSmall)
         \/ ~narrower /\ higher /\ tooSmall

IntegerToInteger(s, d, v) ==
  IF RefusesInteger(s, d, v) THEN {Refused} ELSE {Got(Convert(d, v))}

RefusesFloat(s, d, v) ==
  \/ Less(d, MaxOf(d), s, v)
  \/ Less(s, v, d, MinOf(d))
  \/ ~Finite(v)

Truncated_Floors(v) == Int1(v.n \div One)   \* mutant: rounds down

\* The fraction is cut off.
Truncated(v) == IF v.n < 0 THEN Int1(-((-v.n) \div One)) ELSE Int1(v.n \div One)

\* Converting a value whose truncation the type cannot hold is undefined.
FloatToInteger(s, d, v) ==
  CASE RefusesFloat(s, d, v) -> {Refused}
    [] ~RefusesFloat(s, d, v) /\ Holds(d, Truncated(v)) -> {Got(Truncated(v))}
    [] OTHER -> {Got(w) : w \in Values(d)}

\* dest_max_int of the code, an int64.
LargestInteger(d) == Int1(Pow2[Digits[d] + 1])

IntegerToFloat(s, d, v) ==
  IF \/ Less("int64", LargestInteger(d), s, v)
     \/ Less(s, v, "int64", Num(-LargestInteger(d).n))
  THEN {Refused} ELSE {Got(Convert(d, v))}

FloatToFloat_Unrounded(s, d, v) == {Got(v)}   \* mutant: the double is returned

FloatToFloat(s, d, v) ==
  IF /\ s # d /\ d # "double"
     /\ \/ Less(d, MaxOf(d), s, v)
        \/ MinOf(d) # Num(0) /\ Less(s, Fabs(v), d, MinOf(d))
  THEN {Refused} ELSE {Got(Convert(d, v))}

-----------------------------------------------------------------------------
(* The getAs methods: a switch on the class of the argument. *)

AsInt(s, d, v) == CASE s \in Integer -> IntegerToInteger(s, d, v)
                    [] s \in Float   -> FloatToInteger(s, d, v)
                    [] OTHER         -> {WrongType}

AsFloat(s, d, v) == CASE s \in Integer -> IntegerToFloat(s, d, v)
                      [] s \in Float   -> FloatToFloat(s, d, v)
                      [] OTHER         -> {WrongType}

AsBool(s, v) == IF s = "other" THEN {WrongType} ELSE {Got(Bit(v # Num(0)))}

Answer(d, outcomes) ==
  /\ dest = "pending"
  /\ dest' = d
  /\ outcome' \in outcomes
  /\ UNCHANGED <<src, arg>>

GetAsInt   == \E d \in Integer : Answer(d, AsInt(src, d, arg))
GetAsFloat == \E d \in Float : Answer(d, AsFloat(src, d, arg))
GetAsBool  == Answer("logical", AsBool(src, arg))

Elements(c) == CASE c \in Numeric  -> Values(c)
                 [] c = "logical"  -> {Bit(TRUE), Bit(FALSE)}
                 [] c = "other"    -> {NaN}

Init ==
  /\ src \in Numeric \cup {"logical", "other"}
  /\ arg \in Elements(src)
  /\ dest = "pending"
  /\ outcome = Pending

Next == GetAsInt \/ GetAsFloat \/ GetAsBool

Spec == Init /\ [][Next]_vars

-----------------------------------------------------------------------------
(* What a conversion did, in terms of the numbers and not of the code. *)

Answered == outcome.status = "got" /\ dest \in Numeric /\ src \in Numeric

\* The destination can hold the argument as it is.
Fits == dest \in Numeric /\ Holds(dest, arg)

Lossy == Answered /\ outcome.value # arg

\* Comparing the two classes takes place in an unsigned one.
ComparedUnsigned == CommonClass(src, dest) \in Unsigned

\* Below the least normal of the destination, in which zero is too.
TooSmall == Finite(arg) /\ Fabs(arg).n < MinOf(dest).n

\* Every answer is an element of the C++ type that was asked for.
TypeOK ==
  /\ src \in Numeric \cup {"logical", "other"}
  /\ dest \in Numeric \cup {"logical", "pending"}
  /\ outcome.status = "got" =>
       IF dest = "logical" THEN outcome.value \in {Bit(TRUE), Bit(FALSE)}
                           ELSE Holds(dest, outcome.value)

\* An accepted argument changes its value in four cases only: a negative
\* integer compared as an unsigned one, a float with a fraction or at the limit
\* that the float rounds up, an integer of more digits than the float has, and a
\* double between the singles or below the least one.
LossIsConfined ==
  Lossy =>
    \/ src \in Signed /\ dest \in Unsigned /\ arg.n < 0 /\ ComparedUnsigned
    \/ /\ src \in Float /\ dest \in Integer
       /\ arg.n % One # 0 \/ arg = Int1(MaxInt(dest) + 1)
    \/ /\ src \in Integer /\ dest \in Float
       /\ Fabs(arg).n > One * Pow2[Digits[dest]]
       /\ Fabs(arg).n <= One * Pow2[Digits[dest] + 1]
    \/ src = "double" /\ dest = "single" /\ ~Fits

\* An argument that fits is refused in four cases only: an unsigned integer
\* compared with a negative minimum as if both were unsigned, any uint64 asked
\* for as a float, an integer far beyond the mantissa, and a double that is zero,
\* infinite or below the least normal single.
RefusalIsConfined ==
  (outcome = Refused /\ Fits) =>
    \/ src \in Unsigned /\ dest \in Signed /\ ComparedUnsigned
    \/ src = "uint64" /\ dest \in Float
    \/ src \in Integer /\ dest \in Float /\ Fabs(arg).n > One * Pow2[Digits[dest] + 1]
    \/ src = "double" /\ dest = "single" /\ (arg = PosInf \/ TooSmall)

\* A float accepted as an integer moves towards zero by less than one, except at
\* the limit that the float rounds up, where the conversion is undefined.
TruncatesTowardsZero ==
  (Answered /\ src \in Float /\ dest \in Integer /\ arg # Int1(MaxInt(dest) + 1)) =>
    LET lost == Fabs(arg).n - Fabs(outcome.value).n
    IN  0 <= lost /\ lost < One /\ (outcome.value.n # 0 => (arg.n < 0 <=> outcome.value.n < 0))

-----------------------------------------------------------------------------
(* What the comment on the getAs methods says: an error is reported if the *)
(* conversion would lead to data loss.                                     *)

\* MexIFace.h:196-198, for an integer asked for as an integer.
IntegersAreKept == (src \in Integer /\ dest \in Integer) => ~Lossy
=============================================================================
