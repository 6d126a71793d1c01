------------------------------ MODULE MCNumeric ------------------------------
(* Widths 2, 4, 8, 12 for 8, 16, 32, 64 and mantissas of 5 and 9 for 24 and 53: *)
(* the order of the real ones; every value of every class is tried.            *)
EXTENDS NumericConversion

MCWidth ==
  [c \in Integer |->
     CASE c \in {"int8", "uint8"}   -> 2
       [] c \in {"int16", "uint16"} -> 4
       [] c \in {"int32", "uint32"} -> 8
       [] c \in {"int64", "uint64"} -> 12]

MCDigits   == [c \in Float |-> IF c = "single" THEN 5 ELSE 9]
MCLeastExp == [c \in Float |-> IF c = "single" THEN 1 ELSE 0]
MCMaxExp   == [c \in Float |-> IF c = "single" THEN 14 ELSE 16]
=============================================================================
