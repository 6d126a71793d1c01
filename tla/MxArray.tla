------------------------------- MODULE MxArray -------------------------------
(***************************************************************************)
(* Matlab's arrays as the mx functions show them to MexIFace: a class, at  *)
(* least two dimensions with no trailing ones after the second, and the    *)
(* elements in column-major order.  The elements of cells and structs are  *)
(* arrays or NULL; those of a struct array are its fields, element by      *)
(* element.  A sparse array has the class of its nonzeros, which are its   *)
(* data.  Everything here is Matlab's; numbers and characters are small    *)
(* integers.                                                               *)
(***************************************************************************)
EXTENDS Integers, Sequences

IntegerClasses == {"int8", "uint8", "int16", "uint16", "int32", "uint32", "int64", "uint64"}
NumericClasses == IntegerClasses \cup {"single", "double"}

\* The product of the dimensions from the a-th to the b-th.
Extent(dims, a, b) ==
  LET p[k \in a - 1 .. b] == IF k = a - 1 THEN 1 ELSE dims[k] * p[k - 1]
  IN  p[b]

Numel(m)  == Extent(m.dims, 1, Len(m.dims))
Ndim(m)   == Len(m.dims)
GetM(m)   == m.dims[1]
GetN(m)   == Extent(m.dims, 2, Len(m.dims))
Sparse(m) == m.jc # <<>>

\* Subscripts count from one, offsets from zero.
Subscripts(dims) ==
  LET widest == CHOOSE w \in {dims[d] : d \in DOMAIN dims} : \A d \in DOMAIN dims : dims[d] <= w
  IN  {s \in [DOMAIN dims -> 1 .. widest] : \A d \in DOMAIN dims : s[d] <= dims[d]}

Offset(dims, sub) ==
  LET o[d \in 0 .. Len(dims)] ==
        IF d = 0 THEN 0 ELSE o[d - 1] + (sub[d] - 1) * Extent(dims, 1, d - 1)
  IN  o[Len(dims)]

Trimmed(dims) ==
  SubSeq(dims, 1, CHOOSE n \in 2 .. Len(dims) :
                    /\ n = 2 \/ dims[n] # 1
                    /\ \A k \in n + 1 .. Len(dims) : dims[k] = 1)

Null == [class |-> "NULL"]

Array(class, dims, data) ==
  [class |-> class, dims |-> Trimmed(dims), data |-> data,
   names |-> <<>>, imag |-> <<>>, ir |-> <<>>, jc |-> <<>>]

Struct(dims, names, data)         == [Array("struct", dims, data) EXCEPT !.names = names]
ComplexArray(class, dims, re, im) == [Array(class, dims, re) EXCEPT !.imag = im]
SparseArray(dims, ir, jc, pr)     == [Array("double", dims, pr) EXCEPT !.ir = ir, !.jc = jc]

\* What holds of every array; a struct array has its fields element by element, and
\* a sparse one at most as many nonzeros as elements.
IsArray(m) ==
  /\ m.class \in NumericClasses \cup {"logical", "char", "cell", "struct"}
  /\ m.dims \in Seq(Nat) /\ Ndim(m) >= 2
  /\ Ndim(m) > 2 => m.dims[Ndim(m)] # 1
  /\ m.data \in Seq({m.data[n] : n \in DOMAIN m.data})
  /\ m.names \in Seq({m.names[n] : n \in DOMAIN m.names})
  /\ \A i, j \in DOMAIN m.names : m.names[i] = m.names[j] => i = j
  /\ IF m.class = "struct" THEN Len(m.data) = Numel(m) * Len(m.names)
                           ELSE Len(m.data) <= Numel(m)
  /\ m.class # "struct" /\ ~Sparse(m) => Len(m.data) = Numel(m)
  /\ Sparse(m) => m.class \in {"double", "logical"}
  /\ m.class = "logical" => m.imag = <<>> /\ \A n \in DOMAIN m.data : m.data[n] \in {0, 1}

\* mxGetCell and mxGetFieldByNumber of element 0: what was never set is NULL.
Count(m)      == IF m.class = "struct" THEN Len(m.names) ELSE Numel(m)
Element(m, n) == IF n <= Len(m.data) THEN m.data[n] ELSE Null
=============================================================================
