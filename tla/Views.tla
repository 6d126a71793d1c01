-------------------------------- MODULE Views --------------------------------
(***************************************************************************)
(* What the checks of MexIFace.h accept, the C++ objects that its to       *)
(* methods lay over Matlab's memory, and the Hypercube, which is a row of  *)
(* cubes laid over one block.                                              *)
(***************************************************************************)
EXTENDS MxArray

\* One for each template of getters.
Kinds == {"scalar", "vec", "mat", "cube", "hypercube", "string", "as", "asBool"}

checkScalarSize(m)    == GetM(m) <= 1 /\ GetN(m) <= 1
checkVectorSize(m)    == GetM(m) <= 1 \/ GetN(m) <= 1
checkNdim(m, n)       == Ndim(m) = n
checkMaxNdim(m, n)    == Ndim(m) <= n

\* getAs methods look at the class only.
checkClass(kind, class, m) ==
  CASE kind = "string" -> m.class = "char"
    [] kind = "as"     -> m.class \in NumericClasses
    [] kind = "asBool" -> m.class \in NumericClasses \cup {"logical"}
    [] OTHER           -> m.class = class

checkShape(kind, m) ==
  CASE kind = "scalar"            -> checkScalarSize(m)
    [] kind \in {"vec", "string"} -> checkVectorSize(m)
    [] kind = "mat"               -> checkNdim(m, 2)
    [] kind = "cube"              -> checkMaxNdim(m, 3)
    [] kind = "hypercube"         -> checkMaxNdim(m, 4)
    [] OTHER                      -> TRUE

Checked(kind, class, m) == checkClass(kind, class, m) /\ checkShape(kind, m)

-----------------------------------------------------------------------------
\* An Armadillo object without memory of its own: it begins at start of mem.
View(size, start, mem) == [size |-> size, start |-> start, mem |-> mem]

toScalar(m) == View(<<1>>, 0, m.data)
toVec(m)    == View(<<Numel(m)>>, 0, m.data)
toMat(m)    == View(<<GetM(m), GetN(m)>>, 0, m.data)
\* A C++ string ends at the first NUL.
toString(m) ==
  LET ends == {k \in DOMAIN m.data : m.data[k] = 0}
      n    == IF ends = {} THEN Numel(m) ELSE (CHOOSE k \in ends : \A j \in ends : k <= j) - 1
  IN  View(<<n>>, 0, m.data)
toCube_N(m) ==    \* mutant: all columns of all slices, for each slice
  View(<<GetM(m), GetN(m), IF Ndim(m) = 2 THEN 1 ELSE m.dims[3]>>, 0, m.data)

toCube(m)   ==
  View(IF Ndim(m) = 2 THEN <<GetM(m), GetN(m), 1>> ELSE SubSeq(m.dims, 1, 3), 0, m.data)

\* Each cube begins where the one before it ends.
Hypercube_Overlap(size, mem) ==    \* mutant: steps by one slice of a cube
  [size |-> size, cubes |-> [n \in 1 .. size[4] |->
     View(SubSeq(size, 1, 3), (n - 1) * size[1] * size[2], mem)]]

Hypercube(size, mem) ==
  [size |-> size, cubes |-> [n \in 1 .. size[4] |->
     View(SubSeq(size, 1, 3), (n - 1) * Extent(size, 1, 3), mem)]]

toHypercube(m) ==
  Hypercube(CASE Ndim(m) = 2 -> <<GetM(m), GetN(m), 1, 1>>
              [] Ndim(m) = 3 -> Append(m.dims, 1)
              [] OTHER       -> SubSeq(m.dims, 1, 4), m.data)

To(kind, m) ==
  CASE kind \in {"scalar", "as", "asBool"} -> toScalar(m)
    [] kind = "string"                     -> toString(m)
    [] kind = "vec"                        -> toVec(m)
    [] kind = "mat"                        -> toMat(m)
    [] kind = "cube"                       -> toCube(m)
    [] kind = "hypercube"                  -> toHypercube(m)

\* Armadillo is column-major; it refuses subscripts outside its size.
At(v, sub) == v.mem[v.start + Offset(v.size, sub) + 1]

\* operator() of a Hypercube.
HypercubeAt(h, sub) ==
  IF sub[4] > Len(h.cubes) THEN "out_of_range" ELSE At(h.cubes[sub[4]], SubSeq(sub, 1, 3))

\* The memory that the object covers is Matlab's.
Backed(v) ==
  IF Len(v.size) = 4 THEN \A n \in DOMAIN v.cubes : Extent(v.size, 1, 3) + v.cubes[n].start <= Len(v.cubes[n].mem)
  ELSE v.start + Extent(v.size, 1, Len(v.size)) <= Len(v.mem)

Get(v, sub) == IF Len(v.size) = 4 THEN HypercubeAt(v, sub) ELSE At(v, sub)
=============================================================================
