------------------------------- MODULE Explore -------------------------------
(***************************************************************************)
(* exploreMexArgs of MexUtils.cpp and the analyze functions of explore.cpp *)
(* as the lines they print: a subscript and what stands there.             *)
(***************************************************************************)
EXTENDS MxArray

Line(sub, re, im) == [at |-> sub, re |-> re, im |-> im]

\* From the last dimension to the first: what the dimensions above leave of the index.
display_subscript_NoRemainder(m, index) ==   \* mutant: the index is divided as it is
  [d \in DOMAIN m.dims |-> (index \div Extent(m.dims, 1, d - 1)) + 1]

display_subscript(m, index) ==
  LET nd == Ndim(m)
      subindex[d \in 1 .. nd] ==
        IF d = nd THEN index ELSE subindex[d + 1] % Extent(m.dims, 1, d)
  IN  [d \in 1 .. nd |-> (subindex[d] \div Extent(m.dims, 1, d - 1)) + 1]

\* pr and pi move with the index, but for the pr of analyze_uint8 on complex data.
RealAt(m, i) == IF m.class = "uint8" /\ m.imag # <<>> THEN m.data[1] ELSE m.data[i]

analyze_numeric(m) ==
  [i \in 1 .. Numel(m) |->
     Line(display_subscript(m, i - 1), RealAt(m, i), IF m.imag = <<>> THEN <<>> ELSE <<m.imag[i]>>)]

analyze_logical(m) ==
  [i \in 1 .. Numel(m) |-> Line(display_subscript(m, i - 1), IF m.data[i] = 0 THEN 0 ELSE 1, <<>>)]

\* Page by page and row by row; the columns of a row are dims[1] apart.
analyze_string(m) ==
  LET page == m.dims[1] * m.dims[2]
      index(k) == ((k - 1) \div m.dims[1]) * page + ((k - 1) % m.dims[1])
  IN  [k \in 1 .. m.dims[1] * Extent(m.dims, 3, Ndim(m)) |->
         [at   |-> display_subscript(m, index(k)),
          text |-> [c \in 1 .. m.dims[2] |-> m.data[index(k) + (c - 1) * m.dims[1] + 1]]]]

\* total counts the values printed; ir is read where jc says.
analyze_sparse(m) ==
  LET after[col \in 0 .. GetN(m)] ==
        IF col = 0 THEN <<>>
        ELSE LET first == m.jc[col]
                 last  == m.jc[col + 1]
                 total == Len(after[col - 1])
             IN  after[col - 1] \o
                   [k \in 1 .. (IF first < last THEN last - first ELSE 0) |->
                      Line(<<m.ir[first + k] + 1, col>>, m.data[total + k], <<>>)]
  IN  after[GetN(m)]

\* What is in a cell or a field; cells in cells are left out (bound).
analyze_element(m) ==
  IF m = Null THEN "Empty"
  ELSE IF Sparse(m) THEN analyze_sparse(m)
  ELSE CASE m.class = "char"             -> analyze_string(m)
         [] m.class = "logical"          -> analyze_logical(m)
         [] m.class \in NumericClasses   -> analyze_numeric(m)

analyze_cell(m) ==
  [n \in 1 .. Numel(m) |->
     [at |-> display_subscript(m, n - 1), in |-> analyze_element(Element(m, n))]]

analyze_structure(m) ==
  LET fields == Len(m.names)
  IN  [k \in 1 .. Numel(m) * fields |->
         [at    |-> display_subscript(m, (k - 1) \div fields),
          field |-> m.names[((k - 1) % fields) + 1],
          in    |-> analyze_element(Element(m, k))]]

analyze_class(m) ==
  CASE m.class = "struct" -> analyze_structure(m)
    [] m.class = "cell"   -> analyze_cell(m)
    [] OTHER              -> analyze_element(m)

\* A string array with rows and pages but no columns: display_subscript divides the
\* index of a row by a product that is zero.
DividesByZero(m) ==
  /\ m.class = "char" /\ m.dims[1] * Extent(m.dims, 3, Ndim(m)) > 0
  /\ Extent(m.dims, 1, Ndim(m) - 1) = 0

Crashes(args) ==
  \E i \in DOMAIN args :
    \/ DividesByZero(args[i])
    \/ /\ args[i].class \in {"cell", "struct"}
       /\ \E n \in DOMAIN args[i].data : DividesByZero(args[i].data[n])

exploreMexArgs(args) == [i \in DOMAIN args |-> analyze_class(args[i])]
=============================================================================
