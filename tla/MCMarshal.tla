------------------------------ MODULE MCMarshal ------------------------------
(* Arrays of every rank that the getters tell apart, empty ones included. *)
EXTENDS Marshal, TLC

Numbers123(n) == [i \in 1 .. n |-> i]
Double(dims)  == Array("double", dims, Numbers123(Extent(dims, 1, Len(dims))))

Shapes == {<<0, 0>>, <<1, 0>>, <<1, 1>>, <<1, 3>>, <<3, 1>>, <<2, 3>>, <<2, 1, 2>>,
           <<2, 3, 2>>, <<2, 1, 2, 2>>, <<1, 1, 1, 1, 2>>}

Scalar == Array("double", <<1, 1>>, <<7>>)
Small  == Array("int8", <<1, 1>>, <<3>>)
Truth  == Array("logical", <<1, 1>>, <<1>>)
Word   == Array("char", <<1, 2>>, <<65, 66>>)
NulWord == Array("char", <<1, 3>>, <<65, 0, 66>>)

MCArrays ==
  {Double(s) : s \in Shapes} \cup
  {Small, Truth, Word, NulWord,
   Array("char", <<2, 3, 2>>, Numbers123(12)), Array("char", <<1, 0, 2>>, <<>>),
   ComplexArray("uint8", <<1, 2>>, <<1, 2>>, <<3, 4>>),
   ComplexArray("double", <<2, 2>>, <<1, 2, 3, 4>>, <<5, 6, 7, 8>>),
   SparseArray(<<2, 2>>, <<1>>, <<0, 0, 1>>, <<5>>),
   Array("cell", <<0, 0>>, <<>>),
   Array("cell", <<1, 2>>, <<Scalar, Null>>),
   Array("cell", <<1, 2>>, <<Null, Word>>),
   Array("cell", <<2, 1>>, <<Scalar, Small>>),
   Array("cell", <<1, 2>>, <<Word, NulWord>>),
   Array("cell", <<1, 2>>, <<Scalar, Double(<<0, 0>>)>>),
   Array("cell", <<2, 2>>, <<Scalar, Small, Word, Truth>>),
   Struct(<<1, 1>>, <<"q", "p">>, <<Scalar, Double(<<1, 1>>)>>),
   Struct(<<1, 1>>, <<"q", "p">>, <<Double(<<1, 3>>), Double(<<2, 3>>)>>),
   Struct(<<1, 1>>, <<"q", "p">>, <<Null, Scalar>>),
   Struct(<<1, 1>>, <<"p">>, <<Double(<<2, 1, 2>>)>>),
   Struct(<<0, 0>>, <<"p">>, <<>>),
   Struct(<<2, 1>>, <<"p", "q">>, <<Scalar, Small, Word, Truth>>)}

Of(in, kinds, class) == [in : {in}, kind : kinds, class : {class}]
MCGetters ==
  Of("one", {"scalar", "vec", "mat", "cube", "hypercube", "as", "asBool", "string"}, "double")
  \cup Of("cell", {"string", "scalar", "as"}, "double")
  \cup Of("struct", {"scalar", "vec", "mat", "cube", "as"}, "double")
  \cup Of("one", {"scalar"}, "int8")

SpMat(r, c, rows, ptrs, vals) ==
  [n_rows |-> r, n_cols |-> c, row_indices |-> rows, col_ptrs |-> ptrs, values |-> vals]
MCSpMats ==
  {SpMat(2, 2, <<0, 1, 0>>, <<0, 2, 3>>, <<4, 5, 6>>),
   SpMat(1, 3, <<0, 0>>, <<0, 1, 1, 2>>, <<4, 5>>),
   SpMat(1, 3, <<0>>, <<0, 1, 1, 1>>, <<4>>),
   SpMat(2, 4, <<1, 0, 1>>, <<0, 1, 1, 2, 3>>, <<4, 5, 6>>),
   SpMat(3, 2, <<2, 0>>, <<0, 1, 2>>, <<4, 5>>)}

MCNameOrder == <<"g", "g.0", "g.01", "g.1", "g.3", "g.a", "g.b", "h.2", "h.a", "p", "p.q.r", "q">>
MCParts ==
  ("g" :> <<"g">>) @@ ("g.0" :> <<"g", "0">>) @@ ("g.01" :> <<"g", "01">>) @@ ("g.1" :> <<"g", "1">>) @@ ("g.3" :> <<"g", "3">>)
  @@ ("g.a" :> <<"g", "a">>) @@ ("g.b" :> <<"g", "b">>) @@ ("h.2" :> <<"h", "2">>)
  @@ ("h.a" :> <<"h", "a">>) @@ ("p" :> <<"p">>) @@ ("p.q.r" :> <<"p", "q", "r">>) @@ ("q" :> <<"q">>)
MCIndex == ("0" :> 0) @@ ("01" :> 1) @@ ("1" :> 1) @@ ("2" :> 2) @@ ("3" :> 3)

\* The value of a name is its place in the order.
MCStatDicts ==
  {[f \in names |-> CHOOSE i \in DOMAIN MCNameOrder : MCNameOrder[i] = f] :
     names \in SUBSET {MCNameOrder[i] : i \in DOMAIN MCNameOrder}}
=============================================================================
