------------------------------- MODULE Marshal -------------------------------
(***************************************************************************)
(* The arguments of one method from Matlab to C++ and back: MexIFace.h     *)
(* reads them with its getters, one array at a time and the elements of a  *)
(* cell or a struct one by one, and makes the outputs with toMXArray.  A   *)
(* name nobody mapped makes a debug build print the arguments instead, and *)
(* MexIFaceMixin turns a returned dictionary into a struct of structs.     *)
(*                                                                         *)
(* A method gets as many arguments as it was passed: that much its own     *)
(* check of the counts ensures (MexCall).                                  *)
(***************************************************************************)
EXTENDS Views, Explore, Stats

CONSTANTS
  Arrays,      \* the arguments that Matlab passes
  MaxArgs,     \* most of them in one call (bound)
  Getters,     \* what methods get: [in |-> "one", "cell" or "struct", kind, class]
  SpMats,      \* sparse matrices that methods compute
  StatDicts    \* dictionaries that methods compute, functions of names

VARIABLES
  rhs, rhs_idx,    \* the arguments and the cursor into them
  gets,            \* the getters called so far
  box,             \* the cell or struct whose elements are being read
  values, lhs,     \* what the getters returned, and the outputs
  computed,        \* a matrix or a dictionary that the method computed
  printed,         \* what exploreMexArgs printed
  stats,           \* what convertStatsToStructs made of a dictionary
  pc, outcome

input  == <<rhs, rhs_idx, gets, box, values>>
result == <<computed, lhs, printed, stats>>
vars   == <<input, result, pc, outcome>>

NoBox == [get |-> Null, array |-> Null, got |-> <<>>]

ASSUME MarshalAssumption ==
  /\ MaxArgs \in Nat
  /\ Null \notin Arrays /\ \A m \in Arrays : Count(m) \in Nat

\* Arrays are Matlab's, and so is what is in a cell or a field.
ASSUME ArraysAssumption ==
  \A m \in Arrays :
    /\ IsArray(m) /\ \A i \in DOMAIN m.names : m.names[i] \in Names
    /\ m.class \in {"cell", "struct"} =>
         \A n \in 1 .. Count(m) : Element(m, n) = Null \/ IsArray(Element(m, n))

\* An Armadillo sparse matrix: the nonzeros of a column follow those of the one before.
IsSpMat(s) ==
  /\ s.n_rows \in Nat /\ s.n_cols \in Nat
  /\ s.col_ptrs \in Seq(Nat) /\ Len(s.col_ptrs) = s.n_cols + 1 /\ s.col_ptrs[1] = 0
  /\ \A c \in 1 .. s.n_cols : s.col_ptrs[c] <= s.col_ptrs[c + 1]
  /\ s.row_indices \in Seq(Nat) /\ Len(s.row_indices) = s.col_ptrs[s.n_cols + 1]
  /\ Len(s.values) = Len(s.row_indices)

ASSUME SpMatsAssumption == \A s \in SpMats : IsSpMat(s)

\* A std::map of numbers, by name.
ASSUME StatDictsAssumption == \A d \in StatDicts : DOMAIN d \subseteq Names

\* A getter is an instance of a template for an element type; only cubes and less
\* are gotten from a cell or a struct.
ASSUME GettersAssumption ==
  \A g \in Getters :
    /\ g.in \in {"one", "cell", "struct"} /\ g.kind \in Kinds
    /\ g.class \in NumericClasses \cup {"logical"}
    /\ g.in # "one" => g.kind # "hypercube"

Init ==
  /\ rhs = <<>> /\ rhs_idx = 0 /\ gets = <<>> /\ box = NoBox /\ values = <<>>
  /\ computed = Null /\ lhs = <<>> /\ printed = <<>> /\ stats = NoStats
  /\ pc = "idle" /\ outcome = "none"

Call ==
  /\ pc = "idle"
  /\ \E n \in 0 .. MaxArgs : rhs' \in [1 .. n -> Arrays]
  /\ pc' = "run"
  /\ UNCHANGED <<rhs_idx, gets, box, values, result, outcome>>

Ends(what) == pc' = "done" /\ outcome' = what

-----------------------------------------------------------------------------
(* The getters.  if(m == nullptr) m = rhs[rhs_idx++] *)

Next_rhs == IF rhs_idx < Len(rhs) THEN rhs[rhs_idx + 1] ELSE Null   \* NULL: past the end

\* Reading the first element of an empty array, or all of a sparse one, leaves Matlab's memory.
Wild(kind, m) == ~Backed(To(kind, m))

\* A checked array becomes what the method asked for; a getAs may also refuse its value.
Outcomes(g, m) ==
  CASE m = Null                                     -> {"wild"}
    [] m # Null /\ ~Checked(g.kind, g.class, m)     -> {"error"}
    [] OTHER -> (IF Wild(g.kind, m) THEN {"wild"} ELSE {"ok"})
                  \cup (IF g.kind = "as" THEN {"error"} ELSE {})

Value(g, m) == [kind |-> g.kind, class |-> g.class, view |-> To(g.kind, m)]

GetOne(g) ==
  /\ g.in = "one" /\ UNCHANGED box
  /\ \E o \in Outcomes(g, Next_rhs) :
       IF o = "ok" THEN values' = Append(values, Value(g, Next_rhs)) /\ UNCHANGED <<pc, outcome>>
                   ELSE Ends(o) /\ UNCHANGED values

\* getStringArray, getScalarArray, getAsScalarArray take a cell, the Dict getters one struct.
IsBox(g, m) == m.class = g.in /\ IF g.in = "cell" THEN checkVectorSize(m) ELSE checkScalarSize(m)

OpenBox(g) ==
  /\ g.in # "one"
  /\ IF IsBox(g, Next_rhs)
       THEN box' = [get |-> g, array |-> Next_rhs, got |-> <<>>] /\ UNCHANGED <<pc, outcome>>
       ELSE Ends("error") /\ UNCHANGED box
  /\ UNCHANGED values

GetArg ==
  /\ pc = "run" /\ box = NoBox /\ Len(gets) < Len(rhs)
  /\ \E g \in Getters :
       /\ gets' = Append(gets, g)
       /\ rhs_idx' = rhs_idx + 1
       /\ IF Next_rhs = Null THEN Ends("wild") /\ UNCHANGED <<box, values>>
                             ELSE GetOne(g) \/ OpenBox(g)
  /\ UNCHANGED <<rhs, result>>

GetElement_MovesCursor ==    \* mutant: the cursor moves for every element
  /\ pc = "run" /\ box # NoBox /\ Len(box.got) < Count(box.array)
  /\ LET e == Element(box.array, Len(box.got) + 1)
     IN  box' = [box EXCEPT !.got = Append(@, e)] /\ rhs_idx' = rhs_idx + 1
  /\ UNCHANGED <<rhs, gets, values, result, pc, outcome>>

\* The element getter is handed NULL for what was never set, and takes an argument for it.
GetElement ==
  /\ pc = "run" /\ box # NoBox /\ Len(box.got) < Count(box.array)
  /\ LET e == Element(box.array, Len(box.got) + 1)
         m == IF e = Null THEN Next_rhs ELSE e
     IN  /\ rhs_idx' = IF e = Null THEN rhs_idx + 1 ELSE rhs_idx
         /\ \E o \in Outcomes(box.get, m) :
              IF o = "ok" THEN /\ box' = [box EXCEPT !.got = Append(@, Value(box.get, m))]
                               /\ UNCHANGED <<pc, outcome>>
                          ELSE Ends(o) /\ UNCHANGED box
  /\ UNCHANGED <<rhs, gets, values, result>>

\* A Dict is a function of the names of its fields.
Collected ==
  IF box.get.in = "cell" THEN [list |-> box.got]
  ELSE LET name == box.array.names
           at(f) == CHOOSE i \in DOMAIN name : name[i] = f
       IN  [dict |-> [f \in {name[i] : i \in DOMAIN name} |-> box.got[at(f)]]]

CloseBox_StaysOpen ==    \* mutant: the loop ends but the container is read again
  /\ pc = "run" /\ box # NoBox /\ Len(box.got) = Count(box.array)
  /\ values' = Append(values, Collected) /\ box' = [box EXCEPT !.got = <<>>]
  /\ UNCHANGED <<rhs, rhs_idx, gets, result, pc, outcome>>

CloseBox ==
  /\ pc = "run" /\ box # NoBox /\ Len(box.got) = Count(box.array)
  /\ values' = Append(values, Collected) /\ box' = NoBox
  /\ UNCHANGED <<rhs, rhs_idx, gets, result, pc, outcome>>

-----------------------------------------------------------------------------
(* toMXArray *)

Elements(v) == SubSeq(v.view.mem, v.view.start + 1, v.view.start + Extent(v.view.size, 1, Len(v.view.size)))

OneToMXArray_Row(v) ==    \* mutant: what is one-dimensional becomes a row
  LET size == IF Len(v.view.size) = 1 THEN <<1, v.view.size[1]>> ELSE v.view.size
  IN  Array(IF v.kind = "string" THEN "char" ELSE v.class, size, Elements(v))

OneToMXArray(v) ==
  LET size == v.view.size
  IN  CASE v.kind = "string" -> Array("char", IF size = <<0>> THEN <<0, 0>> ELSE <<1, size[1]>>, Elements(v))
        [] v.kind = "asBool" -> Array("logical", <<1, 1>>, <<IF Elements(v)[1] = 0 THEN 0 ELSE 1>>)
        [] OTHER             -> Array(v.class, IF Len(size) = 1 THEN <<size[1], 1>> ELSE size, Elements(v))

ListToMXArray(list) == Array("cell", <<Len(list), 1>>, [n \in DOMAIN list |-> OneToMXArray(list[n])])

DictToMXArray_Reversed(dict) ==    \* mutant: fields in the opposite order
  LET names == Sorted(DOMAIN dict)
      back  == [i \in DOMAIN names |-> names[Len(names) + 1 - i]]
  IN  Struct(<<1, 1>>, back, [i \in DOMAIN names |-> OneToMXArray(dict[back[i]])])

\* A std::map is in the order of its names.
DictToMXArray(dict) ==
  LET names == Sorted(DOMAIN dict)
  IN  Struct(<<1, 1>>, names, [i \in DOMAIN names |-> OneToMXArray(dict[names[i]])])

toMXArray(v) ==
  CASE "list" \in DOMAIN v -> ListToMXArray(v.list)
    [] "dict" \in DOMAIN v -> DictToMXArray(v.dict)
    [] OTHER               -> OneToMXArray(v)

\* mxCreateSparse gives column pointers of zero; n_rows+1 of them are copied.
CopiedPointers_Short(s) ==    \* mutant: the last of them is left out
  [c \in 1 .. s.n_cols + 1 |-> IF c <= s.n_rows THEN s.col_ptrs[c] ELSE 0]

CopiedPointers(s) ==
  [c \in 1 .. s.n_cols + 1 |-> IF c <= s.n_rows + 1 THEN s.col_ptrs[c] ELSE 0]

SpMatToMXArray(s) == SparseArray(<<s.n_rows, s.n_cols>>, s.row_indices, CopiedPointers(s), s.values)

GotAll == pc = "run" /\ box = NoBox /\ Len(gets) = Len(rhs)

\* output(toMXArray(v)) of all it got; a Hypercube has no output.
HasOutput(v) == "kind" \in DOMAIN v => v.kind # "hypercube"
Echo ==
  /\ GotAll
  /\ lhs' = [k \in DOMAIN values |-> IF HasOutput(values[k]) THEN toMXArray(values[k]) ELSE Null]
  /\ Ends("echo") /\ UNCHANGED <<input, computed, printed, stats>>

\* More columns than rows lose pointers; more rows than columns write past them.
OutputSparse ==
  /\ GotAll /\ rhs = <<>>
  /\ \E s \in SpMats :
       /\ computed' = s
       /\ lhs' = <<SpMatToMXArray(s)>>
       /\ Ends(IF s.n_rows > s.n_cols THEN "wild" ELSE "sparse")
       /\ UNCHANGED <<input, printed, stats>>

\* A dictionary of numbers is output and converted by the Matlab class.
OutputStats ==
  /\ GotAll /\ rhs = <<>>
  /\ \E d \in StatDicts :
       LET numbers == [f \in DOMAIN d |-> [kind |-> "scalar", class |-> "double", view |-> View(<<1>>, 0, <<d[f]>>)]]
       IN  /\ computed' = d
           /\ lhs' = <<DictToMXArray(numbers)>>
           /\ stats' = convertStatsToStructs(lhs'[1].names, [i \in DOMAIN lhs'[1].data |-> lhs'[1].data[i].data[1]])
  /\ Ends("stats") /\ UNCHANGED <<input, printed>>

\* callMethod of an unknown name in a debug build.
UnknownMethod ==
  /\ pc = "run" /\ gets = <<>>
  /\ IF Crashes(rhs) THEN Ends("wild") /\ UNCHANGED printed
                     ELSE Ends("unknown") /\ printed' = exploreMexArgs(rhs)
  /\ UNCHANGED <<input, computed, lhs, stats>>

Return ==
  /\ pc = "done"
  /\ rhs' = <<>> /\ rhs_idx' = 0 /\ gets' = <<>> /\ box' = NoBox /\ values' = <<>>
  /\ computed' = Null /\ lhs' = <<>> /\ printed' = <<>> /\ stats' = NoStats
  /\ pc' = "idle" /\ outcome' = "none"

Next == Call \/ GetArg \/ GetElement \/ CloseBox \/ Echo \/ OutputSparse \/ OutputStats \/ UnknownMethod \/ Return

Spec == Init /\ [][Next]_vars

-----------------------------------------------------------------------------
(* What an argument is to a getter, read by its definition. *)

Dense(m)     == ~Sparse(m) /\ m.data # <<>>
Populated(m) ==
  m.class \in {"cell", "struct"} => \A n \in 1 .. Count(m) : Element(m, n) # Null
AllPopulated == \A i \in DOMAIN rhs : Populated(rhs[i])

\* The subscript in an object of rank r of what is at sub in Matlab's array.
Ranked(m, sub, r) ==
  CASE r = 1 -> <<Offset(m.dims, sub) + 1>>
    [] r = 2 -> <<sub[1], Offset(m.dims, sub) \div m.dims[1] + 1>>
    [] OTHER -> [d \in 1 .. r |-> IF d <= Len(sub) THEN sub[d] ELSE 1]

\* The object has every element of the array, each where its subscripts say.
Shows(v, m) ==
  LET size == v.view.size
  IN  /\ Extent(size, 1, Len(size)) = Numel(m)
      /\ \A sub \in Subscripts(m.dims) :
           Get(v.view, Ranked(m, sub, Len(size))) = m.data[Offset(m.dims, sub) + 1]

IsValueOf(v, m) ==
  CASE v.kind = "string" -> \A i \in DOMAIN Elements(v) : Elements(v)[i] = m.data[i]
    [] v.kind \in {"as", "asBool"} -> Elements(v) = <<m.data[1]>>
    [] OTHER -> Sparse(m) \/ Shows(v, m)

\* An output has the elements of the input, in Matlab's order: an array that went
\* through C++ keeps its shape as a Mat or a Cube and becomes a column as a Vec.
IsEchoOf(out, v, m) ==
  CASE v.kind = "string" -> out.class = "char" /\ \A i \in DOMAIN out.data : out.data[i] = m.data[i]
    [] v.kind \in {"as", "asBool"} -> out.dims = <<1, 1>>
    [] OTHER -> /\ out.class = m.class /\ out.data = m.data
                /\ out.dims = IF v.kind = "vec" THEN <<Numel(m), 1>> ELSE m.dims

\* The fields of the k-th argument by name.
Field(m, name) == m.data[CHOOSE i \in DOMAIN m.names : m.names[i] = name]

-----------------------------------------------------------------------------
TypeOK ==
  /\ Len(rhs) <= MaxArgs /\ \A i \in DOMAIN rhs : rhs[i] \in Arrays
  /\ rhs_idx \in Nat
  /\ gets \in Seq(Getters) /\ Len(gets) <= Len(rhs)
  /\ Len(values) <= Len(gets)
  /\ pc \in {"idle", "run", "done"}
  /\ outcome \in {"none", "error", "wild", "echo", "sparse", "stats", "unknown"}

\* The cursor has moved once per getter, as long as no argument has an unpopulated
\* cell or field: for each of those the element getter takes an argument.
CursorCountsGets == AllPopulated => rhs_idx = Len(gets)

\* Then the k-th value is made of the k-th argument, element by element and each
\* where Matlab has it, whatever shape the object in C++ gives it.
ValuesAreArguments ==
  AllPopulated =>
    \A k \in DOMAIN values :
      LET v == values[k]
          m == rhs[k]
      IN  CASE "list" \in DOMAIN v -> /\ Len(v.list) = Numel(m)
                                      /\ \A n \in DOMAIN v.list : IsValueOf(v.list[n], m.data[n])
            [] "dict" \in DOMAIN v -> /\ DOMAIN v.dict = {m.names[i] : i \in DOMAIN m.names}
                                      /\ \A f \in DOMAIN v.dict : IsValueOf(v.dict[f], Field(m, f))
            [] OTHER -> IsValueOf(v, m)

\* What is read is Matlab's: only a scalar taken from an empty array, a sparse array
\* taken for a full one, and an unpopulated cell or field read past it.
WildIsConfined ==
  (outcome = "wild" /\ gets # <<>> /\ AllPopulated) =>
    LET m == rhs[Len(gets)]
        read == IF box = NoBox THEN m ELSE Element(m, Len(box.got) + 1)
    IN  ~Dense(read)

\* What a method outputs as it got it comes back the same.
EchoKeepsElements ==
  (outcome = "echo" /\ AllPopulated) =>
    \A k \in {j \in DOMAIN lhs : HasOutput(values[j])} :
      LET v == values[k]
          m == rhs[k]
      IN  CASE "list" \in DOMAIN v -> \A n \in 1 .. Numel(m) : IsEchoOf(lhs[k].data[n], v.list[n], m.data[n])
            [] "dict" \in DOMAIN v ->
                 /\ Len(lhs[k].names) = Len(m.names)
                 /\ \A f \in DOMAIN v.dict : IsEchoOf(Field(lhs[k], f), v.dict[f], Field(m, f))
            [] OTHER -> Sparse(m) \/ IsEchoOf(lhs[k], v, m)

\* The nonzeros of a computed matrix arrive, but for columns after the n_rows-th,
\* whose pointers are not copied; and nothing else does.
Entries(s) ==
  UNION {{<<s.row_indices[k] + 1, c, s.values[k]>> :
             k \in s.col_ptrs[c] + 1 .. s.col_ptrs[c + 1]} : c \in 1 .. s.n_cols}
SparseIsKept ==
  outcome = "sparse" =>
    LET s     == computed
        lines == analyze_sparse(lhs[1])
    IN  /\ lhs[1].dims = <<s.n_rows, s.n_cols>>
        /\ \A i \in DOMAIN lines : <<lines[i].at[1], lines[i].at[2], lines[i].re>> \in Entries(s)
        /\ \A e \in Entries(s) :
             e[2] <= s.n_rows => \E i \in DOMAIN lines : lines[i].at = <<e[1], e[2]>> /\ lines[i].re = e[3]

\* exploreMexArgs shows every element once, under its own subscript; the real parts
\* of a complex uint8 array are all its first.
ShownAt(lines, m) ==
  /\ Len(lines) = Numel(m)
  /\ \A sub \in Subscripts(m.dims) : \E l \in {lines[i] : i \in DOMAIN lines} :
       /\ l.at = sub
       /\ l.re = m.data[Offset(m.dims, sub) + 1] \/ (m.class = "uint8" /\ m.imag # <<>>)
       /\ l.im = IF m.imag = <<>> THEN <<>> ELSE <<m.imag[Offset(m.dims, sub) + 1]>>

\* A line of text has the characters of its row, one for each column.
TextAt(lines, m) ==
  \A sub \in Subscripts(m.dims) :
    \E l \in {lines[i] : i \in DOMAIN lines} :
      /\ l.at = [sub EXCEPT ![2] = 1]
      /\ l.text[sub[2]] = m.data[Offset(m.dims, sub) + 1]

PrintedIsShown ==
  outcome = "unknown" =>
    \A i \in DOMAIN rhs :
      LET m == rhs[i]
      IN  CASE m.class \in NumericClasses \cup {"logical"} -> Sparse(m) \/ ShownAt(printed[i], m)
            [] m.class = "char" -> TextAt(printed[i], m)
            [] m.class = "cell" ->
                 \A sub \in Subscripts(m.dims) : \E n \in DOMAIN printed[i] :
                   /\ printed[i][n].at = sub
                   /\ printed[i][n].in = analyze_element(Element(m, Offset(m.dims, sub) + 1))
            [] OTHER ->
                 \A sub \in Subscripts(m.dims), f \in DOMAIN m.names : \E n \in DOMAIN printed[i] :
                   /\ printed[i][n].at = sub /\ printed[i][n].field = m.names[f]
                   /\ printed[i][n].in = analyze_element(Element(m, Offset(m.dims, sub) * Len(m.names) + f))

\* Names of dictionaries: which come first, what their parts are, what shares a group.
Before(g, h) == \E i, j \in DOMAIN NameOrder : i < j /\ NameOrder[i] = g /\ NameOrder[j] = h

Pair(f)    == Len(Parts[f]) = 2
Indexed(f) == Pair(f) /\ Parts[f][2] \in DOMAIN Index
Keyed(f)   == Pair(f) /\ Parts[f][2] \notin DOMAIN Index
Group(f, names)   == {h \in names : Parts[h][1] = Parts[f][1]}
Uniform(f, names) ==
  \/ Group(f, names) = {f}
  \/ \A h \in Group(f, names) : Indexed(h)
  \/ \A h \in Group(f, names) : Keyed(h)

\* A dictionary d became the struct s.
IsConversion(d, s) ==
  LET names   == DOMAIN d
      num(f)  == Index[Parts[f][2]]
      alone(f) == Indexed(f) => \A h \in Group(f, names) \ {f} : num(h) # num(f)
      member(f) == s.made[Parts[f][1]]
      kept(f) == /\ ~Pair(f)   => member(f).array = <<d[f]>>
                 /\ Indexed(f) => member(f).array[num(f)] = d[f]
                 /\ Keyed(f)   => member(f).struct[Parts[f][2]] = d[f]
  IN  /\ (\A f \in names : Uniform(f, names)) =>
           s.failed = \E f \in names : Indexed(f) /\ num(f) < 1
      /\ ~s.failed =>
           /\ \A f \in names : Uniform(f, names) /\ alone(f) => kept(f)
           /\ \A f, h \in names : Indexed(f) /\ Keyed(h) /\ Parts[h][1] = Parts[f][1] => Before(h, f)

\* Converting what C++ returned keeps every number where its name says, as long as its
\* group has names of one kind and no two with one index; if all groups are of one kind,
\* only an index below 1 is an error; and a key that comes after an index is refused.
StatsAreKept == outcome = "stats" => IsConversion(computed, stats)
=============================================================================
