---------------------------- MODULE MarshalProofs ----------------------------
(***************************************************************************)
(* For every set of arguments and getters: the cursor counts the getters,  *)
(* as long as every cell and field is populated; a value is its argument,  *)
(* element by element; nothing outside Matlab's arrays is read but for     *)
(* those that have no elements of their own; an output is the input that   *)
(* it was made of; what is printed is every element under its subscript.   *)
(* And for every result that a method computes: which entries of a sparse  *)
(* matrix arrive, and which numbers of a dictionary the Matlab class keeps.*)
(***************************************************************************)
EXTENDS ArrayProofs

\* What getters are handed, and what they make of it.
Handed == Arrays \cup {Element(a, n) : a \in Arrays, n \in Nat}
Got    == {Value(g, m) : g \in Getters, m \in Handed}

OpenBoxes == [get : Getters, array : Arrays, got : Seq(Got)]

Types ==
  /\ rhs \in Seq(Arrays) /\ rhs_idx \in Nat
  /\ gets \in Seq(Getters) /\ Len(gets) <= Len(rhs)
  /\ box = NoBox \/ box \in OpenBoxes
  /\ pc \in {"idle", "run", "done"}

\* Between calls nothing is under way.
Idle == pc = "idle" => rhs_idx = 0 /\ gets = <<>> /\ box = NoBox

\* The container that is read is the argument taken last.
BoxIsLast ==
  AllPopulated /\ box # NoBox =>
    /\ Len(gets) \in DOMAIN rhs /\ box.array = rhs[Len(gets)]
    /\ box.array.class \in {"cell", "struct"}

\* A call begins without an outcome.
FreshOutcome == pc = "idle" => outcome = "none"

IInv == Types /\ Idle /\ CursorCountsGets /\ BoxIsLast /\ FreshOutcome

-----------------------------------------------------------------------------
LEMMA Initial == Init => IInv
  BY MarshalAssumption
  DEF Init, IInv, Types, Idle, CursorCountsGets, AllPopulated, BoxIsLast, FreshOutcome

\* The next argument is there while fewer were gotten than passed.
LEMMA NextIsThere ==
  ASSUME IInv, AllPopulated, Len(gets) < Len(rhs)
  PROVE  /\ Next_rhs = rhs[Len(gets) + 1] /\ Next_rhs # Null /\ Next_rhs \in Arrays
         /\ Len(gets) + 1 \in DOMAIN rhs
  BY MarshalAssumption DEF IInv, Types, CursorCountsGets, Next_rhs

\* An argument is never NULL, and NULL is not an argument.
LEMMA NextIsArgument ==
  ASSUME IInv, Next_rhs # Null
  PROVE  Next_rhs \in Arrays
  BY MarshalAssumption DEF IInv, Types, Next_rhs

LEMMA CallStep == ASSUME IInv, Call PROVE IInv'
<1>. USE DEF IInv
<1>1. PICK n \in 0 .. MaxArgs : rhs' \in [1 .. n -> Arrays]
  BY DEF Call
<1>2. rhs' \in Seq(Arrays) /\ Len(rhs') = n
  BY <1>1, MarshalAssumption
<1>3. pc = "idle" /\ pc' = "run" /\ rhs_idx' = 0 /\ gets' = <<>> /\ box' = NoBox /\ outcome' = "none"
  BY DEF Call, Idle, FreshOutcome
<1>4. QED
  BY <1>2, <1>3 DEF Types, Idle, CursorCountsGets, BoxIsLast, FreshOutcome

LEMMA GetArgStep == ASSUME IInv, GetArg PROVE IInv'
<1>. USE DEF IInv
<1>1. PICK g \in Getters :
        /\ gets' = Append(gets, g) /\ rhs_idx' = rhs_idx + 1
        /\ IF Next_rhs = Null THEN Ends("wild") /\ UNCHANGED <<box, values>>
                              ELSE GetOne(g) \/ OpenBox(g)
  BY DEF GetArg
<1>2. pc = "run" /\ box = NoBox /\ Len(gets) < Len(rhs) /\ rhs' = rhs
  BY DEF GetArg
<1>3. gets' \in Seq(Getters) /\ Len(gets') = Len(gets) + 1 /\ gets' # <<>>
  BY <1>1 DEF Types
<1>4. box' = NoBox \/ (/\ Next_rhs # Null /\ box' = [get |-> g, array |-> Next_rhs, got |-> <<>>]
                       /\ Next_rhs.class \in {"cell", "struct"})
  BY <1>1, <1>2, GettersAssumption DEF GetOne, OpenBox, IsBox
<1>5. pc' \in {"run", "done"} /\ (pc' = "run" => outcome' = outcome)
  <2>1. CASE Next_rhs = Null
    BY <1>1, <2>1 DEF Ends
  <2>2. CASE Next_rhs # Null /\ GetOne(g)
    BY <1>2, <2>2 DEF GetOne, Ends
  <2>3. CASE Next_rhs # Null /\ OpenBox(g)
    BY <1>2, <2>3 DEF OpenBox, Ends
  <2>4. QED
    BY <1>1, <2>1, <2>2, <2>3
<1>6. Types'
  <2>1. ASSUME Next_rhs # Null PROVE [get |-> g, array |-> Next_rhs, got |-> <<>>] \in OpenBoxes
    <3>1. Next_rhs \in Arrays /\ <<>> \in Seq(Got)
      BY <2>1, NextIsArgument
    <3>2. QED
      BY <3>1 DEF OpenBoxes
  <2>2. box' = NoBox \/ box' \in OpenBoxes
    BY <1>4, <2>1
  <2>3. rhs' \in Seq(Arrays) /\ rhs_idx' \in Nat /\ Len(gets') <= Len(rhs')
    BY <1>1, <1>2, <1>3 DEF Types
  <2>4. QED
    BY <1>3, <1>5, <2>2, <2>3 DEF Types
<1>7. CursorCountsGets'
  BY <1>1, <1>2, <1>3 DEF CursorCountsGets, AllPopulated
<1>8. BoxIsLast'
  <2>. SUFFICES ASSUME AllPopulated, box' # NoBox
                PROVE  /\ Len(gets') \in DOMAIN rhs /\ box'.array = rhs[Len(gets')]
                       /\ box'.array.class \in {"cell", "struct"}
    BY <1>2 DEF BoxIsLast, AllPopulated
  <2>. QED
    BY <1>2, <1>3, <1>4, NextIsThere
<1>9. QED
  BY <1>2, <1>5, <1>6, <1>7, <1>8 DEF Idle, FreshOutcome

LEMMA GetElementStep == ASSUME IInv, GetElement PROVE IInv'
<1>. USE DEF IInv
<1>. DEFINE e == Element(box.array, Len(box.got) + 1)
            m == IF e = Null THEN Next_rhs ELSE e
<1>1. /\ pc = "run" /\ box # NoBox /\ Len(box.got) < Count(box.array)
      /\ rhs' = rhs /\ gets' = gets
      /\ rhs_idx' = IF e = Null THEN rhs_idx + 1 ELSE rhs_idx
  BY DEF GetElement
<1>2. PICK o \in Outcomes(box.get, m) :
        IF o = "ok" THEN /\ box' = [box EXCEPT !.got = Append(@, Value(box.get, m))]
                         /\ UNCHANGED <<pc, outcome>>
                    ELSE Ends(o) /\ UNCHANGED box
  BY DEF GetElement
<1>3. box \in OpenBoxes /\ Count(box.array) \in Nat /\ Len(box.got) + 1 \in 1 .. Count(box.array)
  <2>1. box \in OpenBoxes
    BY <1>1 DEF Types
  <2>2. Count(box.array) \in Nat /\ Len(box.got) \in Nat
    BY <2>1, MarshalAssumption DEF OpenBoxes
  <2>3. QED
    BY <1>1, <2>1, <2>2
<1>4. o = "ok" => m \in Handed
  <2>1. ASSUME o = "ok" PROVE m # Null
    BY <1>2, <2>1 DEF Outcomes
  <2>2. CASE e = Null
    BY <2>1, <2>2, NextIsArgument DEF Handed
  <2>3. CASE e # Null
    <3>1. box.array \in Arrays /\ Len(box.got) + 1 \in Nat
      BY <1>3 DEF OpenBoxes
    <3>2. QED
      BY <2>3, <3>1 DEF Handed
  <2>4. QED
    BY <2>2, <2>3
<1>5. box' \in OpenBoxes /\ box'.array = box.array
  <2>1. CASE o = "ok"
    <3>1. Value(box.get, m) \in Got
      BY <1>3, <1>4, <2>1 DEF Got, OpenBoxes
    <3>2. box' = [box EXCEPT !.got = Append(box.got, Value(box.get, m))]
      BY <1>2, <2>1
    <3>3. Append(box.got, Value(box.get, m)) \in Seq(Got)
      BY <1>3, <3>1 DEF OpenBoxes
    <3>4. QED
      BY <1>3, <3>2, <3>3 DEF OpenBoxes
  <2>2. CASE o # "ok"
    BY <1>2, <1>3, <2>2
  <2>3. QED
    BY <2>1, <2>2
<1>6. pc' \in {"run", "done"} /\ (pc' = "run" => outcome' = outcome)
  BY <1>1, <1>2 DEF Ends
<1>7. AllPopulated => e # Null
  <2>. SUFFICES ASSUME AllPopulated PROVE e # Null
    OBVIOUS
  <2>1. /\ Len(gets) \in DOMAIN rhs /\ box.array = rhs[Len(gets)]
        /\ box.array.class \in {"cell", "struct"}
    BY <1>1 DEF BoxIsLast
  <2>2. QED
    BY <1>3, <2>1 DEF AllPopulated, Populated
<1>8. Types'
  BY <1>1, <1>5, <1>6 DEF Types
<1>9. CursorCountsGets' /\ BoxIsLast'
  BY <1>1, <1>5, <1>7 DEF CursorCountsGets, BoxIsLast, AllPopulated
<1>10. QED
  BY <1>1, <1>6, <1>8, <1>9 DEF Idle, FreshOutcome

LEMMA CloseBoxStep == ASSUME IInv, CloseBox PROVE IInv'
  BY DEF IInv, CloseBox, Types, Idle, CursorCountsGets, BoxIsLast, FreshOutcome,
         AllPopulated, result

\* A method that ends keeps its arguments; only one without any computes outputs.
LEMMA OutputStep ==
  ASSUME IInv, Echo \/ OutputSparse \/ OutputStats \/ UnknownMethod
  PROVE  IInv'
<1>. USE DEF IInv
<1>1. pc = "run" /\ pc' = "done" /\ UNCHANGED input
  BY DEF Echo, OutputSparse, OutputStats, UnknownMethod, GotAll, Ends
<1>2. QED
  BY <1>1 DEF input, Types, Idle, CursorCountsGets, BoxIsLast, FreshOutcome,
                    AllPopulated

LEMMA ReturnStep == ASSUME IInv, Return PROVE IInv'
  BY MarshalAssumption
  DEF IInv, Return, Types, Idle, CursorCountsGets, BoxIsLast, FreshOutcome,
      AllPopulated

LEMMA StutterStep == ASSUME IInv, UNCHANGED vars PROVE IInv'
  BY DEF IInv, vars, input, result, Types, Idle, CursorCountsGets, BoxIsLast, FreshOutcome,
         AllPopulated

\* The invariant above holds in every session.
THEOREM Inductive == Spec => []IInv
<1>1. IInv /\ [Next]_vars => IInv'
  BY CallStep, GetArgStep, GetElementStep, CloseBoxStep, OutputStep, ReturnStep, StutterStep DEF Next
<1>2. QED
  BY <1>1, Initial, PTL DEF Spec

\* The k-th getter reads the k-th argument: while no cell or field of the arguments is
\* unpopulated, the cursor has moved once per getter called (rhs_idx++ in MexIFace.h).
THEOREM CursorIsRight == Spec => []CursorCountsGets
<1>1. IInv => CursorCountsGets
  BY DEF IInv
<1>2. QED
  BY <1>1, Inductive, PTL

-----------------------------------------------------------------------------
(* Types.  A getter returns one value at most, later when it opens a box. *)

Counted ==
  /\ \E S : values \in Seq(S)
  /\ Len(values) + (IF box = NoBox THEN 0 ELSE 1) <= Len(gets)
  /\ Len(rhs) <= MaxArgs
  /\ outcome \in {"none", "error", "wild", "echo", "sparse", "stats", "unknown"}

LEMMA OneValueMore ==
  ASSUME Counted, NEW v
  PROVE  /\ Len(values) \in Nat /\ Len(Append(values, v)) = Len(values) + 1
         /\ \E S : Append(values, v) \in Seq(S)
<1>1. PICK S : values \in Seq(S)
  BY DEF Counted
<1>2. values \in Seq(S \cup {v}) /\ v \in S \cup {v}
  BY <1>1
<1>3. Append(values, v) \in Seq(S \cup {v})
  BY <1>2
<1>4. QED
  BY <1>2, <1>3

LEMMA GetArgCounts == ASSUME IInv, Counted, GetArg PROVE Counted'
<1>1. PICK g \in Getters :
        /\ gets' = Append(gets, g)
        /\ IF Next_rhs = Null THEN Ends("wild") /\ UNCHANGED <<box, values>>
                              ELSE GetOne(g) \/ OpenBox(g)
  BY DEF GetArg
<1>2. box = NoBox /\ rhs' = rhs /\ Len(gets') = Len(gets) + 1 /\ Len(gets) \in Nat
  BY <1>1 DEF GetArg, IInv, Types
<1>3. outcome' \in {outcome, "wild", "error"}
  BY <1>1 DEF GetOne, OpenBox, Ends, Outcomes
<1>4. \/ values' = values
      \/ box' = NoBox /\ values' = Append(values, Value(g, Next_rhs))
  BY <1>1, <1>2 DEF GetOne, OpenBox
<1>5. \E S : values' \in Seq(S)
  BY <1>4, OneValueMore DEF Counted
<1>6. Len(values') + (IF box' = NoBox THEN 0 ELSE 1) <= Len(gets')
  BY <1>2, <1>4, OneValueMore DEF Counted
<1>7. QED
  BY <1>2, <1>3, <1>5, <1>6 DEF Counted

LEMMA CountedKeeps == ASSUME IInv, Counted, [Next]_vars PROVE Counted'
<1>1. CASE Call
  BY <1>1, MarshalAssumption DEF Call, Counted
<1>2. CASE GetArg
  BY <1>2, GetArgCounts
<1>3. CASE GetElement
  <2>1. outcome' \in {outcome, "wild", "error"} /\ box # NoBox /\ UNCHANGED <<rhs, gets, values>>
    BY <1>3 DEF GetElement, Ends, Outcomes
  <2>2. Len(values) \in Nat /\ Len(gets) \in Nat
    BY OneValueMore DEF IInv, Types
  <2>3. QED
    BY <2>1, <2>2 DEF Counted
<1>4. CASE CloseBox
  <2>1. box # NoBox /\ box' = NoBox /\ values' = Append(values, Collected)
        /\ UNCHANGED <<rhs, gets, outcome>>
    BY <1>4 DEF CloseBox
  <2>2. \E S : values' \in Seq(S)
    BY <2>1, OneValueMore
  <2>3. Len(values') + (IF box' = NoBox THEN 0 ELSE 1) <= Len(gets')
    BY <2>1, OneValueMore DEF Counted
  <2>4. QED
    BY <2>1, <2>2, <2>3 DEF Counted
<1>5. CASE Echo \/ OutputSparse \/ OutputStats \/ UnknownMethod
  BY <1>5 DEF Echo, OutputSparse, OutputStats, UnknownMethod, Ends, input, Counted
<1>6. CASE Return
  <2>1. values' \in Seq({})
    BY <1>6 DEF Return
  <2>2. QED
    BY <1>6, <2>1, MarshalAssumption DEF Return, Counted
<1>7. CASE UNCHANGED vars
  BY <1>7 DEF vars, input, Counted
<1>8. QED
  BY <1>1, <1>2, <1>3, <1>4, <1>5, <1>6, <1>7 DEF Next

\* A method never calls more getters than it was passed arguments, nor holds more values
\* than the getters it called, whichever of them opened a cell or a struct.
THEOREM TypeCorrect == Spec => []TypeOK
<1>1. Init => Counted
  <2>1. <<>> \in Seq({})
    OBVIOUS
  <2>2. QED
    BY <2>1, MarshalAssumption DEF Init, Counted
<1>2. IInv /\ Counted => TypeOK
  <2>. SUFFICES ASSUME IInv, Counted PROVE TypeOK
    OBVIOUS
  <2>1. Len(values) <= Len(gets)
    <3>1. Len(values) \in Nat /\ Len(gets) \in Nat
      BY OneValueMore DEF IInv, Types
    <3>2. QED
      BY <3>1 DEF Counted
  <2>2. QED
    BY <2>1 DEF IInv, Types, Counted, TypeOK
<1>3. QED
  BY <1>1, <1>2, CountedKeeps, Inductive, PTL DEF Spec

-----------------------------------------------------------------------------
(* Values.  The k-th of them is made of the k-th argument. *)

\* The elements that were read of a container, in its order.
AllRead(g, got, a) == \A n \in DOMAIN got : ReadBy(g, got[n], Element(a, n))

DictOf(a, got) ==
  [f \in {a.names[i] : i \in DOMAIN a.names} |-> got[CHOOSE i \in DOMAIN a.names : a.names[i] = f]]

IsWhole(g, got, a) ==
  /\ g \in Getters /\ g.in = a.class
  /\ \E S : got \in Seq(S)
  /\ Len(got) = Count(a) /\ AllRead(g, got, a)

Made(v, a) ==
  \/ \E g \in Getters : g.in = "one" /\ ReadBy(g, v, a)
  \/ \E g, got : a.class = "cell" /\ v = [list |-> got] /\ IsWhole(g, got, a)
  \/ \E g, got : a.class = "struct" /\ v = [dict |-> DictOf(a, got)] /\ IsWhole(g, got, a)

BoxIsRead ==
  box # NoBox =>
    box.get.in = box.array.class /\ AllRead(box.get, box.got, box.array)

\* While the method runs there is a value for each getter that is done.
ValuePerGet == pc = "run" => Len(values) + (IF box = NoBox THEN 0 ELSE 1) = Len(gets)

EchoIsOfValues ==
  outcome = "echo" =>
    lhs = [k \in DOMAIN values |-> IF HasOutput(values[k]) THEN toMXArray(values[k]) ELSE Null]

Quiet == pc \in {"idle", "run"} => outcome = "none"

Reading ==
  /\ Quiet /\ EchoIsOfValues
  /\ AllPopulated => /\ ValuePerGet /\ BoxIsRead
                     /\ \A k \in DOMAIN values : Made(values[k], rhs[k])
  /\ WildIsConfined

\* The context of the steps: what was proved before.
Ready == IInv /\ Counted

LEMMA ArgumentsAre ==
  ASSUME Ready
  PROVE  \A i \in DOMAIN rhs : rhs[i] \in Arrays /\ IsArray(rhs[i])
<1>1. rhs \in Seq(Arrays)
  BY DEF Ready, IInv, Types
<1>2. \A i \in DOMAIN rhs : rhs[i] \in Arrays
  BY <1>1
<1> QED BY <1>2, ArraysAssumption

LEMMA ReadingCall == ASSUME Ready, Reading, Call PROVE Reading'
<1>1. /\ pc = "idle" /\ pc' = "run" /\ UNCHANGED <<rhs_idx, gets, box, values, result, outcome>>
      /\ gets = <<>> /\ box = NoBox /\ outcome = "none"
  BY DEF Call, Ready, IInv, Idle, FreshOutcome
<1>2. values = <<>>
  <2>1. Len(values) + 0 <= Len(gets) /\ Len(gets) = 0
    BY <1>1 DEF Ready, Counted
  <2>2. PICK S : values \in Seq(S)
    BY DEF Ready, Counted
  <2> QED BY <2>1, <2>2, EmptySeq
<1>3. ValuePerGet' /\ BoxIsRead' /\ (\A k \in DOMAIN values' : Made(values'[k], rhs'[k]))
  BY <1>1, <1>2 DEF ValuePerGet, BoxIsRead
<1>4. Quiet' /\ EchoIsOfValues' /\ WildIsConfined'
  BY <1>1 DEF Quiet, EchoIsOfValues, WildIsConfined
<1> QED BY <1>3, <1>4 DEF Reading

LEMMA OneMadeMore ==
  ASSUME Counted, NEW v, NEW a, Len(values) + 1 \in DOMAIN rhs, rhs[Len(values) + 1] = a, Made(v, a),
         \A k \in DOMAIN values : Made(values[k], rhs[k])
  PROVE  \A k \in DOMAIN Append(values, v) : Made(Append(values, v)[k], rhs[k])
<1>1. PICK S : values \in Seq(S) /\ v \in S
  <2>1. PICK S : values \in Seq(S)
    BY DEF Counted
  <2>2. values \in Seq(S \cup {v}) /\ v \in S \cup {v}
    BY <2>1
  <2> QED BY <2>2
<1>2. /\ DOMAIN Append(values, v) = 1 .. Len(values) + 1 /\ Len(values) \in Nat
      /\ DOMAIN values = 1 .. Len(values)
      /\ \A i \in 1 .. Len(values) : Append(values, v)[i] = values[i]
      /\ Append(values, v)[Len(values) + 1] = v
  BY <1>1, AppendProperties, LenProperties
<1>3. \A k \in 1 .. Len(values) + 1 : k \in 1 .. Len(values) \/ k = Len(values) + 1
  BY <1>2
<1> QED BY <1>2, <1>3

LEMMA ReadingGetArg == ASSUME Ready, Reading, GetArg PROVE Reading'
<1>1. PICK g \in Getters :
        /\ gets' = Append(gets, g) /\ rhs_idx' = rhs_idx + 1
        /\ IF Next_rhs = Null THEN Ends("wild") /\ UNCHANGED <<box, values>>
                              ELSE GetOne(g) \/ OpenBox(g)
  BY DEF GetArg
<1>2. /\ pc = "run" /\ box = NoBox /\ Len(gets) < Len(rhs) /\ rhs' = rhs /\ UNCHANGED result
      /\ outcome = "none" /\ IInv /\ Counted
  BY DEF GetArg, Ready, Reading, Quiet
<1>3. gets' \in Seq(Getters) /\ Len(gets') = Len(gets) + 1 /\ Len(gets) \in Nat
  BY <1>1, <1>2 DEF IInv, Types
<1>4. AllPopulated' = AllPopulated
  BY <1>2 DEF AllPopulated
<1>5. Quiet' /\ EchoIsOfValues'
  <2>1. \/ pc' = "run" /\ outcome' = "none"
        \/ pc' = "done" /\ outcome' \in {"wild", "error"}
    BY <1>1, <1>2 DEF GetOne, OpenBox, Ends, Outcomes
  <2> QED BY <2>1 DEF Quiet, EchoIsOfValues
<1>6. SUFFICES ASSUME AllPopulated
               PROVE  /\ ValuePerGet' /\ BoxIsRead'
                      /\ \A k \in DOMAIN values' : Made(values'[k], rhs[k])
                      /\ outcome' = "wild" /\ gets' # <<>> =>
                           ~Dense(IF box' = NoBox THEN rhs[Len(gets')] ELSE Element(rhs[Len(gets')], Len(box'.got) + 1))
  BY <1>2, <1>4, <1>5 DEF Reading, WildIsConfined, Made
<1>7. /\ ValuePerGet /\ Len(values) = Len(gets)
      /\ \A k \in DOMAIN values : Made(values[k], rhs[k])
  BY <1>2, <1>3, <1>6, OneValueMore DEF Reading, ValuePerGet
<1>8. PICK a : /\ a = rhs[Len(gets) + 1] /\ a = Next_rhs /\ a # Null /\ a \in Arrays /\ IsArray(a)
               /\ Len(gets) + 1 \in DOMAIN rhs
  <2>1. /\ Next_rhs = rhs[Len(gets) + 1] /\ Next_rhs # Null /\ Next_rhs \in Arrays
        /\ Len(gets) + 1 \in DOMAIN rhs
    BY <1>2, <1>6, NextIsThere
  <2>2. IsArray(Next_rhs)
    BY <2>1, ArraysAssumption
  <2> QED BY <2>1, <2>2
<1>9. CASE GetOne(g)
  <2>1. PICK o \in Outcomes(g, a) :
          IF o = "ok" THEN values' = Append(values, Value(g, a)) /\ UNCHANGED <<pc, outcome>>
                      ELSE Ends(o) /\ UNCHANGED values
    BY <1>8, <1>9 DEF GetOne
  <2>2. box' = NoBox /\ g.in = "one"
    BY <1>2, <1>9 DEF GetOne
  <2>3. (o = "ok" => ReadBy(g, Value(g, a), a)) /\ (o = "wild" => ~Dense(a))
    BY <1>8, OutcomeMeans
  <2>4. CASE o = "ok"
    <3>1. Made(Value(g, a), a)
      BY <2>2, <2>3, <2>4 DEF Made
    <3>2. values' = Append(values, Value(g, a)) /\ pc' = "run" /\ outcome' = "none"
      BY <1>2, <2>1, <2>4
    <3>3. \A k \in DOMAIN values' : Made(values'[k], rhs[k])
      BY <1>2, <1>7, <1>8, <3>1, <3>2, OneMadeMore
    <3>4. Len(values') = Len(gets')
      BY <1>2, <1>3, <1>7, <3>2, OneValueMore
    <3>5. ValuePerGet'
      BY <1>3, <2>2, <3>4 DEF ValuePerGet
    <3> QED BY <2>2, <3>2, <3>3, <3>5 DEF BoxIsRead
  <2>5. CASE o # "ok"
    <3>1. values' = values /\ pc' = "done" /\ outcome' = o
      BY <2>1, <2>5 DEF Ends
    <3> QED BY <1>3, <1>7, <1>8, <2>2, <2>3, <3>1 DEF ValuePerGet, BoxIsRead
  <2> QED BY <2>4, <2>5
<1>10. CASE OpenBox(g)
  <2>1. values' = values
    BY <1>10 DEF OpenBox
  <2>2. CASE IsBox(g, a)
    <3>1. box' = [get |-> g, array |-> a, got |-> <<>>] /\ pc' = "run" /\ outcome' = "none"
      BY <1>2, <1>8, <1>10, <2>2 DEF OpenBox
    <3>2. box' # NoBox
      BY <1>8, <3>1 DEF NoBox
    <3>3. BoxIsRead'
      BY <2>2, <3>1 DEF BoxIsRead, IsBox, AllRead
    <3>4. ValuePerGet'
      BY <1>3, <1>7, <2>1, <3>2 DEF ValuePerGet
    <3> QED BY <1>7, <2>1, <3>1, <3>3, <3>4
  <2>3. CASE ~IsBox(g, a)
    <3>1. box' = NoBox /\ pc' = "done" /\ outcome' = "error"
      BY <1>2, <1>8, <1>10, <2>3 DEF OpenBox, Ends
    <3> QED BY <1>7, <2>1, <3>1 DEF ValuePerGet, BoxIsRead
  <2> QED BY <2>2, <2>3
<1> QED BY <1>1, <1>8, <1>9, <1>10

LEMMA ReadingGetElement == ASSUME Ready, Reading, GetElement PROVE Reading'
<1> DEFINE e == Element(box.array, Len(box.got) + 1)
           m == IF e = Null THEN Next_rhs ELSE e
<1>1. /\ pc = "run" /\ box # NoBox /\ Len(box.got) < Count(box.array)
      /\ UNCHANGED <<rhs, gets, values, result>> /\ outcome = "none" /\ IInv /\ Counted
  BY DEF GetElement, Ready, Reading, Quiet
<1>2. PICK o \in Outcomes(box.get, m) :
        IF o = "ok" THEN /\ box' = [box EXCEPT !.got = Append(@, Value(box.get, m))]
                         /\ UNCHANGED <<pc, outcome>>
                    ELSE Ends(o) /\ UNCHANGED box
  BY DEF GetElement
<1>3. /\ box \in OpenBoxes /\ box.got \in Seq(Got) /\ box.array \in Arrays /\ box.get \in Getters
      /\ Count(box.array) \in Nat /\ Len(box.got) \in Nat /\ Len(box.got) + 1 \in 1 .. Count(box.array)
  <2>1. box \in OpenBoxes
    BY <1>1 DEF IInv, Types
  <2>2. box.got \in Seq(Got) /\ box.array \in Arrays /\ box.get \in Getters
    BY <2>1 DEF OpenBoxes
  <2>3. Count(box.array) \in Nat /\ Len(box.got) \in Nat
    BY <2>2, MarshalAssumption
  <2> QED BY <1>1, <2>1, <2>2, <2>3
<1>4. AllPopulated' = AllPopulated
  BY <1>1 DEF AllPopulated
<1>5. Quiet' /\ EchoIsOfValues'
  <2>1. \/ pc' = "run" /\ outcome' = "none"
        \/ pc' = "done" /\ outcome' \in {"wild", "error"}
    BY <1>1, <1>2 DEF Ends, Outcomes
  <2> QED BY <2>1 DEF Quiet, EchoIsOfValues
<1>6. SUFFICES ASSUME AllPopulated
               PROVE  /\ ValuePerGet' /\ BoxIsRead'
                      /\ \A k \in DOMAIN values : Made(values[k], rhs[k])
                      /\ outcome' = "wild" /\ gets # <<>> =>
                           ~Dense(IF box' = NoBox THEN rhs[Len(gets)] ELSE Element(rhs[Len(gets)], Len(box'.got) + 1))
  BY <1>1, <1>4, <1>5 DEF Reading, WildIsConfined, Made
<1>7. /\ ValuePerGet /\ BoxIsRead /\ \A k \in DOMAIN values : Made(values[k], rhs[k])
  BY <1>6 DEF Reading
<1>8. /\ Len(gets) \in DOMAIN rhs /\ box.array = rhs[Len(gets)]
      /\ box.array.class \in {"cell", "struct"}
  BY <1>1, <1>6 DEF IInv, BoxIsLast
<1>9. e # Null /\ IsArray(e) /\ m = e
  <2>1. e # Null
    BY <1>3, <1>6, <1>8 DEF AllPopulated, Populated
  <2>2. IsArray(e)
    BY <1>3, <1>8, <2>1, ArraysAssumption
  <2> QED BY <2>1, <2>2
<1> HIDE DEF m
<1>10. (o = "ok" => ReadBy(box.get, Value(box.get, e), e)) /\ (o = "wild" => ~Dense(e))
  BY <1>2, <1>3, <1>9, OutcomeMeans
<1>11. CASE o = "ok"
  <2>1. PICK got : got = Append(box.got, Value(box.get, e))
    OBVIOUS
  <2>2. box' = [box EXCEPT !.got = got] /\ pc' = "run" /\ outcome' = "none"
    BY <1>1, <1>2, <1>9, <1>11, <2>1
  <2>3. box'.get = box.get /\ box'.array = box.array /\ box'.got = got /\ box' # NoBox
    <3>1. box'.get = box.get /\ box'.array = box.array /\ box'.got = got
      BY <1>3, <2>2 DEF OpenBoxes
    <3>2. box'.array # NoBox.array
      BY <1>3, <3>1, MarshalAssumption DEF NoBox
    <3> QED BY <3>1, <3>2
  <2>4. AllRead(box.get, got, box.array)
    <3>1. PICK S : box.got \in Seq(S) /\ Value(box.get, e) \in S
      <4>1. box.got \in Seq(Got \cup {Value(box.get, e)}) /\ Value(box.get, e) \in Got \cup {Value(box.get, e)}
        BY <1>3
      <4> QED BY <4>1
    <3>2. /\ DOMAIN got = 1 .. Len(box.got) + 1 /\ DOMAIN box.got = 1 .. Len(box.got)
          /\ \A i \in 1 .. Len(box.got) : got[i] = box.got[i]
          /\ got[Len(box.got) + 1] = Value(box.get, e)
      BY <2>1, <3>1, AppendProperties, LenProperties
    <3>3. \A k \in 1 .. Len(box.got) + 1 : k \in 1 .. Len(box.got) \/ k = Len(box.got) + 1
      BY <1>3
    <3>4. ReadBy(box.get, Value(box.get, e), Element(box.array, Len(box.got) + 1))
      BY <1>10, <1>11
    <3> HIDE DEF e
    <3> QED BY <1>1, <1>7, <3>2, <3>3, <3>4 DEF BoxIsRead, AllRead
  <2>5. BoxIsRead'
    BY <1>1, <1>7, <2>3, <2>4 DEF BoxIsRead
  <2>6. ValuePerGet'
    BY <1>1, <1>7, <2>3 DEF ValuePerGet
  <2> QED BY <1>7, <2>2, <2>5, <2>6
<1>12. CASE o # "ok"
  <2>1. box' = box /\ pc' = "done" /\ outcome' = o
    BY <1>2, <1>12 DEF Ends
  <2>2. ValuePerGet' /\ BoxIsRead'
    BY <1>7, <2>1 DEF ValuePerGet, BoxIsRead
  <2>3. outcome' = "wild" => ~Dense(Element(rhs[Len(gets)], Len(box'.got) + 1))
    BY <1>8, <1>10, <2>1
  <2> QED BY <1>1, <1>7, <2>1, <2>2, <2>3
<1> QED BY <1>11, <1>12

LEMMA ReadingCloseBox == ASSUME Ready, Reading, CloseBox PROVE Reading'
<1>1. /\ pc = "run" /\ box # NoBox /\ Len(box.got) = Count(box.array)
      /\ values' = Append(values, Collected) /\ box' = NoBox
      /\ UNCHANGED <<rhs, gets, result, pc, outcome>> /\ outcome = "none" /\ IInv /\ Counted
  BY DEF CloseBox, Ready, Reading, Quiet
<1>2. Quiet' /\ EchoIsOfValues' /\ WildIsConfined'
  BY <1>1 DEF Reading, Quiet, EchoIsOfValues, WildIsConfined
<1>3. AllPopulated' = AllPopulated
  BY <1>1 DEF AllPopulated
<1>4. SUFFICES ASSUME AllPopulated
               PROVE  ValuePerGet' /\ BoxIsRead' /\ \A k \in DOMAIN values' : Made(values'[k], rhs[k])
  BY <1>1, <1>2, <1>3 DEF Reading, Made
<1>5. ValuePerGet /\ BoxIsRead /\ \A k \in DOMAIN values : Made(values[k], rhs[k])
  BY <1>4 DEF Reading
<1>6. Len(values) \in Nat /\ Len(gets) \in Nat /\ Len(values) + 1 = Len(gets)
  BY <1>1, <1>5, OneValueMore DEF ValuePerGet, IInv, Types
<1>7. /\ Len(gets) \in DOMAIN rhs /\ box.array = rhs[Len(gets)]
      /\ box.array.class \in {"cell", "struct"}
  BY <1>1, <1>4 DEF IInv, BoxIsLast
<1>8. IsWhole(box.get, box.got, box.array)
  <2>1. box.got \in Seq(Got) /\ box.get \in Getters
    BY <1>1 DEF IInv, Types, OpenBoxes
  <2> QED BY <1>1, <1>5, <2>1 DEF IsWhole, BoxIsRead
<1>9. Made(Collected, box.array)
  <2>1. CASE box.array.class = "cell"
    <3>1. Collected = [list |-> box.got]
      BY <1>8, <2>1 DEF Collected, IsWhole
    <3> QED BY <1>8, <2>1, <3>1 DEF Made
  <2>2. CASE box.array.class = "struct"
    <3>1. Collected = [dict |-> DictOf(box.array, box.got)]
      BY <1>8, <2>2 DEF Collected, IsWhole, DictOf
    <3> QED BY <1>8, <2>2, <3>1 DEF Made
  <2> QED BY <1>7, <2>1, <2>2
<1>10. \A k \in DOMAIN values' : Made(values'[k], rhs[k])
  BY <1>1, <1>5, <1>6, <1>7, <1>9, OneMadeMore
<1>11. ValuePerGet'
  BY <1>1, <1>6, OneValueMore DEF ValuePerGet
<1> QED BY <1>1, <1>10, <1>11 DEF BoxIsRead

LEMMA ReadingOutput ==
  ASSUME Ready, Reading, Echo \/ OutputSparse \/ OutputStats \/ UnknownMethod
  PROVE  Reading'
<1>1. /\ pc' = "done" /\ UNCHANGED <<rhs, gets, box, values>>
      /\ AllPopulated' = AllPopulated
  BY DEF Echo, OutputSparse, OutputStats, UnknownMethod, Ends, input, AllPopulated
<1>2. outcome' = "wild" => gets = <<>>
  BY DEF Echo, OutputSparse, OutputStats, UnknownMethod, Ends, GotAll, Ready, IInv, Types
<1>3. EchoIsOfValues'
  BY DEF Echo, OutputSparse, OutputStats, UnknownMethod, Ends, input, EchoIsOfValues
<1>4. AllPopulated' => ValuePerGet' /\ BoxIsRead' /\ \A k \in DOMAIN values' : Made(values'[k], rhs'[k])
  BY <1>1 DEF Reading, ValuePerGet, BoxIsRead
<1>5. Quiet' /\ WildIsConfined'
  BY <1>1, <1>2 DEF Quiet, WildIsConfined
<1> QED BY <1>3, <1>4, <1>5 DEF Reading

LEMMA ReadingKeeps == ASSUME Ready, Reading, [Next]_vars PROVE Reading'
<1>1. CASE Return
  <2>1. pc' = "idle" /\ outcome' = "none" /\ values' = <<>> /\ box' = NoBox
    BY <1>1 DEF Return
  <2>2. Quiet' /\ EchoIsOfValues' /\ WildIsConfined' /\ ValuePerGet' /\ BoxIsRead'
    BY <2>1 DEF Quiet, EchoIsOfValues, WildIsConfined, ValuePerGet, BoxIsRead
  <2>3. \A k \in DOMAIN values' : Made(values'[k], rhs'[k])
    BY <2>1
  <2> QED BY <2>2, <2>3 DEF Reading
<1>2. CASE UNCHANGED vars
  BY <1>2 DEF vars, input, result, Reading, Quiet, EchoIsOfValues, WildIsConfined, AllPopulated,
              ValuePerGet, BoxIsRead
<1> QED BY <1>1, <1>2, ReadingCall, ReadingGetArg, ReadingGetElement, ReadingCloseBox, ReadingOutput DEF Next

LEMMA ReadingInitially == Init => Counted /\ Reading
<1>1. <<>> \in Seq({})
  OBVIOUS
<1>2. Init => Counted
  BY <1>1, MarshalAssumption DEF Init, Counted
<1>3. Init => Reading
  BY DEF Init, Reading, Quiet, EchoIsOfValues, WildIsConfined, ValuePerGet, BoxIsRead
<1> QED BY <1>2, <1>3

LEMMA ReadingAlways == Spec => [](IInv /\ Counted /\ Reading)
<1>1. IInv /\ Counted /\ Reading /\ [Next]_vars => Counted' /\ Reading'
  BY CountedKeeps, ReadingKeeps DEF Ready
<1> QED BY <1>1, ReadingInitially, Inductive, PTL DEF Spec

\* A getter leaves Matlab's memory only for what has no elements of its own to read: an
\* empty array, a sparse one, or an unpopulated cell or field.  An array with elements
\* is inside of its data whatever its shape, for every kind of getter.
THEOREM WildIsRight == Spec => []WildIsConfined
<1>1. Reading => WildIsConfined
  BY DEF Reading
<1> QED BY <1>1, ReadingAlways, PTL

LEMMA PopulatedElement ==
  ASSUME NEW a, a.class \in {"cell", "struct"}, Populated(a), NEW n \in 1 .. Count(a)
  PROVE  Element(a, n) = a.data[n] /\ Element(a, n) # Null
  BY DEF Populated, Element

LEMMA WholeIsRead ==
  ASSUME NEW g, NEW got, NEW a, IsWhole(g, got, a), a.class \in {"cell", "struct"}, Populated(a),
         Count(a) \in Nat
  PROVE  /\ DOMAIN got = 1 .. Count(a)
         /\ \A n \in 1 .. Count(a) : ReadBy(g, got[n], a.data[n]) /\ IsValueOf(got[n], a.data[n])
<1>1. DOMAIN got = 1 .. Count(a)
  BY LenProperties DEF IsWhole
<1>2. ASSUME NEW n \in 1 .. Count(a)
      PROVE  ReadBy(g, got[n], a.data[n])
  BY <1>1, PopulatedElement DEF IsWhole, AllRead
<1> QED BY <1>1, <1>2, ValueIsRead

\* The index of a name that a struct array has.
At1(a, f) == CHOOSE i \in DOMAIN a.names : a.names[i] = f

LEMMA NameHasIndex ==
  ASSUME NEW a, IsArray(a), NEW f \in {a.names[i] : i \in DOMAIN a.names}
  PROVE  At1(a, f) \in 1 .. Len(a.names) /\ a.names[At1(a, f)] = f
<1>1. DOMAIN a.names = 1 .. Len(a.names)
  BY LenProperties DEF IsArray
<1>2. \E i \in DOMAIN a.names : a.names[i] = f
  OBVIOUS
<1> QED BY <1>1, <1>2 DEF At1

\* The k-th argument of a call that counted its arguments.
LEMMA ArgumentOfValue ==
  ASSUME IInv, Counted, AllPopulated, NEW k \in DOMAIN values
  PROVE  rhs[k] \in Arrays /\ IsArray(rhs[k]) /\ Populated(rhs[k]) /\ Count(rhs[k]) \in Nat
<1>1. DOMAIN values = 1 .. Len(values) /\ Len(values) \in Nat
  BY LenProperties DEF Counted
<1>2. rhs \in Seq(Arrays) /\ DOMAIN rhs = 1 .. Len(rhs) /\ Len(rhs) \in Nat
  BY LenProperties DEF IInv, Types
<1>3. Len(values) <= Len(rhs)
  <2>1. Len(gets) \in Nat
    BY DEF IInv, Types
  <2> QED BY <1>1, <1>2, <2>1 DEF IInv, Types, Counted
<1>4. k \in DOMAIN rhs
  BY <1>1, <1>2, <1>3
<1> QED BY <1>4, ArgumentsAre, MarshalAssumption DEF Ready, AllPopulated

\* The k-th value is the k-th argument: element by element, field by field, and each at
\* its subscripts in the object that a getter lays over Matlab's memory.
THEOREM ValuesAreRight == Spec => []ValuesAreArguments
<1>1. IInv /\ Counted /\ Reading => ValuesAreArguments
  <2> SUFFICES ASSUME IInv, Counted, Reading, AllPopulated, NEW k \in DOMAIN values
               PROVE  LET v == values[k]
                          m == rhs[k]
                      IN  CASE "list" \in DOMAIN v -> /\ Len(v.list) = Numel(m)
                                                      /\ \A n \in DOMAIN v.list : IsValueOf(v.list[n], m.data[n])
                            [] "dict" \in DOMAIN v -> /\ DOMAIN v.dict = {m.names[i] : i \in DOMAIN m.names}
                                                      /\ \A f \in DOMAIN v.dict : IsValueOf(v.dict[f], Field(m, f))
                            [] OTHER -> IsValueOf(v, m)
    BY DEF ValuesAreArguments
  <2>1. PICK v, m : v = values[k] /\ m = rhs[k]
    OBVIOUS
  <2>2. Made(v, m)
    BY <2>1 DEF Reading
  <2>3. m \in Arrays /\ IsArray(m) /\ Populated(m) /\ Count(m) \in Nat
    BY <2>1, ArgumentOfValue
  <2>4. CASE \E g \in Getters : g.in = "one" /\ ReadBy(g, v, m)
    <3>1. IsValueOf(v, m) /\ "list" \notin DOMAIN v /\ "dict" \notin DOMAIN v
      BY <2>4, ValueIsRead DEF ReadBy, Value
    <3> QED BY <2>1, <3>1, Zenon
  <2>5. CASE \E g, got : m.class = "cell" /\ v = [list |-> got] /\ IsWhole(g, got, m)
    <3>1. PICK g, got : m.class = "cell" /\ v = [list |-> got] /\ IsWhole(g, got, m)
      BY <2>5
    <3>2. "list" \in DOMAIN v /\ "dict" \notin DOMAIN v /\ v.list = got
      BY <3>1
    <3>3. Len(got) = Numel(m) /\ Count(m) = Numel(m)
      BY <3>1 DEF IsWhole, Count
    <3>4. \A n \in DOMAIN got : IsValueOf(got[n], m.data[n])
      BY <2>3, <3>1, WholeIsRead
    <3>5. Len(v.list) = Numel(m) /\ \A n \in DOMAIN v.list : IsValueOf(v.list[n], m.data[n])
      BY <3>2, <3>3, <3>4
    <3> QED BY <2>1, <3>2, <3>5, Zenon
  <2>6. CASE \E g, got : m.class = "struct" /\ v = [dict |-> DictOf(m, got)] /\ IsWhole(g, got, m)
    <3>1. PICK g, got : m.class = "struct" /\ v = [dict |-> DictOf(m, got)] /\ IsWhole(g, got, m)
      BY <2>6
    <3>2. "list" \notin DOMAIN v /\ "dict" \in DOMAIN v /\ v.dict = DictOf(m, got)
      BY <3>1
    <3>3. DOMAIN v.dict = {m.names[i] : i \in DOMAIN m.names}
      BY <3>2 DEF DictOf
    <3>4. ASSUME NEW f \in DOMAIN v.dict
          PROVE  IsValueOf(v.dict[f], Field(m, f))
      <4>1. At1(m, f) \in 1 .. Count(m)
        BY <2>3, <3>1, <3>3, NameHasIndex DEF Count
      <4>2. v.dict[f] = got[At1(m, f)] /\ Field(m, f) = m.data[At1(m, f)]
        BY <3>2, <3>3 DEF DictOf, Field, At1
      <4> QED BY <2>3, <3>1, <4>1, <4>2, WholeIsRead
    <3> QED BY <2>1, <3>2, <3>3, <3>4
  <2> QED BY <2>2, <2>4, <2>5, <2>6 DEF Made
<1> QED BY <1>1, ReadingAlways, PTL

-----------------------------------------------------------------------------
(* Outputs. *)

LEMMA EchoOfList ==
  ASSUME NEW got, NEW n \in DOMAIN got
  PROVE  toMXArray([list |-> got]).data[n] = OneToMXArray(got[n])
<1>1. toMXArray([list |-> got]) = ListToMXArray(got)
  BY DEF toMXArray
<1> QED BY <1>1 DEF ListToMXArray, Array

\* The fields of an output have the names of the dictionary, each with its own value.
LEMMA EchoOfDict ==
  ASSUME NEW dict, DOMAIN dict \subseteq Names
  PROVE  LET out == toMXArray([dict |-> dict])
         IN  /\ Lists(out.names, DOMAIN dict)
             /\ \A f \in DOMAIN dict : Field(out, f) = OneToMXArray(dict[f])
<1>1. PICK names : names = Sorted(DOMAIN dict)
  OBVIOUS
<1>2. Lists(names, DOMAIN dict)
  BY <1>1, SortedLists
<1>3. PICK out : out = toMXArray([dict |-> dict])
  OBVIOUS
<1>4. out = DictToMXArray(dict)
  BY <1>3 DEF toMXArray
<1>5. /\ out.names = names
      /\ out.data = [i \in DOMAIN names |-> OneToMXArray(dict[names[i]])]
  BY <1>1, <1>4 DEF DictToMXArray, Struct, Array
<1>6. ASSUME NEW f \in DOMAIN dict
      PROVE  Field(out, f) = OneToMXArray(dict[f])
  <2>1. PICK i : i = CHOOSE j \in DOMAIN names : names[j] = f
    OBVIOUS
  <2>2. \E j \in DOMAIN names : names[j] = f
    BY <1>2, LenProperties DEF Lists
  <2>3. i \in DOMAIN names /\ names[i] = f
    BY <2>1, <2>2
  <2>4. Field(out, f) = out.data[i]
    BY <1>5, <2>1 DEF Field
  <2> QED BY <1>5, <2>3, <2>4
<1> QED BY <1>2, <1>3, <1>5, <1>6

LEMMA FieldsAreListed ==
  ASSUME NEW m \in Arrays
  PROVE  /\ Lists(m.names, {m.names[i] : i \in DOMAIN m.names})
         /\ {m.names[i] : i \in DOMAIN m.names} \subseteq Names
<1>1. IsArray(m) /\ \A i \in DOMAIN m.names : m.names[i] \in Names
  BY ArraysAssumption
<1>2. /\ m.names \in Seq({m.names[i] : i \in DOMAIN m.names})
      /\ \A i, j \in DOMAIN m.names : m.names[i] = m.names[j] => i = j
  BY <1>1 DEF IsArray
<1>3. DOMAIN m.names = 1 .. Len(m.names)
  BY <1>2, LenProperties
<1> QED BY <1>1, <1>2, <1>3 DEF Lists

\* What a method outputs as it got it, through whatever object in C++, comes back with the
\* class, the elements and the dimensions that it had, in a list, a dictionary or alone.
THEOREM EchoIsRight == Spec => []EchoKeepsElements
<1>1. IInv /\ Counted /\ Reading => EchoKeepsElements
  <2> SUFFICES ASSUME IInv, Counted, Reading, outcome = "echo", AllPopulated,
                      NEW k \in {j \in DOMAIN lhs : HasOutput(values[j])}
               PROVE  LET v == values[k]
                          m == rhs[k]
                      IN  CASE "list" \in DOMAIN v ->
                                 \A n \in 1 .. Numel(m) : IsEchoOf(lhs[k].data[n], v.list[n], m.data[n])
                            [] "dict" \in DOMAIN v ->
                                 /\ Len(lhs[k].names) = Len(m.names)
                                 /\ \A f \in DOMAIN v.dict : IsEchoOf(Field(lhs[k], f), v.dict[f], Field(m, f))
                            [] OTHER -> Sparse(m) \/ IsEchoOf(lhs[k], v, m)
    BY DEF EchoKeepsElements
  <2>1. PICK v, m, out : v = values[k] /\ m = rhs[k] /\ out = lhs[k]
    OBVIOUS
  <2>2. k \in DOMAIN values /\ out = toMXArray(v) /\ HasOutput(v)
    BY <2>1 DEF Reading, EchoIsOfValues
  <2>3. Made(v, m) /\ m \in Arrays /\ IsArray(m) /\ Populated(m) /\ Count(m) \in Nat
    BY <2>1, <2>2, ArgumentOfValue DEF Reading
  <2>4. CASE \E g \in Getters : g.in = "one" /\ ReadBy(g, v, m)
    <3>1. PICK g \in Getters : g.in = "one" /\ ReadBy(g, v, m)
      BY <2>4
    <3>2. "list" \notin DOMAIN v /\ "dict" \notin DOMAIN v /\ "kind" \in DOMAIN v /\ v.kind = g.kind
      BY <3>1 DEF ReadBy, Value
    <3>3. g.kind # "hypercube"
      BY <2>2, <3>2 DEF HasOutput
    <3>4. out = OneToMXArray(v)
      BY <2>2, <3>2 DEF toMXArray
    <3>5. IsEchoOf(out, v, m)
      BY <3>1, <3>3, <3>4, EchoOfOne
    <3> QED BY <2>1, <3>2, <3>5, Zenon
  <2>5. CASE \E g, got : m.class = "cell" /\ v = [list |-> got] /\ IsWhole(g, got, m)
    <3>1. PICK g, got : m.class = "cell" /\ v = [list |-> got] /\ IsWhole(g, got, m)
      BY <2>5
    <3>2. "list" \in DOMAIN v /\ "dict" \notin DOMAIN v /\ v.list = got
      BY <3>1
    <3>3. Count(m) = Numel(m) /\ g.kind # "hypercube"
      BY <3>1, GettersAssumption DEF IsWhole, Count
    <3>4. ASSUME NEW n \in 1 .. Numel(m)
          PROVE  IsEchoOf(out.data[n], v.list[n], m.data[n])
      <4>1. n \in DOMAIN got /\ ReadBy(g, got[n], m.data[n])
        BY <2>3, <3>1, <3>3, WholeIsRead
      <4>2. out.data[n] = OneToMXArray(got[n])
        BY <2>2, <3>1, <4>1, EchoOfList
      <4> QED BY <3>2, <3>3, <4>1, <4>2, EchoOfOne
    <3> QED BY <2>1, <3>2, <3>4, Zenon
  <2>6. CASE \E g, got : m.class = "struct" /\ v = [dict |-> DictOf(m, got)] /\ IsWhole(g, got, m)
    <3>1. PICK g, got : m.class = "struct" /\ v = [dict |-> DictOf(m, got)] /\ IsWhole(g, got, m)
      BY <2>6
    <3>2. "list" \notin DOMAIN v /\ "dict" \in DOMAIN v /\ v.dict = DictOf(m, got)
      BY <3>1
    <3>3. DOMAIN v.dict = {m.names[i] : i \in DOMAIN m.names}
      BY <3>2 DEF DictOf
    <3>4. /\ Lists(m.names, DOMAIN v.dict) /\ DOMAIN v.dict \subseteq Names
      BY <2>3, <3>3, FieldsAreListed
    <3>5. /\ Lists(out.names, DOMAIN v.dict)
          /\ \A f \in DOMAIN v.dict : Field(out, f) = OneToMXArray(v.dict[f])
      <4>1. out = toMXArray([dict |-> v.dict])
        BY <2>2, <3>1, <3>2
      <4> HIDE DEF DictOf
      <4> QED BY <3>4, <4>1, EchoOfDict
    <3>6. Len(out.names) = Len(m.names)
      BY <3>4, <3>5, ListsAgree
    <3>7. ASSUME NEW f \in DOMAIN v.dict
          PROVE  IsEchoOf(Field(out, f), v.dict[f], Field(m, f))
      <4>1. At1(m, f) \in 1 .. Count(m)
        BY <2>3, <3>1, <3>3, NameHasIndex DEF Count
      <4>2. v.dict[f] = got[At1(m, f)] /\ Field(m, f) = m.data[At1(m, f)]
        BY <3>2, <3>3 DEF DictOf, Field, At1
      <4>3. ReadBy(g, got[At1(m, f)], m.data[At1(m, f)])
        BY <2>3, <3>1, <4>1, WholeIsRead
      <4>4. g.kind # "hypercube"
        BY <3>1, GettersAssumption DEF IsWhole
      <4>5. Field(out, f) = OneToMXArray(v.dict[f])
        BY <3>5
      <4> QED BY <4>2, <4>3, <4>4, <4>5, EchoOfOne
    <3> QED BY <2>1, <3>2, <3>6, <3>7, Zenon
  <2> QED BY <2>3, <2>4, <2>5, <2>6 DEF Made
<1> QED BY <1>1, ReadingAlways, PTL

-----------------------------------------------------------------------------
(* Printing.  Each element is shown under its subscript. *)

LEMMA ElementOffset ==
  ASSUME NEW m, IsArray(m), NEW sub \in Subscripts(m.dims)
  PROVE  /\ Offset(m.dims, sub) \in Nat /\ Offset(m.dims, sub) < Numel(m)
         /\ display_subscript(m, Offset(m.dims, sub)) = sub
<1>1. PICK n \in Nat : n = Len(m.dims) /\ n >= 2 /\ m.dims \in Seq(Nat) /\ Numel(m) = Extent(m.dims, 1, n)
  BY ArrayFacts
<1>2. PICK f \in [Nat -> Nat] : IsOffset(f, m.dims, sub)
  BY <1>1, SubscriptsAre, OffsetFunction
<1>3. Offset(m.dims, sub) = f[n]
  BY <1>1, <1>2 DEF IsOffset
<1>4. n \in 0 .. Len(m.dims)
  BY <1>1
<1>5. f[n] < Extent(m.dims, 1, n)
  BY <1>1, <1>2, <1>4, OffsetsBelow
<1>6. Len(m.dims) >= 1
  BY <1>1
<1>7. display_subscript(m, Offset(m.dims, sub)) = sub
  BY <1>1, <1>6, SubscriptIsBack
<1> QED BY <1>1, <1>2, <1>3, <1>5, <1>7

\* The classes that analyze_class tells apart.
LEMMA AnalyzedAs ==
  ASSUME NEW m, IsArray(m)
  PROVE  /\ m.class = "struct" => analyze_class(m) = analyze_structure(m)
         /\ m.class = "cell" => analyze_class(m) = analyze_cell(m)
         /\ m.class = "char" => analyze_class(m) = analyze_string(m)
         /\ m.class = "logical" /\ ~Sparse(m) => analyze_class(m) = analyze_logical(m)
         /\ m.class \in NumericClasses /\ ~Sparse(m) => analyze_class(m) = analyze_numeric(m)
<1>1. m # Null
  BY DEF IsArray, Null, NumericClasses, IntegerClasses
<1>2. m.class \notin {"struct", "cell"} => analyze_class(m) = analyze_element(m)
  BY DEF analyze_class
<1>3. \A c \in NumericClasses : c \notin {"struct", "cell", "char", "logical"}
  BY DEF NumericClasses, IntegerClasses
<1>4. m.class = "struct" => analyze_class(m) = analyze_structure(m)
  BY DEF analyze_class
<1>5. m.class = "cell" => analyze_class(m) = analyze_cell(m)
  BY DEF analyze_class
<1>6. ~Sparse(m) => /\ m.class = "char" => analyze_element(m) = analyze_string(m)
                    /\ m.class = "logical" => analyze_element(m) = analyze_logical(m)
                    /\ m.class \in NumericClasses => analyze_element(m) = analyze_numeric(m)
  BY <1>1, <1>3 DEF analyze_element
<1>7. m.class = "char" => ~Sparse(m)
  BY DEF IsArray
<1> QED BY <1>2, <1>3, <1>4, <1>5, <1>6, <1>7

LEMMA NumbersAreShown ==
  ASSUME NEW m, IsArray(m), ~Sparse(m), m.class \in NumericClasses \cup {"logical"}
  PROVE  ShownAt(analyze_class(m), m)
<1>1. Numel(m) \in Nat /\ Len(m.data) = Numel(m) /\ DOMAIN m.data = 1 .. Numel(m)
  <2>1. m.class # "struct"
    BY DEF NumericClasses, IntegerClasses
  <2>2. Numel(m) \in Nat /\ Len(m.data) = Numel(m)
    BY <2>1, ArrayFacts
  <2>3. DOMAIN m.data = 1 .. Len(m.data)
    BY ArrayFacts, LenProperties
  <2> QED BY <2>2, <2>3
<1>2. PICK lines : lines = analyze_class(m)
  OBVIOUS
<1>3. /\ DOMAIN lines = 1 .. Numel(m) /\ Len(lines) = Numel(m)
      /\ \A i \in 1 .. Numel(m) :
           /\ lines[i].at = display_subscript(m, i - 1)
           /\ lines[i].re = m.data[i] \/ (m.class = "uint8" /\ m.imag # <<>>)
           /\ lines[i].im = IF m.imag = <<>> THEN <<>> ELSE <<m.imag[i]>>
  <2>1. CASE m.class = "logical"
    <3>1. lines = analyze_logical(m)
      BY <1>2, <2>1, AnalyzedAs
    <3>2. m.imag = <<>> /\ \A i \in 1 .. Numel(m) : m.data[i] \in {0, 1}
      BY <1>1, <2>1 DEF IsArray
    <3>3. lines = [i \in 1 .. Numel(m) |-> Line(display_subscript(m, i - 1), IF m.data[i] = 0 THEN 0 ELSE 1, <<>>)]
      BY <3>1 DEF analyze_logical
    <3>4. \A i \in 1 .. Numel(m) : (IF m.data[i] = 0 THEN 0 ELSE 1) = m.data[i]
      BY <3>2
    <3>5. DOMAIN lines = 1 .. Numel(m) /\ Len(lines) = Numel(m)
      BY <1>1, <3>3
    <3> QED BY <3>2, <3>3, <3>4, <3>5 DEF Line
  <2>2. CASE m.class \in NumericClasses
    <3>1. lines = analyze_numeric(m)
      BY <1>2, <2>2, AnalyzedAs
    <3>2. lines = [i \in 1 .. Numel(m) |->
                     Line(display_subscript(m, i - 1), RealAt(m, i), IF m.imag = <<>> THEN <<>> ELSE <<m.imag[i]>>)]
      BY <3>1 DEF analyze_numeric
    <3>3. \A i \in 1 .. Numel(m) : RealAt(m, i) = m.data[i] \/ (m.class = "uint8" /\ m.imag # <<>>)
      BY DEF RealAt
    <3>4. DOMAIN lines = 1 .. Numel(m) /\ Len(lines) = Numel(m)
      BY <1>1, <3>2
    <3> QED BY <3>2, <3>3, <3>4 DEF Line
  <2> QED BY <2>1, <2>2
<1>4. ASSUME NEW sub \in Subscripts(m.dims)
      PROVE  \E l \in {lines[i] : i \in DOMAIN lines} :
               /\ l.at = sub
               /\ l.re = m.data[Offset(m.dims, sub) + 1] \/ (m.class = "uint8" /\ m.imag # <<>>)
               /\ l.im = IF m.imag = <<>> THEN <<>> ELSE <<m.imag[Offset(m.dims, sub) + 1]>>
  <2>1. PICK o \in Nat : o = Offset(m.dims, sub) /\ o < Numel(m) /\ display_subscript(m, o) = sub
    BY ElementOffset
  <2>2. o + 1 \in 1 .. Numel(m) /\ o + 1 - 1 = o
    BY <1>1, <2>1
  <2>3. /\ lines[o + 1].at = sub
        /\ lines[o + 1].re = m.data[o + 1] \/ (m.class = "uint8" /\ m.imag # <<>>)
        /\ lines[o + 1].im = IF m.imag = <<>> THEN <<>> ELSE <<m.imag[o + 1]>>
    BY <1>3, <2>1, <2>2
  <2>4. lines[o + 1] \in {lines[i] : i \in DOMAIN lines}
    BY <1>3, <2>2
  <2> QED BY <2>1, <2>3, <2>4
<1> QED BY <1>2, <1>3, <1>4 DEF ShownAt

LEMMA CellsAreShown ==
  ASSUME NEW m, IsArray(m), m.class = "cell", NEW sub \in Subscripts(m.dims)
  PROVE  \E n \in DOMAIN analyze_class(m) :
           /\ analyze_class(m)[n].at = sub
           /\ analyze_class(m)[n].in = analyze_element(Element(m, Offset(m.dims, sub) + 1))
<1>1. analyze_class(m) = analyze_cell(m) /\ Numel(m) \in Nat
  BY AnalyzedAs, ArrayFacts
<1>2. PICK o \in Nat : o = Offset(m.dims, sub) /\ o < Numel(m) /\ display_subscript(m, o) = sub
  BY ElementOffset
<1>3. o + 1 \in 1 .. Numel(m) /\ o + 1 - 1 = o
  BY <1>1, <1>2
<1>4. analyze_cell(m) = [n \in 1 .. Numel(m) |->
                           [at |-> display_subscript(m, n - 1), in |-> analyze_element(Element(m, n))]]
  BY DEF analyze_cell
<1> QED BY <1>1, <1>2, <1>3, <1>4

LEMMA FieldsAreShown ==
  ASSUME NEW m, IsArray(m), m.class = "struct", NEW sub \in Subscripts(m.dims), NEW f \in DOMAIN m.names
  PROVE  \E n \in DOMAIN analyze_class(m) :
           /\ analyze_class(m)[n].at = sub /\ analyze_class(m)[n].field = m.names[f]
           /\ analyze_class(m)[n].in = analyze_element(Element(m, Offset(m.dims, sub) * Len(m.names) + f))
<1>1. analyze_class(m) = analyze_structure(m) /\ Numel(m) \in Nat
  BY AnalyzedAs, ArrayFacts
<1>2. PICK w \in Nat : w = Len(m.names) /\ DOMAIN m.names = 1 .. w
  BY LenProperties DEF IsArray
<1>3. PICK o \in Nat : o = Offset(m.dims, sub) /\ o < Numel(m) /\ display_subscript(m, o) = sub
  BY ElementOffset
<1>4. PICK k : k = o * w + f
  OBVIOUS
<1>5. f \in 1 .. w /\ f - 1 \in Nat /\ f - 1 < w /\ w \in Nat \ {0} /\ f - 1 + 1 = f
  BY <1>2
<1>6. k \in 1 .. Numel(m) * w /\ k - 1 = (f - 1) + o * w
  <2>1. o * w \in Nat /\ Numel(m) * w \in Nat
    BY <1>1
  <2>2. k \in Nat /\ k >= 1 /\ k - 1 = (f - 1) + o * w
    BY <1>4, <1>5, <2>1
  <2>3. (f - 1) + (o + 1 - 1) * w < Numel(m) * w
    <3>1. o + 1 \in Nat \ {0} /\ o + 1 <= Numel(m)
      BY <1>1, <1>3
    <3> QED BY <1>1, <1>5, <3>1, OneMoreRow
  <2>4. o + 1 - 1 = o
    OBVIOUS
  <2>5. k - 1 < Numel(m) * w
    BY <2>2, <2>3, <2>4
  <2> QED BY <2>1, <2>2, <2>5
<1>7. (k - 1) \div w = o /\ (k - 1) % w = f - 1
  <2>1. PICK a \in Nat : a = f - 1 /\ a < w
    BY <1>5
  <2>2. (a + o * w) % w = a /\ (a + o * w) \div w = o
    BY <1>5, <2>1, Remainder
  <2> QED BY <1>6, <2>1, <2>2
<1>8. analyze_structure(m) = [i \in 1 .. Numel(m) * w |->
         [at    |-> display_subscript(m, (i - 1) \div w),
          field |-> m.names[((i - 1) % w) + 1],
          in    |-> analyze_element(Element(m, i))]]
  BY <1>2 DEF analyze_structure
<1>9. k \in DOMAIN analyze_structure(m)
  BY <1>6, <1>8
<1>10. analyze_structure(m)[k] =
         [at    |-> display_subscript(m, (k - 1) \div w),
          field |-> m.names[((k - 1) % w) + 1],
          in    |-> analyze_element(Element(m, k))]
  BY <1>6, <1>8
<1>11. /\ analyze_structure(m)[k].at = sub /\ analyze_structure(m)[k].field = m.names[f]
       /\ analyze_structure(m)[k].in = analyze_element(Element(m, k))
  BY <1>3, <1>5, <1>7, <1>10
<1> QED BY <1>1, <1>2, <1>3, <1>4, <1>9, <1>11

LEMMA TextIsShown ==
  ASSUME NEW m, IsArray(m), m.class = "char"
  PROVE  TextAt(analyze_class(m), m)
<1>1. analyze_class(m) = analyze_string(m)
  BY AnalyzedAs
<1>2. PICK n \in Nat : n = Len(m.dims) /\ n >= 2 /\ Ndim(m) = n /\ m.dims \in Seq(Nat)
  BY ArrayFacts
<1>3. PICK M \in Nat, N \in Nat : M = m.dims[1] /\ N = m.dims[2]
  BY ArrayFacts
<1>4. PICK P \in Nat : P = Extent(m.dims, 3, n)
  <2>1. n \in 2 .. Len(m.dims) /\ Len(m.dims) >= 2
    BY <1>2
  <2> QED BY <1>2, <2>1, ExtentOfPages
<1>5. PICK page \in Nat : page = M * N
  BY NatTimes
<1>6. page = Extent(m.dims, 1, 2)
  BY <1>2, <1>3, <1>5, ShortExtents
<1> DEFINE index(k) == ((k - 1) \div M) * page + ((k - 1) % M)
<1>7. analyze_string(m) =
        [k \in 1 .. M * P |->
           [at   |-> display_subscript(m, index(k)),
            text |-> [c \in 1 .. N |-> m.data[index(k) + (c - 1) * M + 1]]]]
  BY <1>2, <1>3, <1>4, <1>5 DEF analyze_string
<1>8. ASSUME NEW sub \in Subscripts(m.dims)
      PROVE  \E l \in {analyze_string(m)[i] : i \in DOMAIN analyze_string(m)} :
               /\ l.at = [sub EXCEPT ![2] = 1]
               /\ l.text[sub[2]] = m.data[Offset(m.dims, sub) + 1]
  <2>1. PICK top : top = [sub EXCEPT ![2] = 1] /\ top \in Subscripts(m.dims)
    BY <1>2, FirstOfRow
  <2>2. PICK q \in Nat : q < P /\ InPage(m.dims, sub, q, Offset(m.dims, sub), Offset(m.dims, top))
    BY <1>2, <1>4, <2>1, SamePage
  <2>3. /\ sub[1] \in Nat \ {0} /\ sub[1] <= M
        /\ sub[2] \in Nat \ {0} /\ sub[2] <= N
    <3>1. 1 \in DOMAIN m.dims /\ 2 \in DOMAIN m.dims
      BY <1>2, LenProperties
    <3> QED BY <1>2, <1>3, <3>1, SubscriptsAre DEF IsSub
  <2>4. PICK a \in Nat \ {0} : a = sub[1] /\ a <= M
    BY <2>3
  <2>5. PICK k : k = q * M + a
    OBVIOUS
  <2>6. k \in 1 .. M * P /\ (k - 1) \div M = q /\ (k - 1) % M = a - 1
    <3>1. /\ q * M + a \in 1 .. M * P /\ M # 0
          /\ ((q * M + a) - 1) \div M = q /\ ((q * M + a) - 1) % M = a - 1
      <4>1. q < P /\ a <= M
        BY <2>2, <2>4
      <4> QED BY <4>1, RowNumber
    <3> QED BY <2>5, <3>1, Zenon
  <2>7. index(k) = q * page + (a - 1)
    BY <2>6
  <2>8. q * page \in Nat /\ a - 1 \in Nat
    <3>1. \A y \in Nat \ {0} : y - 1 \in Nat
      OBVIOUS
    <3> QED BY <3>1, NatTimes
  <2>9. Offset(m.dims, top) = (a - 1) + q * page
    BY <1>6, <2>2, <2>4 DEF InPage
  <2>10. index(k) = Offset(m.dims, top)
    BY <2>7, <2>8, <2>9
  <2>11. PICK c \in Nat : c = sub[2] - 1
    <3>1. \A y \in Nat \ {0} : y - 1 \in Nat
      OBVIOUS
    <3> QED BY <2>3, <3>1
  <2>12. Offset(m.dims, sub) = ((a - 1) + c * M) + q * page
    BY <1>3, <1>6, <2>2, <2>4, <2>11 DEF InPage
  <2>13. index(k) + c * M = Offset(m.dims, sub)
    <3>1. c * M \in Nat
      BY NatTimes
    <3>2. PICK x \in Nat : x = a - 1
      BY <2>8
    <3>3. \A x1, y, z \in Nat : (y + x1) + z = (x1 + z) + y
      OBVIOUS
    <3> QED BY <2>7, <2>8, <2>12, <3>1, <3>2, <3>3
  <2>14. PICK l : l = analyze_string(m)[k]
    OBVIOUS
  <2>15. k \in DOMAIN analyze_string(m) /\ l.at = display_subscript(m, index(k))
         /\ l.text = [c1 \in 1 .. N |-> m.data[index(k) + (c1 - 1) * M + 1]]
    <3> HIDE DEF index
    <3>1. k \in 1 .. M * P
      BY <2>6
    <3>2. PICK u : u = [at   |-> display_subscript(m, index(k)),
                        text |-> [c1 \in 1 .. N |-> m.data[index(k) + (c1 - 1) * M + 1]]]
      OBVIOUS
    <3>3. analyze_string(m)[k] = u
      BY <1>7, <3>1, <3>2
    <3>4. k \in DOMAIN analyze_string(m)
      BY <1>7, <3>1
    <3> QED BY <2>14, <3>2, <3>3, <3>4
  <2>16. l.at = top
    <3>1. Len(m.dims) >= 1
      BY <1>2
    <3>2. display_subscript(m, Offset(m.dims, top)) = top
      BY <1>2, <2>1, <3>1, SubscriptIsBack
    <3> HIDE DEF index
    <3> QED BY <2>10, <2>15, <3>2
  <2>17. l.text[sub[2]] = m.data[Offset(m.dims, sub) + 1]
    <3> HIDE DEF index
    <3>1. sub[2] \in 1 .. N
      BY <2>3
    <3>2. l.text[sub[2]] = m.data[index(k) + (sub[2] - 1) * M + 1]
      BY <2>15, <3>1
    <3> QED BY <2>11, <2>13, <3>2
  <2> QED BY <2>1, <2>14, <2>15, <2>16, <2>17
<1> HIDE DEF index
<1> QED BY <1>1, <1>8 DEF TextAt

-----------------------------------------------------------------------------
\* What was printed is what exploreMexArgs prints of the arguments.
Explored == outcome = "unknown" => printed = exploreMexArgs(rhs)

LEMMA OutcomeOfReading ==
  ASSUME Reading, Call \/ GetArg \/ GetElement \/ CloseBox
  PROVE  outcome' \in {"none", "ok", "wild", "error"}
<1>1. pc \in {"idle", "run"}
  BY DEF Call, GetArg, GetElement, CloseBox
<1>2. outcome = "none"
  BY <1>1 DEF Reading, Quiet
<1>3. CASE Call \/ CloseBox
  BY <1>2, <1>3 DEF Call, CloseBox
<1>4. CASE GetArg
  <2>1. PICK g \in Getters : IF Next_rhs = Null THEN Ends("wild") /\ UNCHANGED <<box, values>>
                                                ELSE GetOne(g) \/ OpenBox(g)
    BY <1>4 DEF GetArg
  <2> QED BY <1>2, <2>1 DEF GetOne, OpenBox, Outcomes, Ends
<1>5. CASE GetElement
  BY <1>2, <1>5 DEF GetElement, Outcomes, Ends
<1> QED BY <1>3, <1>4, <1>5

LEMMA ExploredKeeps == ASSUME Ready, Reading, Explored, [Next]_vars PROVE Explored'
<1>1. CASE Call \/ GetArg \/ GetElement \/ CloseBox
  <2>1. outcome' \in {"none", "ok", "wild", "error"}
    BY <1>1, OutcomeOfReading
  <2> QED BY <2>1 DEF Explored
<1>2. CASE Echo \/ OutputSparse \/ OutputStats \/ Return
  BY <1>2 DEF Echo, OutputSparse, OutputStats, Return, Ends, Explored
<1>3. CASE UnknownMethod
  BY <1>3 DEF UnknownMethod, Ends, input, Explored
<1>4. CASE UNCHANGED vars
  BY <1>4 DEF vars, input, result, Explored
<1> QED BY <1>1, <1>2, <1>3, <1>4 DEF Next

\* What a debug build prints of the arguments of a method nobody mapped has every element
\* of every array under its own subscript, and a string array's characters on the line of
\* their row.
THEOREM PrintedIsRight == Spec => []PrintedIsShown
<1>1. Init => Explored
  BY DEF Init, Explored
<1>2. IInv /\ Counted /\ Reading /\ Explored /\ [Next]_vars => Explored'
  BY ExploredKeeps DEF Ready
<1>3. IInv /\ Counted /\ Explored => PrintedIsShown
  <2> SUFFICES ASSUME IInv, Counted, Explored, outcome = "unknown", NEW i \in DOMAIN rhs
               PROVE  LET m == rhs[i]
                      IN  CASE m.class \in NumericClasses \cup {"logical"} -> Sparse(m) \/ ShownAt(printed[i], m)
                            [] m.class = "char" -> TextAt(printed[i], m)
                            [] m.class = "cell" ->
                                 \A sub \in Subscripts(m.dims) : \E n \in DOMAIN printed[i] :
                                   /\ printed[i][n].at = sub
                                   /\ printed[i][n].in = analyze_element(Element(m, Offset(m.dims, sub) + 1))
                            [] OTHER ->
                                 \A sub \in Subscripts(m.dims), f \in DOMAIN m.names : \E n \in DOMAIN printed[i] :
                                   /\ printed[i][n].at = sub /\ printed[i][n].field = m.names[f]
                                   /\ printed[i][n].in =
                                        analyze_element(Element(m, Offset(m.dims, sub) * Len(m.names) + f))
    BY DEF PrintedIsShown
  <2>1. PICK m : m = rhs[i] /\ IsArray(m)
    BY ArgumentsAre DEF Ready
  <2>2. printed[i] = analyze_class(m)
    BY <2>1 DEF Explored, exploreMexArgs
  <2>3. \A c \in NumericClasses \cup {"logical"} : c \notin {"char", "cell", "struct"}
    BY DEF NumericClasses, IntegerClasses
  <2>4. CASE m.class \in NumericClasses \cup {"logical"}
    <3>1. Sparse(m) \/ ShownAt(printed[i], m)
      BY <2>1, <2>2, <2>4, NumbersAreShown
    <3> QED BY <2>1, <2>3, <2>4, <3>1
  <2>5. CASE m.class = "char"
    <3>1. TextAt(printed[i], m)
      BY <2>1, <2>2, <2>5, TextIsShown
    <3> QED BY <2>1, <2>3, <2>5, <3>1
  <2>6. CASE m.class = "cell"
    <3>1. \A sub \in Subscripts(m.dims) : \E n \in DOMAIN printed[i] :
            /\ printed[i][n].at = sub
            /\ printed[i][n].in = analyze_element(Element(m, Offset(m.dims, sub) + 1))
      BY <2>1, <2>2, <2>6, CellsAreShown
    <3> QED BY <2>1, <2>3, <2>6, <3>1
  <2>7. CASE m.class = "struct"
    <3>1. \A sub \in Subscripts(m.dims), f \in DOMAIN m.names : \E n \in DOMAIN printed[i] :
            /\ printed[i][n].at = sub /\ printed[i][n].field = m.names[f]
            /\ printed[i][n].in = analyze_element(Element(m, Offset(m.dims, sub) * Len(m.names) + f))
      <4> SUFFICES ASSUME NEW sub \in Subscripts(m.dims), NEW f \in DOMAIN m.names
                   PROVE  \E n \in DOMAIN printed[i] :
                            /\ printed[i][n].at = sub /\ printed[i][n].field = m.names[f]
                            /\ printed[i][n].in =
                                 analyze_element(Element(m, Offset(m.dims, sub) * Len(m.names) + f))
        OBVIOUS
      <4>1. \E n \in DOMAIN analyze_class(m) :
              /\ analyze_class(m)[n].at = sub /\ analyze_class(m)[n].field = m.names[f]
              /\ analyze_class(m)[n].in = analyze_element(Element(m, Offset(m.dims, sub) * Len(m.names) + f))
        BY <2>1, <2>7, FieldsAreShown
      <4> QED BY <2>2, <4>1
    <3> QED BY <2>1, <2>3, <2>7, <3>1
  <2> QED BY <2>1, <2>4, <2>5, <2>6, <2>7 DEF IsArray
<1> QED BY <1>1, <1>2, <1>3, ReadingAlways, PTL DEF Spec

-----------------------------------------------------------------------------
(* Sparse outputs. *)

\* The lines of one column after total others, and any lines of the array.
Added(m, col, total) ==
  [k \in 1 .. (IF m.jc[col] < m.jc[col + 1] THEN m.jc[col + 1] - m.jc[col] ELSE 0) |->
     Line(<<m.ir[m.jc[col] + k] + 1, col>>, m.data[total + k], <<>>)]

LinesOf(m) == {Line(<<m.ir[j] + 1, c>>, m.data[i], <<>>) : j \in Nat, i \in Nat, c \in Nat}

IsAnalyzed(p, m, n) ==
  /\ p[0] = <<>>
  /\ \A c \in 1 .. n : p[c] = p[c - 1] \o Added(m, c, Len(p[c - 1]))
  /\ analyze_sparse(m) = p[n]

LEMMA AddedIsSeq ==
  ASSUME NEW m, NEW c \in Nat, m.jc[c] \in Nat, m.jc[c + 1] \in Nat, NEW total \in Nat
  PROVE  /\ Added(m, c, total) \in Seq(LinesOf(m))
         /\ Len(Added(m, c, total)) = IF m.jc[c] < m.jc[c + 1] THEN m.jc[c + 1] - m.jc[c] ELSE 0
<1>1. PICK n \in Nat : n = IF m.jc[c] < m.jc[c + 1] THEN m.jc[c + 1] - m.jc[c] ELSE 0
  OBVIOUS
<1>2. ASSUME NEW k \in 1 .. n
      PROVE  Line(<<m.ir[m.jc[c] + k] + 1, c>>, m.data[total + k], <<>>) \in LinesOf(m)
  <2>1. PICK j \in Nat, i \in Nat : j = m.jc[c] + k /\ i = total + k
    OBVIOUS
  <2>2. Line(<<m.ir[j] + 1, c>>, m.data[i], <<>>) \in LinesOf(m)
    <3>1. c \in Nat /\ i \in Nat /\ j \in Nat
      OBVIOUS
    <3> DEFINE of(j1, i1, c1) == Line(<<m.ir[j1] + 1, c1>>, m.data[i1], <<>>)
    <3>2. LinesOf(m) = {of(j1, i1, c1) : j1 \in Nat, i1 \in Nat, c1 \in Nat}
      BY DEF LinesOf
    <3> HIDE DEF of
    <3>3. of(j, i, c) \in LinesOf(m)
      BY <3>1, <3>2
    <3> QED BY <3>3 DEF of
  <2> QED BY <2>1, <2>2
<1>3. Added(m, c, total) = [k \in 1 .. n |-> Line(<<m.ir[m.jc[c] + k] + 1, c>>, m.data[total + k], <<>>)]
  BY <1>1 DEF Added
<1>4. Added(m, c, total) \in [1 .. n -> LinesOf(m)]
  BY <1>2, <1>3
<1>5. Added(m, c, total) \in Seq(LinesOf(m)) /\ Len(Added(m, c, total)) = n
  BY <1>4
<1> QED BY <1>1, <1>5

LEMMA Predecessor == \A n \in Nat : \A c \in 1 .. n : c - 1 \in Nat /\ c - 1 + 1 = c /\ c <= n
  OBVIOUS

LEMMA SparseFunction ==
  ASSUME NEW m, NEW n \in Nat, GetN(m) = n, \A c \in 1 .. n + 1 : m.jc[c] \in Nat
  PROVE  \E p : IsAnalyzed(p, m, n)
<1> DEFINE more(c, x) == IF c + 1 <= n THEN x \o Added(m, c + 1, Len(x)) ELSE x
           S == Seq(LinesOf(m))
           step == [c \in Nat |-> [x \in S |-> more(c, x)]]
<1>1. ASSUME NEW c \in Nat, NEW x \in S
      PROVE  more(c, x) \in S
  <2>1. CASE c + 1 <= n
    <3>1. c + 1 \in 1 .. n + 1 /\ c + 1 + 1 \in 1 .. n + 1 /\ c + 1 \in Nat
      BY <2>1
    <3>2. Len(x) \in Nat
      OBVIOUS
    <3>3. Added(m, c + 1, Len(x)) \in S
      BY <3>1, <3>2, AddedIsSeq
    <3> QED BY <2>1, <3>3, ConcatProperties
  <2>2. CASE ~ (c + 1 <= n)
    BY <2>2
  <2> QED BY <2>1, <2>2
<1>2. PICK f \in [Nat -> S] : f[0] = <<>> /\ \A c \in Nat : f[c + 1] = step[c][f[c]]
  <2>1. <<>> \in S /\ step \in [Nat -> [S -> S]]
    BY <1>1
  <2> HIDE DEF step, S
  <2>2. IsDefined(S, <<>>, step)
    BY <2>1, RecursiveFunction
  <2> QED BY <2>2 DEF IsDefined
<1>3. ASSUME NEW c \in 1 .. n
      PROVE  f[c] = f[c - 1] \o Added(m, c, Len(f[c - 1]))
  <2>0. c - 1 \in Nat /\ c - 1 + 1 = c /\ c <= n
    BY Predecessor
  <2>1. c - 1 \in Nat /\ c - 1 + 1 = c /\ c <= n /\ f[c - 1] \in S
    <3> HIDE DEF S
    <3> QED BY <1>2, <2>0
  <2>2. f[c] = step[c - 1][f[c - 1]]
    BY <1>2, <2>1
  <2>3. f[c] = more(c - 1, f[c - 1])
    BY <2>1, <2>2
  <2> QED BY <2>1, <2>3
<1> HIDE DEF step, S
<1> DEFINE body(p, c) ==
             IF c = 0 THEN <<>>
             ELSE LET first == m.jc[c]
                      last  == m.jc[c + 1]
                      total == Len(p[c - 1])
                  IN  p[c - 1] \o
                        [k \in 1 .. (IF first < last THEN last - first ELSE 0) |->
                           Line(<<m.ir[first + k] + 1, c>>, m.data[total + k], <<>>)]
           Is(p) == p = [c \in 0 .. n |-> body(p, c)]
           q == [c \in 0 .. n |-> f[c]]
           p == CHOOSE p : Is(p)
<1>4. \A x, c : c # 0 => body(x, c) = x[c - 1] \o Added(m, c, Len(x[c - 1]))
  BY DEF Added
<1>5. analyze_sparse(m) = p[n]
  BY DEF analyze_sparse
<1>6. Is(q)
  <2>1. ASSUME NEW c \in 0 .. n
        PROVE  q[c] = body(q, c)
    <3> HIDE DEF body
    <3>1. CASE c = 0
      <4>1. body(q, c) = <<>>
        BY <3>1 DEF body
      <4> QED BY <1>2, <3>1, <4>1
    <3>2. CASE c # 0
      <4>1. c \in 1 .. n /\ c - 1 \in 0 .. n
        BY <3>2
      <4>2. q[c] = f[c] /\ q[c - 1] = f[c - 1]
        BY <4>1
      <4> HIDE DEF q
      <4>3. body(q, c) = q[c - 1] \o Added(m, c, Len(q[c - 1]))
        BY <1>4, <3>2
      <4> QED BY <1>3, <4>1, <4>2, <4>3
    <3> QED BY <3>1, <3>2
  <2> HIDE DEF body
  <2> QED BY <2>1
<1> HIDE DEF body
<1>7. Is(p)
  BY <1>6
<1> HIDE DEF p, q
<1>8. p[0] = <<>>
  <2>1. 0 \in 0 .. n
    OBVIOUS
  <2> QED BY <1>7, <2>1 DEF body
<1>9. ASSUME NEW c \in 1 .. n
      PROVE  p[c] = p[c - 1] \o Added(m, c, Len(p[c - 1]))
  <2>1. c \in 0 .. n /\ c # 0
    OBVIOUS
  <2>2. p[c] = body(p, c)
    BY <1>7, <2>1
  <2> QED BY <1>4, <2>1, <2>2
<1> QED BY <1>5, <1>8, <1>9 DEF IsAnalyzed

LEMMA SparseOutput ==
  ASSUME NEW s, IsSpMat(s), s.n_rows <= s.n_cols
  PROVE  LET m == SpMatToMXArray(s)
         IN  /\ m.dims = <<s.n_rows, s.n_cols>> /\ GetN(m) = s.n_cols
             /\ m.ir = s.row_indices /\ m.data = s.values
             /\ \A c \in 1 .. s.n_cols + 1 : m.jc[c] = IF c <= s.n_rows + 1 THEN s.col_ptrs[c] ELSE 0
<1>1. PICK r \in Nat, n \in Nat : r = s.n_rows /\ n = s.n_cols
  BY DEF IsSpMat
<1>2. PICK m : m = SpMatToMXArray(s)
  OBVIOUS
<1>3. m.dims = Trimmed(<<r, n>>) /\ m.ir = s.row_indices /\ m.data = s.values /\ m.jc = CopiedPointers(s)
  BY <1>1, <1>2 DEF SpMatToMXArray, SparseArray, Array
<1>4. m.dims = <<r, n>>
  BY <1>3, PairStays
<1>5. GetN(m) = n
  <2>1. PICK d : d = <<r, n>>
    OBVIOUS
  <2>2. d \in Seq(Nat) /\ Len(d) = 2 /\ Len(d) >= 2 /\ d[2] = n
    BY <2>1
  <2>3. Extent(d, 2, 2) = n
    BY <2>2, ShortExtents
  <2> QED BY <1>4, <2>1, <2>2, <2>3 DEF GetN
<1>6. \A c \in 1 .. n + 1 : m.jc[c] = IF c <= r + 1 THEN s.col_ptrs[c] ELSE 0
  BY <1>1, <1>3 DEF CopiedPointers
<1> QED BY <1>1, <1>2, <1>3, <1>4, <1>5, <1>6

\* The lines x show the nonzeros of the first c columns.
Of(s, c) == s.col_ptrs[c] + 1 .. s.col_ptrs[c + 1]

Held(s, x, c) ==
  /\ \E S : x \in Seq(S)
  /\ Len(x) = s.col_ptrs[c + 1]
  /\ \A e \in 1 .. c : \A k \in Of(s, e) :
       k \in 1 .. Len(x) /\ x[k] = Line(<<s.row_indices[k] + 1, e>>, s.values[k], <<>>)
  /\ \A i \in 1 .. Len(x) : \E e \in 1 .. c : i \in Of(s, e)

LEMMA Pointers ==
  ASSUME NEW s, IsSpMat(s), NEW c \in 1 .. s.n_cols
  PROVE  /\ s.col_ptrs[c] \in Nat /\ s.col_ptrs[c + 1] \in Nat /\ s.col_ptrs[c] <= s.col_ptrs[c + 1]
         /\ \A k \in Of(s, c) : k \in Nat \ {0}
<1>1. DOMAIN s.col_ptrs = 1 .. s.n_cols + 1 /\ s.n_cols \in Nat
  BY LenProperties DEF IsSpMat
<1>2. c \in 1 .. s.n_cols + 1 /\ c + 1 \in 1 .. s.n_cols + 1
  BY <1>1
<1>3. s.col_ptrs[c] \in Nat /\ s.col_ptrs[c + 1] \in Nat
  BY <1>1, <1>2, ElementOfSeq DEF IsSpMat
<1>4. s.col_ptrs[c] <= s.col_ptrs[c + 1]
  BY DEF IsSpMat
<1>5. \A k \in Of(s, c) : k \in Nat \ {0}
  BY <1>3 DEF Of
<1> QED BY <1>3, <1>4, <1>5

LEMMA SeqWidens ==
  ASSUME NEW S, NEW U, S \subseteq U, NEW x \in Seq(S)
  PROVE  x \in Seq(U)
<1>1. PICK n \in Nat : n = Len(x) /\ DOMAIN x = 1 .. n /\ x \in [1 .. n -> S]
  BY LenProperties
<1>2. x \in [1 .. n -> U]
  BY <1>1
<1> QED BY <1>2

\* A copied column adds its own nonzeros, each in its place.
LEMMA ColumnAdds ==
  ASSUME NEW s, IsSpMat(s), s.n_rows <= s.n_cols, NEW c \in Nat, c + 1 <= s.n_rows, NEW x, Held(s, x, c)
  PROVE  Held(s, x \o Added(SpMatToMXArray(s), c + 1, Len(x)), c + 1)
<1>m. PICK m : m = SpMatToMXArray(s)
  OBVIOUS
<1>0. PICK r \in Nat, n \in Nat : m = SpMatToMXArray(s) /\ r = s.n_rows /\ n = s.n_cols
  BY <1>m DEF IsSpMat
<1>1. PICK d \in Nat : d = c + 1 /\ d \in 1 .. n /\ d \in 1 .. n + 1 /\ d + 1 \in 1 .. n + 1 /\ d <= r + 1 /\ d + 1 <= r + 1
  BY <1>0
<1>2. PICK p \in Nat, q \in Nat : p = s.col_ptrs[d] /\ q = s.col_ptrs[d + 1] /\ p <= q
  BY <1>0, <1>1, Pointers
<1>3. m.jc[d] = p /\ m.jc[d + 1] = q
  BY <1>0, <1>1, <1>2, SparseOutput
<1>4. Len(x) = p /\ \E S : x \in Seq(S)
  BY <1>1, <1>2 DEF Held
<1>5. PICK t : t = Added(m, d, p)
  OBVIOUS
<1>6. t \in Seq(LinesOf(m)) /\ Len(t) = q - p
  <2>1. /\ Added(m, d, p) \in Seq(LinesOf(m))
        /\ Len(Added(m, d, p)) = IF m.jc[d] < m.jc[d + 1] THEN m.jc[d + 1] - m.jc[d] ELSE 0
    <3>1. m.jc[d] \in Nat /\ m.jc[d + 1] \in Nat
      BY <1>3
    <3> QED BY <3>1, AddedIsSeq
  <2>2. (IF p < q THEN q - p ELSE 0) = q - p
    BY <1>2
  <2> QED BY <1>3, <1>5, <2>1, <2>2
<1>7. \A k \in 1 .. q - p : t[k] = Line(<<s.row_indices[p + k] + 1, d>>, s.values[p + k], <<>>)
  <2>1. m.ir = s.row_indices /\ m.data = s.values
    BY <1>0, SparseOutput
  <2>2. (IF p < q THEN q - p ELSE 0) = q - p
    BY <1>2
  <2>3. t = [k \in 1 .. q - p |-> Line(<<m.ir[p + k] + 1, d>>, m.data[p + k], <<>>)]
    BY <1>3, <1>5, <2>2 DEF Added
  <2> QED BY <2>1, <2>3
<1>8. PICK y : y = x \o t
  OBVIOUS
<1>9. /\ \E S : y \in Seq(S)
      /\ Len(y) = q
      /\ \A k \in 1 .. p : y[k] = x[k]
      /\ \A k \in p + 1 .. q : y[k] = t[k - p] /\ k - p \in 1 .. q - p /\ p + (k - p) = k
  <2>1. PICK S : x \in Seq(S)
    BY <1>4
  <2>2. PICK U : U = S \cup LinesOf(m)
    OBVIOUS
  <2>3. x \in Seq(U) /\ t \in Seq(U)
    BY <1>6, <2>1, <2>2, SeqWidens
  <2>4. /\ x \o t \in Seq(U) /\ Len(x \o t) = Len(x) + Len(t)
        /\ \A k \in 1 .. Len(x) + Len(t) : (x \o t)[k] = IF k <= Len(x) THEN x[k] ELSE t[k - Len(x)]
    BY <2>3, ConcatProperties
  <2>5. p + (q - p) = q
    BY <1>2
  <2>6. \A k \in 1 .. q : y[k] = IF k <= p THEN x[k] ELSE t[k - p]
    BY <1>4, <1>6, <1>8, <2>4, <2>5
  <2>7. Len(y) = q
    BY <1>4, <1>6, <1>8, <2>4, <2>5
  <2>8. /\ \A k \in 1 .. p : k \in 1 .. q /\ k <= p
        /\ \A k \in p + 1 .. q : k \in 1 .. q /\ ~ (k <= p) /\ k - p \in 1 .. q - p /\ p + (k - p) = k
    BY <1>2
  <2> QED BY <1>8, <2>4, <2>6, <2>7, <2>8
<1>10. ASSUME NEW e \in 1 .. d, NEW k \in Of(s, e)
       PROVE  k \in 1 .. Len(y) /\ y[k] = Line(<<s.row_indices[k] + 1, e>>, s.values[k], <<>>)
  <2>1. CASE e = d
    <3>1. k \in p + 1 .. q
      BY <1>2, <2>1 DEF Of
    <3>2. k \in 1 .. q
      BY <1>2, <3>1
    <3>3. y[k] = t[k - p] /\ k - p \in 1 .. q - p /\ p + (k - p) = k
      BY <1>9, <3>1
    <3>4. y[k] = Line(<<s.row_indices[k] + 1, d>>, s.values[k], <<>>)
      BY <1>7, <3>3
    <3> QED BY <1>9, <2>1, <3>2, <3>4
  <2>2. CASE e # d
    <3>1. e \in 1 .. c
      BY <1>1, <2>2
    <3>2. k \in 1 .. p /\ x[k] = Line(<<s.row_indices[k] + 1, e>>, s.values[k], <<>>)
      BY <1>4, <3>1 DEF Held
    <3>3. k \in 1 .. q
      BY <1>2, <3>2
    <3> QED BY <1>9, <3>2, <3>3
  <2> QED BY <2>1, <2>2
<1>11. ASSUME NEW i \in 1 .. Len(y)
       PROVE  \E e \in 1 .. d : i \in Of(s, e)
  <2>1. CASE i <= p
    <3>1. i \in 1 .. Len(x)
      BY <1>2, <1>4, <1>9, <2>1
    <3>2. PICK e \in 1 .. c : i \in Of(s, e)
      BY <3>1 DEF Held
    <3>3. e \in 1 .. d
      BY <1>1
    <3> QED BY <3>2, <3>3
  <2>2. CASE ~ (i <= p)
    <3>1. i \in p + 1 .. q
      BY <1>2, <1>9, <2>2
    <3>2. i \in Of(s, d) /\ d \in 1 .. d
      BY <1>1, <1>2, <3>1 DEF Of
    <3> QED BY <3>2
  <2> QED BY <2>1, <2>2
<1>12. Len(y) = s.col_ptrs[d + 1]
  BY <1>2, <1>9
<1>13. Held(s, y, d)
  BY <1>9, <1>10, <1>11, <1>12 DEF Held
<1> QED BY <1>0, <1>1, <1>4, <1>5, <1>8, <1>13

\* After the n_rows-th column the pointers are zero, and nothing is added.
LEMMA NothingAdded ==
  ASSUME NEW s, IsSpMat(s), s.n_rows <= s.n_cols, NEW c \in Nat, c + 1 > s.n_rows, c + 1 <= s.n_cols,
         NEW S, NEW x \in Seq(S), NEW total \in Nat
  PROVE  x \o Added(SpMatToMXArray(s), c + 1, total) = x
<1>m. PICK m : m = SpMatToMXArray(s)
  OBVIOUS
<1>0. PICK r \in Nat, n \in Nat : m = SpMatToMXArray(s) /\ r = s.n_rows /\ n = s.n_cols
  BY <1>m DEF IsSpMat
<1>1. PICK d \in Nat : d = c + 1 /\ d \in 1 .. n /\ d \in 1 .. n + 1 /\ d + 1 \in 1 .. n + 1 /\ ~ (d + 1 <= r + 1)
  BY <1>0
<1>2. s.col_ptrs[d] \in Nat
  BY <1>0, <1>1, Pointers
<1>3. m.jc[d + 1] = 0 /\ m.jc[d] \in Nat
  BY <1>0, <1>1, <1>2, SparseOutput
<1>4. PICK t : t = Added(m, d, total)
  OBVIOUS
<1>5. t \in Seq(LinesOf(m)) /\ Len(t) = 0
  <2>1. /\ Added(m, d, total) \in Seq(LinesOf(m))
        /\ Len(Added(m, d, total)) = IF m.jc[d] < m.jc[d + 1] THEN m.jc[d + 1] - m.jc[d] ELSE 0
    <3>1. m.jc[d] \in Nat /\ m.jc[d + 1] \in Nat
      BY <1>3
    <3> QED BY <3>1, AddedIsSeq
  <2>2. \A x0 \in Nat : ~ (x0 < 0)
    OBVIOUS
  <2> QED BY <1>3, <1>4, <2>1, <2>2
<1>6. t = <<>>
  BY <1>5, EmptySeq
<1>7. x \o <<>> = x
  BY ConcatEmptySeq
<1> QED BY <1>0, <1>1, <1>4, <1>6, <1>7

LEMMA SparseIsHeld ==
  ASSUME NEW s, IsSpMat(s), s.n_rows <= s.n_cols
  PROVE  Held(s, analyze_sparse(SpMatToMXArray(s)), s.n_rows)
<1>m. PICK m : m = SpMatToMXArray(s)
  OBVIOUS
<1>0. PICK r \in Nat, n \in Nat : m = SpMatToMXArray(s) /\ r = s.n_rows /\ n = s.n_cols /\ r <= n
  BY <1>m DEF IsSpMat
<1>1. \A c \in 1 .. n + 1 : m.jc[c] \in Nat
  <2>1. ASSUME NEW c \in 1 .. n + 1
        PROVE  s.col_ptrs[c] \in Nat
    <3>1. DOMAIN s.col_ptrs = 1 .. n + 1
      BY <1>0, LenProperties DEF IsSpMat
    <3> QED BY <3>1, ElementOfSeq DEF IsSpMat
  <2> QED BY <1>0, <2>1, SparseOutput
<1>2. GetN(m) = n
  BY <1>0, SparseOutput
<1>3. PICK p : IsAnalyzed(p, m, n)
  BY <1>1, <1>2, SparseFunction
<1> DEFINE w(c) == IF c <= r THEN c ELSE r
           T == {c \in Nat : c <= n => Held(s, p[c], w(c))}
<1>4. 0 \in T
  <2>1. p[0] = <<>> /\ <<>> \in Seq({}) /\ Len(<<>>) = 0 /\ w(0) = 0 /\ 0 + 1 = 1
    BY <1>3 DEF IsAnalyzed
  <2>2. s.col_ptrs[1] = 0
    BY DEF IsSpMat
  <2>3. \A e \in 1 .. 0 : FALSE
    OBVIOUS
  <2> HIDE DEF w
  <2>4. Held(s, p[0], w(0))
    BY <2>1, <2>2, <2>3 DEF Held
  <2> QED BY <2>4
<1>5. ASSUME NEW c \in T \cap Nat
      PROVE  c + 1 \in T
  <2>1. SUFFICES ASSUME c + 1 <= n PROVE Held(s, p[c + 1], w(c + 1))
    OBVIOUS
  <2>2. Held(s, p[c], w(c)) /\ c \in Nat
    BY <2>1
  <2> HIDE DEF T
  <2>3. p[c + 1] = p[c] \o Added(m, c + 1, Len(p[c]))
    <3>1. PICK b \in 1 .. n : b = c + 1 /\ b - 1 = c
      BY <2>1, <2>2
    <3>2. p[b] = p[b - 1] \o Added(m, b, Len(p[b - 1]))
      BY <1>3 DEF IsAnalyzed
    <3> QED BY <3>1, <3>2
  <2>4. CASE c + 1 <= r
    <3>1. w(c) = c /\ w(c + 1) = c + 1
      BY <2>2, <2>4
    <3> HIDE DEF w
    <3>2. Held(s, p[c] \o Added(m, c + 1, Len(p[c])), c + 1)
      BY <1>0, <2>2, <2>4, <3>1, ColumnAdds
    <3> QED BY <2>3, <3>1, <3>2
  <2>5. CASE c + 1 > r
    <3>1. w(c) = w(c + 1)
      BY <2>2, <2>5
    <3> HIDE DEF w
    <3>2. PICK S : p[c] \in Seq(S)
      BY <2>2 DEF Held
    <3>3. Len(p[c]) \in Nat
      BY <3>2
    <3>4. p[c] \o Added(m, c + 1, Len(p[c])) = p[c]
      <4>1. c + 1 > s.n_rows /\ c + 1 <= s.n_cols /\ c \in Nat
        BY <1>0, <2>1, <2>2, <2>5
      <4>2. PICK x \in Seq(S) : x = p[c]
        BY <3>2
      <4>3. PICK total \in Nat : total = Len(p[c])
        BY <3>3
      <4>4. x \o Added(SpMatToMXArray(s), c + 1, total) = x
        BY <4>1, NothingAdded
      <4> QED BY <1>0, <4>2, <4>3, <4>4
    <3> QED BY <2>2, <2>3, <3>1, <3>4
  <2> QED BY <2>2, <2>4, <2>5
<1> HIDE DEF T
<1>6. Nat \subseteq T
  BY <1>4, <1>5, SetInduction
<1>7. Held(s, p[n], w(n))
  BY <1>0, <1>6 DEF T
<1>8. w(n) = r
  BY <1>0
<1> HIDE DEF w
<1> QED BY <1>0, <1>3, <1>7, <1>8 DEF IsAnalyzed

LEMMA SparseArrives ==
  ASSUME NEW s, IsSpMat(s), s.n_rows <= s.n_cols
  PROVE  LET m == SpMatToMXArray(s)
             lines == analyze_sparse(m)
         IN  /\ m.dims = <<s.n_rows, s.n_cols>>
             /\ \A i \in DOMAIN lines : <<lines[i].at[1], lines[i].at[2], lines[i].re>> \in Entries(s)
             /\ \A e \in Entries(s) :
                  e[2] <= s.n_rows => \E i \in DOMAIN lines : lines[i].at = <<e[1], e[2]>> /\ lines[i].re = e[3]
<1>m. PICK m, lines : m = SpMatToMXArray(s) /\ lines = analyze_sparse(m)
  OBVIOUS
<1>0. PICK r \in Nat, n \in Nat : /\ m = SpMatToMXArray(s) /\ lines = analyze_sparse(m)
                                  /\ r = s.n_rows /\ n = s.n_cols /\ r <= n
  BY <1>m DEF IsSpMat
<1>1. Held(s, lines, r)
  BY <1>0, SparseIsHeld
<1>2. PICK l \in Nat : l = Len(lines) /\ DOMAIN lines = 1 .. l
  BY <1>1, LenProperties DEF Held
<1>3. ASSUME NEW c \in 1 .. r, NEW k \in Of(s, c)
      PROVE  k \in 1 .. l /\ lines[k].at = <<s.row_indices[k] + 1, c>> /\ lines[k].re = s.values[k]
  <2>1. k \in 1 .. l /\ lines[k] = Line(<<s.row_indices[k] + 1, c>>, s.values[k], <<>>)
    BY <1>1, <1>2 DEF Held
  <2> QED BY <2>1 DEF Line
<1>4. Entries(s) = UNION {{<<s.row_indices[k] + 1, c, s.values[k]>> : k \in Of(s, c)} : c \in 1 .. n}
  BY <1>0 DEF Entries, Of
<1>5. ASSUME NEW i \in DOMAIN lines
      PROVE  <<lines[i].at[1], lines[i].at[2], lines[i].re>> \in Entries(s)
  <2>1. PICK c \in 1 .. r : i \in Of(s, c)
    BY <1>1, <1>2 DEF Held
  <2>2. lines[i].at = <<s.row_indices[i] + 1, c>> /\ lines[i].re = s.values[i] /\ c \in 1 .. n
    BY <1>0, <1>3, <2>1
  <2>3. <<s.row_indices[i] + 1, c, s.values[i]>> \in Entries(s)
    BY <1>4, <2>1, <2>2
  <2> QED BY <2>2, <2>3
<1>6. ASSUME NEW e \in Entries(s), e[2] <= r
      PROVE  \E i \in DOMAIN lines : lines[i].at = <<e[1], e[2]>> /\ lines[i].re = e[3]
  <2>0. PICK c \in 1 .. n : e \in {<<s.row_indices[k] + 1, c, s.values[k]>> : k \in Of(s, c)}
    BY <1>4
  <2>1. PICK k \in Of(s, c) : e = <<s.row_indices[k] + 1, c, s.values[k]>>
    BY <2>0
  <2>2. c \in 1 .. r /\ e[1] = s.row_indices[k] + 1 /\ e[2] = c /\ e[3] = s.values[k]
    BY <1>6, <2>1
  <2> QED BY <1>2, <1>3, <2>1, <2>2
<1>7. m.dims = <<r, n>>
  BY <1>0, SparseOutput
<1> QED BY <1>0, <1>5, <1>6, <1>7

SparseIsOutput ==
  outcome = "sparse" =>
    computed \in SpMats /\ computed.n_rows <= computed.n_cols /\ lhs = <<SpMatToMXArray(computed)>>

LEMMA SparseOutputKeeps == ASSUME Ready, Reading, SparseIsOutput, [Next]_vars PROVE SparseIsOutput'
<1>1. CASE Call \/ GetArg \/ GetElement \/ CloseBox
  <2>1. outcome' \in {"none", "ok", "wild", "error"}
    BY <1>1, OutcomeOfReading
  <2> QED BY <2>1 DEF SparseIsOutput
<1>2. CASE OutputSparse
  <2>1. PICK s \in SpMats : /\ computed' = s /\ lhs' = <<SpMatToMXArray(s)>>
                            /\ outcome' = IF s.n_rows > s.n_cols THEN "wild" ELSE "sparse"
    BY <1>2 DEF OutputSparse, Ends
  <2>2. s.n_rows \in Nat /\ s.n_cols \in Nat
    BY SpMatsAssumption DEF IsSpMat
  <2>3. ~ (s.n_rows > s.n_cols) => s.n_rows <= s.n_cols
    BY <2>2
  <2> QED BY <2>1, <2>3 DEF SparseIsOutput
<1>3. CASE Echo \/ OutputStats \/ UnknownMethod \/ Return
  BY <1>3 DEF Echo, OutputStats, UnknownMethod, Return, Ends, SparseIsOutput
<1>4. CASE UNCHANGED vars
  BY <1>4 DEF vars, input, result, SparseIsOutput
<1> QED BY <1>1, <1>2, <1>3, <1>4 DEF Next

\* The nonzeros of every sparse matrix that has no more rows than columns arrive, each at
\* its row and column, but for those of columns past the n_rows-th; and no others do.
THEOREM SparseIsRight == Spec => []SparseIsKept
<1>1. Init => SparseIsOutput
  BY DEF Init, SparseIsOutput
<1>2. IInv /\ Counted /\ Reading /\ SparseIsOutput /\ [Next]_vars => SparseIsOutput'
  BY SparseOutputKeeps DEF Ready
<1>3. SparseIsOutput => SparseIsKept
  <2> SUFFICES ASSUME SparseIsOutput, outcome = "sparse"
               PROVE  LET s     == computed
                          lines == analyze_sparse(lhs[1])
                      IN  /\ lhs[1].dims = <<s.n_rows, s.n_cols>>
                          /\ \A i \in DOMAIN lines : <<lines[i].at[1], lines[i].at[2], lines[i].re>> \in Entries(s)
                          /\ \A e \in Entries(s) :
                               e[2] <= s.n_rows =>
                                 \E i \in DOMAIN lines : lines[i].at = <<e[1], e[2]>> /\ lines[i].re = e[3]
    BY DEF SparseIsKept
  <2>1. IsSpMat(computed) /\ computed.n_rows <= computed.n_cols /\ lhs[1] = SpMatToMXArray(computed)
    BY SpMatsAssumption DEF SparseIsOutput
  <2>2. LET m == SpMatToMXArray(computed)
            lines == analyze_sparse(m)
        IN  /\ m.dims = <<computed.n_rows, computed.n_cols>>
            /\ \A i \in DOMAIN lines : <<lines[i].at[1], lines[i].at[2], lines[i].re>> \in Entries(computed)
            /\ \A e \in Entries(computed) :
                 e[2] <= computed.n_rows =>
                   \E i \in DOMAIN lines : lines[i].at = <<e[1], e[2]>> /\ lines[i].re = e[3]
    BY <2>1, SparseArrives
  <2> QED BY <2>1, <2>2, Zenon
<1> QED BY <1>1, <1>2, <1>3, ReadingAlways, PTL DEF Spec

-----------------------------------------------------------------------------
(* Dictionaries of numbers, which the Matlab class converts. *)

IsState(s) == {"failed", "made"} \subseteq DOMAIN s /\ s.failed \in BOOLEAN

Puts(t, s, g, v) ==
  /\ t.failed = FALSE /\ DOMAIN t.made = DOMAIN s.made \cup {g}
  /\ t.made[g] = v /\ \A h \in DOMAIN s.made : h # g => t.made[h] = s.made[h]

LEMMA Adds ==
  ASSUME NEW s, IsState(s), NEW p, NEW val, NEW t, t = AddEntry(s, p, val)
  PROVE  /\ IsState(t)
         /\ s.failed => t.failed
         /\ ~s.failed /\ Len(p) # 2 => Puts(t, s, p[1], Numbers(<<val>>))
         /\ ~s.failed /\ Len(p) = 2 /\ p[2] \in DOMAIN Index =>
              IF Index[p[2]] < 1 THEN t.failed ELSE Puts(t, s, p[1], SetIndex(s.made[p[1]], Index[p[2]], val))
         /\ ~s.failed /\ Len(p) = 2 /\ p[2] \notin DOMAIN Index =>
              IF IsNumeric(s.made[p[1]]) /\ s.made[p[1]].array # <<>> THEN t.failed
              ELSE Puts(t, s, p[1], SetKey(s.made[p[1]], p[2], val))
<1> DEFINE group == p[1]
           put(v) == [s EXCEPT !.made = [g \in DOMAIN s.made \cup {group} |-> IF g = group THEN v ELSE s.made[g]]]
           fail   == [s EXCEPT !.failed = TRUE]
<1>1. \A v : ~s.failed => IsState(put(v)) /\ Puts(put(v), s, p[1], v)
  BY DEF IsState, Puts
<1>2. IsState(fail) /\ fail.failed
  BY DEF IsState
<1>3. CASE s.failed
  BY <1>3 DEF AddEntry
<1>4. CASE ~s.failed /\ Len(p) # 2
  <2>1. t = put(Numbers(<<val>>))
    BY <1>4 DEF AddEntry
  <2> HIDE DEF put
  <2> QED BY <1>1, <1>4, <2>1
<1>5. CASE ~s.failed /\ Len(p) = 2 /\ p[2] \in DOMAIN Index
  <2>1. t = IF Index[p[2]] < 1 THEN fail ELSE put(SetIndex(s.made[p[1]], Index[p[2]], val))
    BY <1>5 DEF AddEntry
  <2> HIDE DEF put, fail
  <2> QED BY <1>1, <1>2, <1>5, <2>1
<1>6. CASE ~s.failed /\ Len(p) = 2 /\ p[2] \notin DOMAIN Index
  <2>1. t = IF IsNumeric(s.made[p[1]]) /\ s.made[p[1]].array # <<>> THEN fail
            ELSE put(SetKey(s.made[p[1]], p[2], val))
    BY <1>6 DEF AddEntry
  <2> HIDE DEF put, fail
  <2> QED BY <1>1, <1>2, <1>6, <2>1
<1> QED BY <1>3, <1>4, <1>5, <1>6

IsArr(v)  == v = Numbers(v.array) /\ Len(v.array) \in Nat /\ DOMAIN v.array = 1 .. Len(v.array)
Full(v)   == IsArr(v) /\ Len(v.array) > 0
IsKeys(v) == v = Keys(v.struct)

LEMMA Kinds1 ==
  ASSUME NEW v
  PROVE  /\ IsArr(v) => IsNumeric(v)
         /\ IsKeys(v) => ~IsNumeric(v)
         /\ Full(v) => v.array # <<>>
<1>1. IsArr(v) => IsNumeric(v)
  <2>1. \A a : "array" \in DOMAIN [array |-> a]
    OBVIOUS
  <2> QED BY <2>1 DEF IsArr, Numbers, IsNumeric
<1>2. IsKeys(v) => ~IsNumeric(v)
  <2>1. \A a : "array" \notin DOMAIN [struct |-> a]
    OBVIOUS
  <2> QED BY <2>1 DEF IsKeys, Keys, IsNumeric
<1>3. Full(v) => v.array # <<>>
  BY DEF Full
<1> QED BY <1>1, <1>2, <1>3

LEMMA EmptyAndOne ==
  /\ IsArr(Numbers(<<>>)) /\ Numbers(<<>>).array = <<>>
  /\ \A x : Full(Numbers(<<x>>)) /\ Numbers(<<x>>).array = <<x>>
<1>1. \A a : Numbers(a).array = a
  BY DEF Numbers
<1>2. Len(<<>>) = 0 /\ DOMAIN <<>> = 1 .. 0
  OBVIOUS
<1>3. \A x : Len(<<x>>) = 1 /\ DOMAIN <<x>> = 1 .. 1
  OBVIOUS
<1> QED BY <1>1, <1>2, <1>3, SMTT(20) DEF IsArr, Full

LEMMA IndexIsSet ==
  ASSUME NEW v, IsArr(v) \/ IsKeys(v), NEW num \in Int, ~ (num < 1), NEW val
  PROVE  LET u == SetIndex(v, num, val)
         IN  /\ Full(u) /\ num \in 1 .. Len(u.array) /\ u.array[num] = val
             /\ IsArr(v) => \A k \in 1 .. Len(v.array) :
                              k \in 1 .. Len(u.array) /\ (k # num => u.array[k] = v.array[k])
<1>1. PICK a : a = IF IsNumeric(v) THEN v.array ELSE <<>>
  OBVIOUS
<1>2. PICK l \in Nat : l = Len(a) /\ (IsArr(v) => a = v.array)
  <2>1. CASE IsArr(v)
    BY <1>1, <2>1, Kinds1 DEF IsArr
  <2>2. CASE IsKeys(v) /\ ~IsArr(v)
    BY <1>1, <2>2, Kinds1
  <2> QED BY <2>1, <2>2
<1>3. PICK n \in Nat \ {0} : n = (IF num > l THEN num ELSE l) /\ num \in 1 .. n /\ l <= n
  OBVIOUS
<1>4. PICK b : b = Grown(a, num, val)
  OBVIOUS
<1>5. b = [k \in 1 .. n |-> IF k = num THEN val ELSE IF k <= l THEN a[k] ELSE 0]
  BY <1>2, <1>3, <1>4 DEF Grown
<1>6. DOMAIN b = 1 .. n /\ Len(b) = n
  BY <1>5
<1>7. SetIndex(v, num, val) = Numbers(b)
  BY <1>1, <1>4 DEF SetIndex
<1>8. Numbers(b).array = b
  BY DEF Numbers
<1>9. Full(Numbers(b))
  BY <1>6, <1>8 DEF Full, IsArr
<1>10. b[num] = val /\ num \in 1 .. Len(b)
  BY <1>3, <1>5, <1>6
<1>11. ASSUME IsArr(v), NEW k \in 1 .. Len(v.array)
       PROVE  k \in 1 .. n /\ (k # num => b[k] = v.array[k])
  BY <1>2, <1>3, <1>5, <1>11
<1> QED BY <1>6, <1>7, <1>8, <1>9, <1>10, <1>11

LEMMA KeyIsSet ==
  ASSUME NEW v, IsArr(v) \/ IsKeys(v), NEW key, NEW val
  PROVE  LET u == SetKey(v, key, val)
         IN  /\ IsKeys(u) /\ key \in DOMAIN u.struct /\ u.struct[key] = val
             /\ IsKeys(v) => \A k \in DOMAIN v.struct :
                               k \in DOMAIN u.struct /\ (k # key => u.struct[k] = v.struct[k])
<1>1. PICK f : f = IF IsNumeric(v) THEN <<>> ELSE v.struct
  OBVIOUS
<1>2. IsKeys(v) => f = v.struct
  BY <1>1, Kinds1
<1>3. PICK h : h = [k \in DOMAIN f \cup {key} |-> IF k = key THEN val ELSE f[k]]
  OBVIOUS
<1>4. SetKey(v, key, val) = Keys(h)
  BY <1>1, <1>3 DEF SetKey
<1>5. Keys(h).struct = h /\ IsKeys(Keys(h))
  BY DEF Keys, IsKeys
<1>6. key \in DOMAIN h /\ h[key] = val
  BY <1>3
<1>7. \A k \in DOMAIN f : k \in DOMAIN h /\ (k # key => h[k] = f[k])
  BY <1>3
<1> QED BY <1>2, <1>4, <1>5, <1>6, <1>7

\* The struct after each name.
Begun(N) == [failed |-> FALSE,
             made   |-> [g \in {Parts[N[i]][1] : i \in {j \in DOMAIN N : Len(Parts[N[j]]) = 2}} |-> Numbers(<<>>)]]

IsConverted(c, N, V) ==
  /\ c[0] = Begun(N)
  /\ \A i \in 1 .. Len(N) : c[i] = AddEntry(c[i - 1], Parts[N[i]], V[i])
  /\ convertStatsToStructs(N, V) = c[Len(N)]

LEMMA Converted ==
  ASSUME NEW N, NEW V, Len(N) \in Nat
  PROVE  \E c : IsConverted(c, N, V)
<1>1. PICK n \in Nat : n = Len(N)
  OBVIOUS
<1> DEFINE add(s, i) == AddEntry(s, Parts[N[i]], V[i])
           IsUpTo(f, k) == f[0] = Begun(N) /\ \A i \in 1 .. k : f[i] = add(f[i - 1], i)
           S == {k \in Nat : \E f : IsUpTo(f, k)}
<1>2. 0 \in S
  <2>1. PICK f : f = [i \in 0 .. 0 |-> Begun(N)]
    OBVIOUS
  <2>2. f[0] = Begun(N) /\ \A i \in 1 .. 0 : FALSE
    BY <2>1
  <2> HIDE DEF add
  <2>3. IsUpTo(f, 0)
    BY <2>2
  <2> QED BY <2>3
<1> HIDE DEF add
<1>3. ASSUME NEW k \in S \cap Nat
      PROVE  k + 1 \in S
  <2>1. PICK f : IsUpTo(f, k)
    OBVIOUS
  <2>2. PICK g : g = [i \in 0 .. k + 1 |-> IF i = k + 1 THEN add(f[k], i) ELSE f[i]]
    OBVIOUS
  <2>3. k \in Nat
    OBVIOUS
  <2> HIDE DEF S
  <2>4. g[0] = f[0] /\ (\A i \in 0 .. k : g[i] = f[i]) /\ g[k + 1] = add(f[k], k + 1)
    BY <2>2, <2>3
  <2>5. ASSUME NEW i \in 1 .. k + 1
        PROVE  g[i] = add(g[i - 1], i)
    <3>1. CASE i = k + 1
      <4>1. i - 1 = k /\ k \in 0 .. k
        BY <2>3, <3>1
      <4> QED BY <2>4, <3>1, <4>1
    <3>2. CASE i # k + 1
      <4>1. i \in 1 .. k /\ i \in 0 .. k /\ i - 1 \in 0 .. k
        BY <2>3, <3>2
      <4> QED BY <2>1, <2>4, <4>1
    <3> QED BY <3>1, <3>2
  <2>6. IsUpTo(g, k + 1)
    BY <2>1, <2>4, <2>5
  <2>7. k + 1 \in Nat
    BY <2>3
  <2> QED BY <2>6, <2>7 DEF S
<1> HIDE DEF S
<1>4. n \in S
  BY <1>2, <1>3, SetInduction
<1>5. PICK f : IsUpTo(f, n)
  BY <1>4 DEF S
<1> DEFINE body(p, i) == IF i = 0 THEN Begun(N) ELSE add(p[i - 1], i)
           Is(p) == p = [i \in 0 .. n |-> body(p, i)]
           q == [i \in 0 .. n |-> f[i]]
           p == CHOOSE p : Is(p)
<1>6. convertStatsToStructs(N, V) = p[n]
  BY <1>1 DEF convertStatsToStructs, Begun, add
<1>7. Is(q)
  <2>1. ASSUME NEW i \in 0 .. n
        PROVE  q[i] = body(q, i)
    <3>1. CASE i = 0
      BY <1>5, <3>1
    <3>2. CASE i # 0
      <4>1. i \in 1 .. n /\ i - 1 \in 0 .. n
        BY <3>2
      <4>2. q[i - 1] = f[i - 1] /\ q[i] = f[i]
        BY <4>1
      <4>3. f[i] = add(f[i - 1], i)
        BY <1>5, <4>1
      <4> QED BY <3>2, <4>2, <4>3
    <3> QED BY <3>1, <3>2
  <2> HIDE DEF body
  <2> QED BY <2>1
<1> HIDE DEF body
<1>8. Is(p)
  BY <1>7
<1> HIDE DEF p, q
<1>9. p[0] = Begun(N)
  <2>1. 0 \in 0 .. n
    OBVIOUS
  <2> QED BY <1>8, <2>1 DEF body
<1>10. ASSUME NEW i \in 1 .. n
       PROVE  p[i] = add(p[i - 1], i)
  <2>1. i \in 0 .. n /\ i # 0
    OBVIOUS
  <2>2. p[i] = body(p, i)
    BY <1>8, <2>1
  <2> QED BY <2>1, <2>2 DEF body
<1> QED BY <1>1, <1>6, <1>9, <1>10 DEF IsConverted, add

-----------------------------------------------------------------------------
\* What is known of the struct after the first i names, group by group.
Grp(N, j)  == Parts[N[j]][1]
Idx(N, j)  == Index[Parts[N[j]][2]]
Key(N, j)  == Parts[N[j]][2]
OnlyIndexes(N, g) == \A k \in DOMAIN N : Grp(N, k) = g => Indexed(N[k])
OnlyKeys(N, g)    == \A k \in DOMAIN N : Grp(N, k) = g => Keyed(N[k])
OnlyOne(N, j)     == \A k \in DOMAIN N : Grp(N, k) = Grp(N, j) => k = j
IndexIsOwn(N, j)  == \A k \in DOMAIN N : Grp(N, k) = Grp(N, j) /\ k # j => Idx(N, k) # Idx(N, j)
AllUniform(N)     == \A j \in DOMAIN N : OnlyOne(N, j) \/ OnlyIndexes(N, Grp(N, j)) \/ OnlyKeys(N, Grp(N, j))

Shaped(m, N) ==
  /\ \A j \in DOMAIN N : Pair(N[j]) => Grp(N, j) \in DOMAIN m
  /\ \A g \in DOMAIN m : IsArr(m[g]) \/ IsKeys(m[g])

IndexesHeld(m, N, i) ==
  \A j \in 1 .. i : Indexed(N[j]) => ~ (Idx(N, j) < 1) /\ Full(m[Grp(N, j)])

KeysFirst(N, i) ==
  \A j, k \in 1 .. i : j < k /\ Indexed(N[j]) /\ Keyed(N[k]) => Grp(N, j) # Grp(N, k)

ArraysKept(m, N, V, i) ==
  \A j \in 1 .. i :
    OnlyIndexes(N, Grp(N, j)) /\ IndexIsOwn(N, j) =>
      /\ Idx(N, j) \in 1 .. Len(m[Grp(N, j)].array)
      /\ m[Grp(N, j)].array[Idx(N, j)] = V[j]

KeysKept(m, N, V, i) ==
  \A g \in DOMAIN m :
    OnlyKeys(N, g) =>
      \/ m[g] = Numbers(<<>>) /\ \A j \in 1 .. i : Grp(N, j) # g
      \/ /\ IsKeys(m[g])
         /\ \A j \in 1 .. i : Grp(N, j) = g => Key(N, j) \in DOMAIN m[g].struct /\ m[g].struct[Key(N, j)] = V[j]

OnesKept(m, N, V, i) ==
  \A j \in 1 .. i :
    ~Pair(N[j]) /\ OnlyOne(N, j) => Grp(N, j) \in DOMAIN m /\ m[Grp(N, j)] = Numbers(<<V[j]>>)

Tracked(m, N, V, i) ==
  /\ Shaped(m, N) /\ IndexesHeld(m, N, i) /\ KeysFirst(N, i)
  /\ ArraysKept(m, N, V, i) /\ KeysKept(m, N, V, i) /\ OnesKept(m, N, V, i)

Blamed(s, N, i) ==
  s.failed /\ AllUniform(N) => \E j \in 1 .. i : Indexed(N[j]) /\ Idx(N, j) < 1

NamesOK(N) ==
  /\ N \in Seq(Names) /\ \A i, j \in DOMAIN N : N[i] = N[j] => i = j

\* Another group's name changes nothing of what is known of a group.
LEMMA KeysDiffer ==
  ASSUME NEW N, NamesOK(N), NEW j \in DOMAIN N, NEW k \in DOMAIN N, j # k,
         Keyed(N[j]), Keyed(N[k]), Grp(N, j) = Grp(N, k)
  PROVE  Key(N, j) # Key(N, k)
<1>1. SUFFICES ASSUME Key(N, j) = Key(N, k) PROVE FALSE
  OBVIOUS
<1>2. PICK a, b \in DOMAIN NameOrder : NameOrder[a] = N[j] /\ NameOrder[b] = N[k]
  <2>1. N[j] \in Names /\ N[k] \in Names
    BY LenProperties DEF NamesOK
  <2> QED BY <2>1 DEF Names
<1>3. Parts[N[j]] = Parts[N[k]]
  <2>1. PICK p, q : p = Parts[N[j]] /\ q = Parts[N[k]]
    OBVIOUS
  <2>2. Len(p) = 2 /\ Len(q) = 2 /\ p[1] = q[1] /\ p[2] = q[2]
    BY <1>1, <2>1 DEF Keyed, Pair, Grp, Key
  <2>3. (\E S : p \in Seq(S)) /\ (\E S : q \in Seq(S))
    BY <1>2, <2>1, StatsAssumption
  <2> QED BY <2>1, <2>2, <2>3
<1> QED BY <1>2, <1>3, StatsAssumption DEF NamesOK

\* The names of other groups leave a group as it is.
Others(u, m, g) ==
  DOMAIN u = DOMAIN m \cup {g} /\ \A h \in DOMAIN m : h # g => u[h] = m[h]

IsStep(N, e, i) == N \in Seq(Names) /\ e \in DOMAIN N /\ i \in Nat /\ e = i + 1

LEMMA StepFacts ==
  ASSUME NEW N, NEW e, NEW i, IsStep(N, e, i)
  PROVE  /\ \A j \in 1 .. e : j \in DOMAIN N /\ (j # e => j \in 1 .. i)
         /\ \A j \in 1 .. i : j \in DOMAIN N /\ j # e /\ j < e
         /\ e \in 1 .. e
<1>1. PICK n \in Nat : n = Len(N) /\ DOMAIN N = 1 .. n
  BY LenProperties DEF IsStep
<1> QED BY <1>1 DEF IsStep

LEMMA KindsOf ==
  ASSUME NEW f
  PROVE  /\ Indexed(f) => Pair(f) /\ ~Keyed(f)
         /\ Keyed(f) => Pair(f) /\ ~Indexed(f)
         /\ Pair(f) => Indexed(f) \/ Keyed(f)
  BY DEF Indexed, Keyed, Pair

\* What is held of groups of the other kinds stays.
LEMMA OthersStay ==
  ASSUME NEW m, NEW N, NEW V, NEW e, NEW i, IsStep(N, e, i), Tracked(m, N, V, i),
         NEW u, Others(u, m, Grp(N, e))
  PROVE  /\ ~Indexed(N[e]) => ArraysKept(u, N, V, e)
         /\ ~Keyed(N[e]) => KeysKept(u, N, V, e)
         /\ Pair(N[e]) => OnesKept(u, N, V, e)
         /\ ~Keyed(N[e]) => KeysFirst(N, e)
<1> DEFINE g == Grp(N, e)
<1>1. /\ \A j \in 1 .. e : j \in DOMAIN N /\ (j # e => j \in 1 .. i)
      /\ \A j \in 1 .. i : j \in DOMAIN N /\ j # e /\ j < e
      /\ e \in DOMAIN N
  BY StepFacts DEF IsStep
<1>2. DOMAIN u = DOMAIN m \cup {g} /\ \A h \in DOMAIN m : h # g => u[h] = m[h]
  BY DEF Others
<1>3. ~Indexed(N[e]) => ArraysKept(u, N, V, e)
  <2> SUFFICES ASSUME ~Indexed(N[e]), NEW j \in 1 .. e, OnlyIndexes(N, Grp(N, j)), IndexIsOwn(N, j)
               PROVE  /\ Idx(N, j) \in 1 .. Len(u[Grp(N, j)].array)
                      /\ u[Grp(N, j)].array[Idx(N, j)] = V[j]
    BY DEF ArraysKept
  <2>1. Grp(N, j) # g /\ Indexed(N[j])
    BY <1>1 DEF OnlyIndexes
  <2>2. j \in 1 .. i /\ j \in DOMAIN N
    BY <1>1, <2>1
  <2>3. Grp(N, j) \in DOMAIN m
    BY <2>1, <2>2, KindsOf DEF Tracked, Shaped
  <2>4. u[Grp(N, j)] = m[Grp(N, j)]
    BY <1>2, <2>1, <2>3
  <2> QED BY <2>2, <2>4 DEF Tracked, ArraysKept
<1>4. ~Keyed(N[e]) => KeysKept(u, N, V, e)
  <2> SUFFICES ASSUME ~Keyed(N[e]), NEW h \in DOMAIN u, OnlyKeys(N, h)
               PROVE  \/ u[h] = Numbers(<<>>) /\ \A j \in 1 .. e : Grp(N, j) # h
                      \/ /\ IsKeys(u[h])
                         /\ \A j \in 1 .. e : Grp(N, j) = h =>
                              Key(N, j) \in DOMAIN u[h].struct /\ u[h].struct[Key(N, j)] = V[j]
    BY DEF KeysKept
  <2>1. h # g
    BY <1>1 DEF OnlyKeys
  <2>2. h \in DOMAIN m /\ u[h] = m[h]
    BY <1>2, <2>1
  <2>3. \/ m[h] = Numbers(<<>>) /\ \A j \in 1 .. i : Grp(N, j) # h
        \/ /\ IsKeys(m[h])
           /\ \A j \in 1 .. i : Grp(N, j) = h => Key(N, j) \in DOMAIN m[h].struct /\ m[h].struct[Key(N, j)] = V[j]
    BY <2>2 DEF Tracked, KeysKept
  <2>4. \A j \in 1 .. e : Grp(N, j) = h => j \in 1 .. i
    BY <1>1, <2>1
  <2> QED BY <2>2, <2>3, <2>4
<1>5. Pair(N[e]) => OnesKept(u, N, V, e)
  <2> SUFFICES ASSUME Pair(N[e]), NEW j \in 1 .. e, ~Pair(N[j]), OnlyOne(N, j)
               PROVE  Grp(N, j) \in DOMAIN u /\ u[Grp(N, j)] = Numbers(<<V[j]>>)
    BY DEF OnesKept
  <2>1. j # e /\ j \in 1 .. i
    BY <1>1
  <2>2. Grp(N, j) # g
    BY <1>1, <2>1 DEF OnlyOne
  <2>3. Grp(N, j) \in DOMAIN m /\ m[Grp(N, j)] = Numbers(<<V[j]>>)
    BY <2>1 DEF Tracked, OnesKept
  <2> QED BY <1>2, <2>2, <2>3
<1>6. ~Keyed(N[e]) => KeysFirst(N, e)
  <2> SUFFICES ASSUME ~Keyed(N[e]), NEW j \in 1 .. e, NEW k \in 1 .. e, j < k, Indexed(N[j]), Keyed(N[k])
               PROVE  Grp(N, j) # Grp(N, k)
    BY DEF KeysFirst
  <2>1. k # e /\ k \in 1 .. i
    BY <1>1
  <2>2. j # e /\ j \in 1 .. i
    <3>1. k < e
      BY <1>1, <2>1
    <3>2. j # e
      BY <3>1 DEF IsStep
    <3> QED BY <1>1, <3>2
  <2> QED BY <2>1, <2>2 DEF Tracked, KeysFirst
<1> QED BY <1>3, <1>4, <1>5, <1>6

\* A member that is one number, or an array made longer, is not empty.
LEMMA FullStays ==
  ASSUME NEW m, NEW N, NEW V, NEW e, NEW i, IsStep(N, e, i), Tracked(m, N, V, i),
         NEW u, Others(u, m, Grp(N, e)),
         Full(u[Grp(N, e)]) \/ \A j \in 1 .. i : Indexed(N[j]) => Grp(N, j) # Grp(N, e),
         IsArr(u[Grp(N, e)]) \/ IsKeys(u[Grp(N, e)]),
         Indexed(N[e]) => ~ (Idx(N, e) < 1) /\ Full(u[Grp(N, e)])
  PROVE  Shaped(u, N) /\ IndexesHeld(u, N, e)
<1> DEFINE g == Grp(N, e)
<1>1. /\ \A j \in 1 .. e : j \in DOMAIN N /\ (j # e => j \in 1 .. i)
      /\ e \in DOMAIN N
  BY StepFacts DEF IsStep
<1>2. DOMAIN u = DOMAIN m \cup {g} /\ \A h \in DOMAIN m : h # g => u[h] = m[h]
  BY DEF Others
<1>3. Shaped(u, N)
  BY <1>2 DEF Tracked, Shaped
<1>4. ASSUME NEW j \in 1 .. e, Indexed(N[j])
      PROVE  ~ (Idx(N, j) < 1) /\ Full(u[Grp(N, j)])
  <2>1. CASE j = e
    BY <1>4, <2>1
  <2>2. CASE j # e
    <3>1. j \in 1 .. i /\ j \in DOMAIN N
      BY <1>1, <2>2
    <3>2. ~ (Idx(N, j) < 1) /\ Full(m[Grp(N, j)])
      BY <1>4, <3>1 DEF Tracked, IndexesHeld
    <3>3. Grp(N, j) \in DOMAIN m
      BY <1>4, <3>1, KindsOf DEF Tracked, Shaped
    <3>4. CASE Grp(N, j) = g
      BY <1>4, <3>1, <3>2, <3>4
    <3>5. CASE Grp(N, j) # g
      BY <1>2, <3>2, <3>3, <3>5
    <3> QED BY <3>4, <3>5
  <2> QED BY <2>1, <2>2
<1> QED BY <1>3, <1>4 DEF IndexesHeld

\* One name converted: p are its parts, x its value.
LEMMA PutsOthers ==
  ASSUME NEW t, NEW s, NEW g, NEW v, Puts(t, s, g, v)
  PROVE  Others(t.made, s.made, g) /\ t.made[g] = v /\ t.failed = FALSE
  BY DEF Puts, Others

\* A name of one part, or of three, replaces whatever its group was.
LEMMA OneAdds ==
  ASSUME NEW m, NEW N, NEW V, NEW e, NEW i, IsStep(N, e, i), Tracked(m, N, V, i),
         ~Pair(N[e]), NEW u, Others(u, m, Grp(N, e)), u[Grp(N, e)] = Numbers(<<V[e]>>)
  PROVE  Tracked(u, N, V, e)
<1>1. Full(u[Grp(N, e)]) /\ IsArr(u[Grp(N, e)])
  BY EmptyAndOne DEF Full
<1>2. ~Indexed(N[e]) /\ ~Keyed(N[e])
  BY KindsOf
<1>3. Shaped(u, N) /\ IndexesHeld(u, N, e)
  BY <1>1, <1>2, FullStays
<1>4. ArraysKept(u, N, V, e) /\ KeysKept(u, N, V, e) /\ KeysFirst(N, e)
  BY <1>2, OthersStay
<1>5. OnesKept(u, N, V, e)
  <2> SUFFICES ASSUME NEW j \in 1 .. e, ~Pair(N[j]), OnlyOne(N, j)
               PROVE  Grp(N, j) \in DOMAIN u /\ u[Grp(N, j)] = Numbers(<<V[j]>>)
    BY DEF OnesKept
  <2>1. CASE j = e
    BY <2>1 DEF Others
  <2>2. CASE j # e
    <3>1. j \in 1 .. i /\ e \in DOMAIN N
      BY <2>2, StepFacts DEF IsStep
    <3>2. Grp(N, e) # Grp(N, j)
      BY <2>2, <3>1 DEF OnlyOne
    <3>3. Grp(N, j) \in DOMAIN m /\ m[Grp(N, j)] = Numbers(<<V[j]>>)
      BY <3>1 DEF Tracked, OnesKept
    <3> QED BY <3>2, <3>3 DEF Others
  <2> QED BY <2>1, <2>2
<1> QED BY <1>3, <1>4, <1>5 DEF Tracked

\* An index from 1 keeps what the array of its group held elsewhere.
LEMMA IndexAdds ==
  ASSUME NEW m, NEW N, NEW V, NEW e, NEW i, IsStep(N, e, i), Tracked(m, N, V, i),
         Indexed(N[e]), ~ (Idx(N, e) < 1), NEW u, Others(u, m, Grp(N, e)),
         u[Grp(N, e)] = SetIndex(m[Grp(N, e)], Idx(N, e), V[e])
  PROVE  Tracked(u, N, V, e)
<1> DEFINE g == Grp(N, e)
<1>0. /\ \A j \in 1 .. e : j \in DOMAIN N /\ (j # e => j \in 1 .. i)
      /\ e \in DOMAIN N
  BY StepFacts DEF IsStep
<1>1. g \in DOMAIN m /\ (IsArr(m[g]) \/ IsKeys(m[g]))
  BY <1>0, KindsOf DEF Tracked, Shaped
<1>2. Idx(N, e) \in Int
  BY StatsAssumption DEF Indexed, Idx
<1>3. PICK v, num : v = m[g] /\ num = Idx(N, e)
  OBVIOUS
<1>4. LET w == SetIndex(v, num, V[e])
      IN  /\ Full(w) /\ num \in 1 .. Len(w.array) /\ w.array[num] = V[e]
          /\ IsArr(v) => \A k \in 1 .. Len(v.array) :
                           k \in 1 .. Len(w.array) /\ (k # num => w.array[k] = v.array[k])
  BY <1>1, <1>2, <1>3, IndexIsSet
<1>5. /\ Full(u[g]) /\ num \in 1 .. Len(u[g].array) /\ u[g].array[num] = V[e]
      /\ IsArr(v) => \A k \in 1 .. Len(v.array) :
                       k \in 1 .. Len(u[g].array) /\ (k # num => u[g].array[k] = v.array[k])
  BY <1>3, <1>4
<1>6. IsArr(u[g])
  BY <1>5 DEF Full
<1>7. Shaped(u, N) /\ IndexesHeld(u, N, e)
  BY <1>5, <1>6, FullStays
<1>8. KeysKept(u, N, V, e) /\ OnesKept(u, N, V, e) /\ KeysFirst(N, e)
  BY KindsOf, OthersStay
<1>9. ArraysKept(u, N, V, e)
  <2> SUFFICES ASSUME NEW j \in 1 .. e, OnlyIndexes(N, Grp(N, j)), IndexIsOwn(N, j)
               PROVE  /\ Idx(N, j) \in 1 .. Len(u[Grp(N, j)].array)
                      /\ u[Grp(N, j)].array[Idx(N, j)] = V[j]
    BY DEF ArraysKept
  <2>1. CASE j = e
    BY <1>3, <1>5, <2>1
  <2>2. CASE j # e
    <3>1. j \in 1 .. i /\ j \in DOMAIN N
      BY <1>0, <2>2
    <3>2. /\ Idx(N, j) \in 1 .. Len(m[Grp(N, j)].array)
          /\ m[Grp(N, j)].array[Idx(N, j)] = V[j]
      BY <3>1 DEF Tracked, ArraysKept
    <3>3. Indexed(N[j])
      BY <3>1 DEF OnlyIndexes
    <3>4. CASE Grp(N, j) = g
      <4>1. IsArr(v)
        BY <1>3, <3>1, <3>3, <3>4 DEF Tracked, IndexesHeld, Full
      <4>2. Idx(N, j) # num
        BY <1>0, <1>3, <2>2, <3>4 DEF IndexIsOwn
      <4> HIDE DEF g
      <4> QED BY <1>3, <1>5, <3>2, <3>4, <4>1, <4>2
    <3>5. CASE Grp(N, j) # g
      <4>1. Grp(N, j) \in DOMAIN m
        BY <3>1, <3>3, KindsOf DEF Tracked, Shaped
      <4>2. u[Grp(N, j)] = m[Grp(N, j)]
        BY <3>5, <4>1 DEF Others
      <4> QED BY <3>2, <4>2
    <3> QED BY <3>4, <3>5
  <2> QED BY <2>1, <2>2
<1> QED BY <1>7, <1>8, <1>9 DEF Tracked

\* A key is kept, and those of its group before it, whose names are others.
LEMMA KeyAdds ==
  ASSUME NEW m, NEW N, NamesOK(N), NEW V, NEW e, NEW i, IsStep(N, e, i), Tracked(m, N, V, i),
         Keyed(N[e]), ~ (IsNumeric(m[Grp(N, e)]) /\ m[Grp(N, e)].array # <<>>),
         NEW u, Others(u, m, Grp(N, e)),
         u[Grp(N, e)] = SetKey(m[Grp(N, e)], Key(N, e), V[e])
  PROVE  Tracked(u, N, V, e)
<1> DEFINE g == Grp(N, e)
<1>0. /\ \A j \in 1 .. e : j \in DOMAIN N /\ (j # e => j \in 1 .. i)
      /\ \A j \in 1 .. i : j \in DOMAIN N /\ j # e /\ j < e
      /\ e \in DOMAIN N
  BY StepFacts DEF IsStep
<1>1. g \in DOMAIN m /\ (IsArr(m[g]) \/ IsKeys(m[g]))
  BY <1>0, KindsOf DEF Tracked, Shaped
<1>2. /\ IsKeys(u[g]) /\ Key(N, e) \in DOMAIN u[g].struct /\ u[g].struct[Key(N, e)] = V[e]
      /\ IsKeys(m[g]) => \A k \in DOMAIN m[g].struct :
                           k \in DOMAIN u[g].struct /\ (k # Key(N, e) => u[g].struct[k] = m[g].struct[k])
  <2>1. PICK v, key : v = m[g] /\ key = Key(N, e)
    OBVIOUS
  <2>2. LET w == SetKey(v, key, V[e])
        IN  /\ IsKeys(w) /\ key \in DOMAIN w.struct /\ w.struct[key] = V[e]
            /\ IsKeys(v) => \A k \in DOMAIN v.struct :
                              k \in DOMAIN w.struct /\ (k # key => w.struct[k] = v.struct[k])
    BY <1>1, <2>1, KeyIsSet
  <2>3. u[g] = SetKey(v, key, V[e])
    BY <2>1
  <2> HIDE DEF g
  <2> QED BY <2>1, <2>2, <2>3
<1>3. ASSUME NEW j \in 1 .. i, Indexed(N[j])
      PROVE  Grp(N, j) # g
  BY <1>3, Kinds1 DEF Tracked, IndexesHeld, Full
<1>4. Shaped(u, N) /\ IndexesHeld(u, N, e)
  <2>1. ~Indexed(N[e])
    BY KindsOf
  <2> QED BY <1>2, <1>3, <2>1, FullStays
<1>5. ArraysKept(u, N, V, e) /\ OnesKept(u, N, V, e)
  BY KindsOf, OthersStay
<1>6. KeysFirst(N, e)
  <2> SUFFICES ASSUME NEW j \in 1 .. e, NEW k \in 1 .. e, j < k, Indexed(N[j]), Keyed(N[k])
               PROVE  Grp(N, j) # Grp(N, k)
    BY DEF KeysFirst
  <2>1. CASE k = e
    <3>1. j # e
      BY <2>1, KindsOf
    <3>2. j \in 1 .. i
      BY <1>0, <3>1
    <3> QED BY <1>3, <2>1, <3>2
  <2>2. CASE k # e
    <3>1. k \in 1 .. i /\ k < e
      BY <1>0, <2>2
    <3>2. j # e
      BY <3>1 DEF IsStep
    <3>3. j \in 1 .. i
      BY <1>0, <3>2
    <3> QED BY <3>1, <3>3 DEF Tracked, KeysFirst
  <2> QED BY <2>1, <2>2
<1>7. KeysKept(u, N, V, e)
  <2> SUFFICES ASSUME NEW h \in DOMAIN u, OnlyKeys(N, h)
               PROVE  \/ u[h] = Numbers(<<>>) /\ \A j \in 1 .. e : Grp(N, j) # h
                      \/ /\ IsKeys(u[h])
                         /\ \A j \in 1 .. e : Grp(N, j) = h =>
                              Key(N, j) \in DOMAIN u[h].struct /\ u[h].struct[Key(N, j)] = V[j]
    BY DEF KeysKept
  <2>1. CASE h = g
    <3> SUFFICES ASSUME NEW j \in 1 .. e, Grp(N, j) = g
                 PROVE  Key(N, j) \in DOMAIN u[g].struct /\ u[g].struct[Key(N, j)] = V[j]
      BY <1>2, <2>1, Zenon
    <3>1. CASE j = e
      BY <1>2, <3>1
    <3>2. CASE j # e
      <4>1. j \in 1 .. i /\ j \in DOMAIN N
        BY <1>0, <3>2
      <4>2. /\ IsKeys(m[g])
            /\ Key(N, j) \in DOMAIN m[g].struct /\ m[g].struct[Key(N, j)] = V[j]
        BY <1>1, <2>1, <4>1 DEF Tracked, KeysKept
      <4>3. Keyed(N[j])
        BY <2>1, <4>1 DEF OnlyKeys
      <4>4. Key(N, j) # Key(N, e)
        BY <1>0, <3>2, <4>1, <4>3, KeysDiffer
      <4> HIDE DEF g
      <4> QED BY <1>2, <4>2, <4>4
    <3> QED BY <3>1, <3>2
  <2>2. CASE h # g
    <3>1. h \in DOMAIN m /\ u[h] = m[h]
      BY <2>2 DEF Others
    <3>2. \/ m[h] = Numbers(<<>>) /\ \A j \in 1 .. i : Grp(N, j) # h
          \/ /\ IsKeys(m[h])
             /\ \A j \in 1 .. i : Grp(N, j) = h => Key(N, j) \in DOMAIN m[h].struct /\ m[h].struct[Key(N, j)] = V[j]
      BY <3>1 DEF Tracked, KeysKept
    <3>3. \A j \in 1 .. e : Grp(N, j) = h => j \in 1 .. i
      BY <1>0, <2>2
    <3> QED BY <3>1, <3>2, <3>3
  <2> QED BY <2>1, <2>2
<1> QED BY <1>4, <1>5, <1>6, <1>7 DEF Tracked

Kept(s, N, V, i) ==
  IsState(s) /\ Blamed(s, N, i) /\ (~s.failed => Tracked(s.made, N, V, i))

LEMMA EntryKeeps ==
  ASSUME NEW N, NamesOK(N), NEW V, NEW e, NEW i, IsStep(N, e, i),
         NEW s, Kept(s, N, V, i), NEW t, t = AddEntry(s, Parts[N[e]], V[e])
  PROVE  Kept(t, N, V, e)
<1> DEFINE g == Grp(N, e)
<1>0. /\ \A j \in 1 .. i : j \in 1 .. e
      /\ e \in DOMAIN N /\ e \in 1 .. e
  BY StepFacts DEF IsStep
<1>1. /\ IsState(t)
      /\ s.failed => t.failed
      /\ ~s.failed /\ ~Pair(N[e]) => Puts(t, s, g, Numbers(<<V[e]>>))
      /\ ~s.failed /\ Indexed(N[e]) =>
           IF Idx(N, e) < 1 THEN t.failed ELSE Puts(t, s, g, SetIndex(s.made[g], Idx(N, e), V[e]))
      /\ ~s.failed /\ Keyed(N[e]) =>
           IF IsNumeric(s.made[g]) /\ s.made[g].array # <<>> THEN t.failed
           ELSE Puts(t, s, g, SetKey(s.made[g], Key(N, e), V[e]))
  <2>1. PICK p, val : p = Parts[N[e]] /\ val = V[e]
    OBVIOUS
  <2>2. IsState(s) /\ t = AddEntry(s, p, val)
    BY <2>1 DEF Kept
  <2>3. /\ IsState(t)
        /\ s.failed => t.failed
        /\ ~s.failed /\ Len(p) # 2 => Puts(t, s, p[1], Numbers(<<val>>))
        /\ ~s.failed /\ Len(p) = 2 /\ p[2] \in DOMAIN Index =>
             IF Index[p[2]] < 1 THEN t.failed ELSE Puts(t, s, p[1], SetIndex(s.made[p[1]], Index[p[2]], val))
        /\ ~s.failed /\ Len(p) = 2 /\ p[2] \notin DOMAIN Index =>
             IF IsNumeric(s.made[p[1]]) /\ s.made[p[1]].array # <<>> THEN t.failed
             ELSE Puts(t, s, p[1], SetKey(s.made[p[1]], p[2], val))
    BY <2>2, Adds
  <2> QED BY <2>1, <2>3, Zenon DEF Pair, Indexed, Keyed, Grp, Idx, Key
<1>2. t.failed \in BOOLEAN /\ s.failed \in BOOLEAN
  BY <1>1 DEF Kept, IsState
<1>3. CASE s.failed
  BY <1>0, <1>1, <1>3 DEF Kept, Blamed
<1>4. CASE ~s.failed /\ ~Pair(N[e])
  <2>1. Others(t.made, s.made, g) /\ t.made[g] = Numbers(<<V[e]>>) /\ t.failed = FALSE
    BY <1>1, <1>4, PutsOthers
  <2>2. Tracked(t.made, N, V, e)
    BY <1>4, <2>1, OneAdds DEF Kept
  <2> QED BY <1>1, <2>1, <2>2 DEF Kept, Blamed
<1>5. CASE ~s.failed /\ Indexed(N[e]) /\ Idx(N, e) < 1
  BY <1>0, <1>1, <1>5 DEF Kept, Blamed
<1>6. CASE ~s.failed /\ Indexed(N[e]) /\ ~ (Idx(N, e) < 1)
  <2>1. Others(t.made, s.made, g) /\ t.made[g] = SetIndex(s.made[g], Idx(N, e), V[e]) /\ t.failed = FALSE
    <3>1. PICK v : v = SetIndex(s.made[g], Idx(N, e), V[e])
      OBVIOUS
    <3>2. Puts(t, s, g, v)
      BY <1>1, <1>6, <3>1
    <3>3. Others(t.made, s.made, g) /\ t.made[g] = v /\ t.failed = FALSE
      BY <3>2, PutsOthers
    <3> QED BY <3>1, <3>3
  <2>2. Tracked(t.made, N, V, e)
    BY <1>6, <2>1, IndexAdds DEF Kept
  <2> QED BY <1>1, <2>1, <2>2 DEF Kept, Blamed
<1>7. CASE ~s.failed /\ Keyed(N[e]) /\ IsNumeric(s.made[g]) /\ s.made[g].array # <<>>
  <2>1. ~AllUniform(N)
    <3>1. SUFFICES ASSUME OnlyOne(N, e) \/ OnlyIndexes(N, g) \/ OnlyKeys(N, g) PROVE FALSE
      BY <1>0 DEF AllUniform
    <3>2. ~OnlyIndexes(N, g)
      BY <1>0, <1>7, KindsOf DEF OnlyIndexes
    <3>3. OnlyKeys(N, g)
      BY <1>7, <3>1, <3>2 DEF OnlyOne, OnlyKeys
    <3>4. g \in DOMAIN s.made
      BY <1>0, <1>7, KindsOf DEF Kept, Tracked, Shaped
    <3>5. s.made[g] = Numbers(<<>>) \/ IsKeys(s.made[g])
      BY <1>7, <3>3, <3>4 DEF Kept, Tracked, KeysKept
    <3> QED BY <1>7, <3>5, EmptyAndOne, Kinds1
  <2> QED BY <1>1, <1>7, <2>1 DEF Kept, Blamed
<1>8. CASE ~s.failed /\ Keyed(N[e]) /\ ~ (IsNumeric(s.made[g]) /\ s.made[g].array # <<>>)
  <2>1. Others(t.made, s.made, g) /\ t.made[g] = SetKey(s.made[g], Key(N, e), V[e]) /\ t.failed = FALSE
    <3>1. PICK v : v = SetKey(s.made[g], Key(N, e), V[e])
      OBVIOUS
    <3>2. Puts(t, s, g, v)
      BY <1>1, <1>8, <3>1
    <3>3. Others(t.made, s.made, g) /\ t.made[g] = v /\ t.failed = FALSE
      BY <3>2, PutsOthers
    <3> QED BY <3>1, <3>3
  <2>2. Tracked(t.made, N, V, e)
    BY <1>8, <2>1, KeyAdds DEF Kept
  <2> QED BY <1>1, <2>1, <2>2 DEF Kept, Blamed
<1> QED BY <1>3, <1>4, <1>5, <1>6, <1>7, <1>8, KindsOf

LEMMA BegunIsKept ==
  ASSUME NEW N, NamesOK(N), NEW V
  PROVE  Kept(Begun(N), N, V, 0)
<1>1. PICK b : b = Begun(N).made
  OBVIOUS
<1>2. b = [g \in {Parts[N[i]][1] : i \in {j \in DOMAIN N : Len(Parts[N[j]]) = 2}} |-> Numbers(<<>>)]
  BY <1>1 DEF Begun
<1>3. Shaped(b, N)
  BY <1>2, EmptyAndOne DEF Shaped, Pair, Grp
<1>4. \A g \in DOMAIN b : b[g] = Numbers(<<>>)
  BY <1>2
<1>5. KeysKept(b, N, V, 0)
  BY <1>4 DEF KeysKept
<1>6. IndexesHeld(b, N, 0) /\ KeysFirst(N, 0) /\ ArraysKept(b, N, V, 0) /\ OnesKept(b, N, V, 0)
  BY DEF IndexesHeld, KeysFirst, ArraysKept, OnesKept
<1>7. IsState(Begun(N)) /\ Begun(N).failed = FALSE
  BY DEF IsState, Begun
<1> QED BY <1>1, <1>3, <1>5, <1>6, <1>7 DEF Kept, Tracked, Blamed

LEMMA ConvertedIsKept ==
  ASSUME NEW N, NamesOK(N), NEW V
  PROVE  Len(N) \in Nat /\ Kept(convertStatsToStructs(N, V), N, V, Len(N))
<1>1. PICK n \in Nat : n = Len(N) /\ DOMAIN N = 1 .. n
  BY LenProperties DEF NamesOK
<1>2. PICK c : IsConverted(c, N, V)
  BY <1>1, Converted
<1> DEFINE S == {k \in Nat : k <= n => Kept(c[k], N, V, k)}
<1>3. 0 \in S
  BY <1>2, BegunIsKept DEF IsConverted
<1>4. ASSUME NEW k \in S \cap Nat
      PROVE  k + 1 \in S
  <2>1. SUFFICES ASSUME k + 1 <= n PROVE Kept(c[k + 1], N, V, k + 1)
    OBVIOUS
  <2>2. k \in Nat /\ Kept(c[k], N, V, k)
    BY <2>1
  <2> HIDE DEF S
  <2>3. PICK e \in 1 .. n : e = k + 1 /\ e - 1 = k
    BY <2>1, <2>2
  <2>4. IsStep(N, e, k)
    BY <1>1, <2>2, <2>3 DEF IsStep, NamesOK
  <2>5. c[e] = AddEntry(c[k], Parts[N[e]], V[e])
    BY <1>1, <1>2, <2>3 DEF IsConverted
  <2>6. Kept(c[e], N, V, e)
    BY <2>2, <2>4, <2>5, EntryKeeps
  <2> QED BY <2>3, <2>6
<1> HIDE DEF S
<1>5. Nat \subseteq S
  BY <1>3, <1>4, SetInduction
<1>6. Kept(c[n], N, V, n)
  BY <1>5 DEF S
<1> QED BY <1>1, <1>2, <1>6 DEF IsConverted

\* A list of names in their order, taken from the first k of them.
InOrder(s, k) ==
  /\ \A i \in 1 .. Len(s) : \E a \in 1 .. k : NameOrder[a] = s[i]
  /\ \A i, j \in 1 .. Len(s) : i < j =>
       \E a, b \in 1 .. k : a < b /\ NameOrder[a] = s[i] /\ NameOrder[b] = s[j]

LEMMA OrderGrows ==
  ASSUME NEW S, NEW s \in Seq(S), NEW k \in Nat, InOrder(s, k)
  PROVE  InOrder(s, k + 1) /\ InOrder(Append(s, NameOrder[k + 1]), k + 1)
<1>1. PICK n \in Nat : n = Len(s)
  BY LenProperties
<1>2. PICK x, t : x = NameOrder[k + 1] /\ t = Append(s, x)
  OBVIOUS
<1>3. s \in Seq(S \cup {x}) /\ x \in S \cup {x}
  OBVIOUS
<1>4. Len(t) = n + 1 /\ (\A i \in 1 .. n : t[i] = s[i]) /\ t[n + 1] = x
  BY <1>1, <1>2, <1>3, AppendProperties
<1>5. (\A a \in 1 .. k : a \in 1 .. k + 1 /\ a < k + 1) /\ k + 1 \in 1 .. k + 1
  OBVIOUS
<1>6. InOrder(s, k + 1)
  BY <1>5 DEF InOrder
<1>7. \A i \in 1 .. n + 1 : i \in 1 .. n \/ i = n + 1
  OBVIOUS
<1>8. ASSUME NEW i \in 1 .. n + 1
      PROVE  \E a \in 1 .. k + 1 : NameOrder[a] = t[i]
  BY <1>1, <1>2, <1>4, <1>5, <1>6, <1>7 DEF InOrder
<1>9. ASSUME NEW i \in 1 .. n + 1, NEW j \in 1 .. n + 1, i < j
      PROVE  \E a, b \in 1 .. k + 1 : a < b /\ NameOrder[a] = t[i] /\ NameOrder[b] = t[j]
  <2>1. i \in 1 .. n
    BY <1>9
  <2>2. CASE j = n + 1
    <3>1. PICK a \in 1 .. k : NameOrder[a] = s[i]
      BY <1>1, <2>1 DEF InOrder
    <3> QED BY <1>2, <1>4, <1>5, <2>1, <2>2, <3>1
  <2>3. CASE j \in 1 .. n
    <3>1. PICK a, b \in 1 .. k : a < b /\ NameOrder[a] = s[i] /\ NameOrder[b] = s[j]
      BY <1>1, <1>9, <2>1, <2>3 DEF InOrder
    <3>2. t[i] = s[i] /\ t[j] = s[j] /\ a \in 1 .. k + 1 /\ b \in 1 .. k + 1
      BY <1>4, <1>5, <2>1, <2>3
    <3> QED BY <3>1, <3>2
  <2> QED BY <1>7, <2>2, <2>3
<1>10. InOrder(t, k + 1)
  BY <1>1, <1>4, <1>8, <1>9 DEF InOrder
<1> QED BY <1>1, <1>2, <1>6, <1>10

LEMMA SortedInOrder ==
  ASSUME NEW S
  PROVE  \A i, j \in 1 .. Len(Sorted(S)) : i < j => Before(Sorted(S)[i], Sorted(S)[j])
<1>1. PICK f \in [Nat -> Seq(S)] : IsSorted(f, S)
  BY SortedFunction
<1>2. PICK last \in Nat : last = Len(NameOrder) /\ DOMAIN NameOrder = 1 .. last
  BY StatsAssumption, LenProperties
<1> DEFINE T == {n \in Nat : n <= last => InOrder(f[n], n)}
<1>3. 0 \in T
  <2>1. f[0] = <<>> /\ Len(<<>>) = 0
    BY <1>1 DEF IsSorted
  <2>2. InOrder(<<>>, 0)
    BY <2>1 DEF InOrder
  <2> QED BY <2>1, <2>2
<1>4. ASSUME NEW n \in T \cap Nat
      PROVE  n + 1 \in T
  <2>1. SUFFICES ASSUME n + 1 <= last PROVE InOrder(f[n + 1], n + 1)
    OBVIOUS
  <2>2. InOrder(f[n], n) /\ n \in Nat /\ f[n] \in Seq(S)
    BY <1>1, <2>1
  <2> HIDE DEF T
  <2>3. PICK b \in 1 .. last : b = n + 1 /\ b - 1 = n
    BY <2>1, <2>2
  <2>4. f[b] = IF NameOrder[b] \in S THEN Append(f[n], NameOrder[b]) ELSE f[n]
    BY <1>1, <1>2, <2>3 DEF IsSorted
  <2>5. InOrder(f[n], n + 1) /\ InOrder(Append(f[n], NameOrder[n + 1]), n + 1)
    BY <2>2, OrderGrows
  <2> QED BY <2>3, <2>4, <2>5
<1>5. last \in T
  <2> HIDE DEF T
  <2> QED BY <1>2, <1>3, <1>4, SetInduction
<1>6. InOrder(Sorted(S), last)
  BY <1>1, <1>2, <1>5 DEF IsSorted
<1> HIDE DEF T
<1>7. ASSUME NEW i \in 1 .. Len(Sorted(S)), NEW j \in 1 .. Len(Sorted(S)), i < j
      PROVE  Before(Sorted(S)[i], Sorted(S)[j])
  <2>1. PICK a, b \in 1 .. last : a < b /\ NameOrder[a] = Sorted(S)[i] /\ NameOrder[b] = Sorted(S)[j]
    BY <1>6, <1>7 DEF InOrder
  <2> QED BY <1>2, <2>1 DEF Before
<1> QED BY <1>7

\* What C++ outputs for a dictionary of numbers.
Singles(d) ==
  [f \in DOMAIN d |-> [kind |-> "scalar", class |-> "double", view |-> View(<<1>>, 0, <<d[f]>>)]]

LEMMA SingleIsItself ==
  ASSUME NEW x
  PROVE  OneToMXArray([kind |-> "scalar", class |-> "double", view |-> View(<<1>>, 0, <<x>>)]).data = <<x>>
<1>1. PICK v : v = [kind |-> "scalar", class |-> "double", view |-> View(<<1>>, 0, <<x>>)]
  OBVIOUS
<1>2. v.kind = "scalar" /\ v.view.size = <<1>> /\ v.view.mem = <<x>> /\ v.view.start = 0
  BY <1>1 DEF View
<1>3. OneToMXArray(v).data = Elements(v)
  BY <1>2 DEF OneToMXArray, Array
<1>4. Extent(<<1>>, 1, Len(<<1>>)) = 1
  <2>1. <<1>> \in Seq(Nat) /\ Len(<<1>>) = 1 /\ Len(<<1>>) >= 1 /\ <<1>>[1] = 1
    OBVIOUS
  <2>2. Extent(<<1>>, 1, 1) = <<1>>[1]
    BY <2>1, ShortExtents
  <2> QED BY <2>1, <2>2
<1>5. Elements(v) = SubSeq(<<x>>, 0 + 1, 0 + 1)
  BY <1>2, <1>4 DEF Elements
<1>6. SubSeq(<<x>>, 0 + 1, 0 + 1) = <<x>>
  <2>1. <<x>> \in Seq({x}) /\ Len(<<x>>) = 1 /\ 0 + 1 = 1
    OBVIOUS
  <2>2. SubSeq(<<x>>, 1, Len(<<x>>)) = <<x>>
    BY <2>1, SubSeqFull
  <2> QED BY <2>1, <2>2
<1> QED BY <1>1, <1>3, <1>5, <1>6

LEMMA StatsOutput ==
  ASSUME NEW d, DOMAIN d \subseteq Names
  PROVE  LET out == DictToMXArray(Singles(d))
         IN  /\ out.names = Sorted(DOMAIN d) /\ Lists(out.names, DOMAIN d)
             /\ DOMAIN out.data = DOMAIN out.names
             /\ \A i \in DOMAIN out.names : out.data[i].data[1] = d[out.names[i]]
<1>1. PICK names, out : names = Sorted(DOMAIN d) /\ out = DictToMXArray(Singles(d))
  OBVIOUS
<1>2. DOMAIN Singles(d) = DOMAIN d
  BY DEF Singles
<1>3. Lists(names, DOMAIN d)
  BY <1>1, SortedLists
<1>4. /\ out.names = names
      /\ out.data = [i \in DOMAIN names |-> OneToMXArray(Singles(d)[names[i]])]
  BY <1>1, <1>2 DEF DictToMXArray, Struct, Array
<1>5. ASSUME NEW i \in DOMAIN names
      PROVE  out.data[i].data[1] = d[names[i]]
  <2>1. PICK f : f = names[i]
    OBVIOUS
  <2>2. f \in DOMAIN d
    <3>1. names \in Seq(DOMAIN d)
      BY <1>3 DEF Lists
    <3> QED BY <2>1, <3>1
  <2>3. Singles(d)[f] = [kind |-> "scalar", class |-> "double", view |-> View(<<1>>, 0, <<d[f]>>)]
    BY <2>2 DEF Singles
  <2>4. OneToMXArray(Singles(d)[f]).data = <<d[f]>>
    BY <2>3, SingleIsItself
  <2>5. out.data[i] = OneToMXArray(Singles(d)[f])
    BY <1>4, <2>1
  <2>6. <<d[f]>>[1] = d[f]
    OBVIOUS
  <2> QED BY <2>1, <2>4, <2>5, <2>6
<1> QED BY <1>1, <1>3, <1>4, <1>5

LEMMA UniformNames ==
  ASSUME NEW S, NEW N, Lists(N, S), NEW j \in DOMAIN N, Uniform(N[j], S)
  PROVE  /\ OnlyOne(N, j) \/ OnlyIndexes(N, Grp(N, j)) \/ OnlyKeys(N, Grp(N, j))
         /\ ~Pair(N[j]) => OnlyOne(N, j)
         /\ Indexed(N[j]) => OnlyIndexes(N, Grp(N, j))
         /\ Keyed(N[j]) => OnlyKeys(N, Grp(N, j))
<1>1. PICK n \in Nat : n = Len(N) /\ DOMAIN N = 1 .. n
  BY LenProperties DEF Lists
<1>2. \A k \in DOMAIN N : N[k] \in S
  BY <1>1, ElementOfSeq DEF Lists
<1>3. \A k \in DOMAIN N : Grp(N, k) = Grp(N, j) => N[k] \in Group(N[j], S)
  BY <1>2 DEF Group, Grp
<1>4. N[j] \in Group(N[j], S)
  BY <1>3
<1>5. Group(N[j], S) = {N[j]} => OnlyOne(N, j)
  <2>1. \A k \in DOMAIN N : N[k] = N[j] => k = j
    BY <1>1 DEF Lists
  <2> QED BY <1>3, <2>1 DEF OnlyOne
<1>6. (\A h \in Group(N[j], S) : Indexed(h)) => OnlyIndexes(N, Grp(N, j)) /\ Indexed(N[j])
  BY <1>3, <1>4 DEF OnlyIndexes
<1>7. (\A h \in Group(N[j], S) : Keyed(h)) => OnlyKeys(N, Grp(N, j)) /\ Keyed(N[j])
  BY <1>3, <1>4 DEF OnlyKeys
<1>8. OnlyOne(N, j) => /\ Indexed(N[j]) => OnlyIndexes(N, Grp(N, j))
                       /\ Keyed(N[j]) => OnlyKeys(N, Grp(N, j))
  BY DEF OnlyOne, OnlyIndexes, OnlyKeys
<1>9. \/ Group(N[j], S) = {N[j]}
      \/ \A h \in Group(N[j], S) : Indexed(h)
      \/ \A h \in Group(N[j], S) : Keyed(h)
  BY DEF Uniform
<1> QED BY <1>5, <1>6, <1>7, <1>8, <1>9, KindsOf

LEMMA ConversionFollows ==
  ASSUME NEW d, DOMAIN d \subseteq Names, NEW N, N = Sorted(DOMAIN d),
         NEW V, \A j \in DOMAIN N : V[j] = d[N[j]],
         NEW s, s = convertStatsToStructs(N, V)
  PROVE  IsConversion(d, s)
<1> DEFINE names == DOMAIN d
<1>1. Lists(N, names)
  BY SortedLists
<1>2. PICK n \in Nat : n = Len(N) /\ DOMAIN N = 1 .. n
  BY <1>1, LenProperties DEF Lists
<1>3. NamesOK(N)
  BY <1>1, <1>2 DEF Lists, NamesOK
<1>4. Kept(s, N, V, n)
  BY <1>2, <1>3, ConvertedIsKept
<1>5. \A j \in 1 .. n : N[j] \in names
  BY <1>1, <1>2, ElementOfSeq DEF Lists
<1>6. \A f \in names : \E j \in 1 .. n : N[j] = f
  BY <1>1, <1>2 DEF Lists
<1>7. s.failed \in BOOLEAN
  BY <1>4 DEF Kept, IsState
<1>8. ASSUME \A f \in names : Uniform(f, names), s.failed
      PROVE  \E f \in names : Indexed(f) /\ Index[Parts[f][2]] < 1
  <2>1. \A j \in DOMAIN N : OnlyOne(N, j) \/ OnlyIndexes(N, Grp(N, j)) \/ OnlyKeys(N, Grp(N, j))
    <3> TAKE j \in DOMAIN N
    <3>1. Uniform(N[j], names)
      BY <1>2, <1>5, <1>8
    <3> QED BY <1>1, <3>1, UniformNames
  <2>2. AllUniform(N)
    BY <2>1 DEF AllUniform
  <2>3. PICK j \in 1 .. n : Indexed(N[j]) /\ Idx(N, j) < 1
    BY <1>4, <1>8, <2>2 DEF Kept, Blamed
  <2> QED BY <1>5, <2>3 DEF Idx
<1>9. ASSUME ~s.failed, NEW f \in names, Indexed(f), Index[Parts[f][2]] < 1
      PROVE  FALSE
  <2>1. PICK j \in 1 .. n : N[j] = f
    BY <1>6
  <2>2. ~ (Idx(N, j) < 1)
    BY <1>4, <1>9, <2>1 DEF Kept, Tracked, IndexesHeld
  <2> QED BY <1>9, <2>1, <2>2 DEF Idx
<1>10. ASSUME ~s.failed, NEW f \in names, Uniform(f, names),
              Indexed(f) => \A h \in Group(f, names) \ {f} : Index[Parts[h][2]] # Index[Parts[f][2]]
       PROVE  /\ ~Pair(f)   => s.made[Parts[f][1]].array = <<d[f]>>
              /\ Indexed(f) => s.made[Parts[f][1]].array[Index[Parts[f][2]]] = d[f]
              /\ Keyed(f)   => s.made[Parts[f][1]].struct[Parts[f][2]] = d[f]
  <2>1. PICK j \in 1 .. n : N[j] = f
    BY <1>6
  <2>2. Tracked(s.made, N, V, n) /\ j \in DOMAIN N /\ V[j] = d[f]
    BY <1>2, <1>4, <1>10, <2>1 DEF Kept
  <2>3. PICK made : made = s.made
    OBVIOUS
  <2>4. /\ ~Pair(N[j]) => OnlyOne(N, j)
        /\ Indexed(N[j]) => OnlyIndexes(N, Grp(N, j))
        /\ Keyed(N[j]) => OnlyKeys(N, Grp(N, j))
    BY <1>1, <1>10, <2>1, <2>2, UniformNames
  <2>5. ~Pair(f) => made[Grp(N, j)].array = <<d[f]>>
    <3>1. ~Pair(f) => made[Grp(N, j)] = Numbers(<<V[j]>>)
      BY <2>1, <2>2, <2>3, <2>4 DEF Tracked, OnesKept
    <3> QED BY <2>2, <3>1, EmptyAndOne
  <2>6. Indexed(f) => made[Grp(N, j)].array[Idx(N, j)] = d[f]
    <3> SUFFICES ASSUME Indexed(f) PROVE made[Grp(N, j)].array[Idx(N, j)] = d[f]
      OBVIOUS
    <3>1. IndexIsOwn(N, j)
      <4> SUFFICES ASSUME NEW k \in DOMAIN N, Grp(N, k) = Grp(N, j), k # j
                   PROVE  Idx(N, k) # Idx(N, j)
        BY DEF IndexIsOwn
      <4>1. N[k] # f
        BY <1>3, <2>1, <2>2 DEF NamesOK
      <4>2. N[k] \in Group(f, names)
        BY <1>2, <1>5, <2>1 DEF Group, Grp
      <4> QED BY <1>10, <2>1, <4>1, <4>2 DEF Idx
    <3> QED BY <2>1, <2>2, <2>3, <2>4, <3>1 DEF Tracked, ArraysKept
  <2>7. Keyed(f) => made[Grp(N, j)].struct[Key(N, j)] = d[f]
    <3> SUFFICES ASSUME Keyed(f) PROVE made[Grp(N, j)].struct[Key(N, j)] = d[f]
      OBVIOUS
    <3>1. Grp(N, j) \in DOMAIN made
      BY <2>1, <2>2, <2>3, KindsOf DEF Tracked, Shaped
    <3> QED BY <2>1, <2>2, <2>3, <2>4, <3>1 DEF Tracked, KeysKept
  <2> QED BY <2>1, <2>3, <2>5, <2>6, <2>7 DEF Grp, Idx, Key
<1>11. ASSUME ~s.failed, NEW f \in names, NEW h \in names,
              Indexed(f), Keyed(h), Parts[h][1] = Parts[f][1]
       PROVE  Before(h, f)
  <2>1. PICK j \in 1 .. n, k \in 1 .. n : N[j] = f /\ N[k] = h
    BY <1>6
  <2>2. j # k
    BY <1>11, <2>1, KindsOf
  <2>3. ~ (j < k)
    BY <1>4, <1>11, <2>1 DEF Kept, Tracked, KeysFirst, Grp
  <2>4. k < j
    BY <2>2, <2>3
  <2> QED BY <1>2, <2>1, <2>4, SortedInOrder
<1>12. (\A f \in names : Uniform(f, names)) =>
         s.failed = \E f \in names : Indexed(f) /\ Index[Parts[f][2]] < 1
  BY <1>7, <1>8, <1>9
<1> QED BY <1>10, <1>11, <1>12, Zenon DEF IsConversion

StatsIsOutput ==
  outcome = "stats" =>
    /\ computed \in StatDicts
    /\ LET out == DictToMXArray(Singles(computed))
       IN  stats = convertStatsToStructs(out.names, [i \in DOMAIN out.data |-> out.data[i].data[1]])

LEMMA StatsOutputKeeps == ASSUME Ready, Reading, StatsIsOutput, [Next]_vars PROVE StatsIsOutput'
<1>1. CASE Call \/ GetArg \/ GetElement \/ CloseBox
  <2>1. outcome' \in {"none", "ok", "wild", "error"}
    BY <1>1, OutcomeOfReading
  <2> QED BY <2>1 DEF StatsIsOutput
<1>2. CASE OutputStats
  <2>1. PICK d \in StatDicts :
          /\ computed' = d
          /\ lhs' = <<DictToMXArray(Singles(d))>>
          /\ stats' = convertStatsToStructs(lhs'[1].names, [i \in DOMAIN lhs'[1].data |-> lhs'[1].data[i].data[1]])
    BY <1>2 DEF OutputStats, Singles
  <2>2. PICK out : out = DictToMXArray(Singles(d))
    OBVIOUS
  <2>3. lhs'[1] = out
    BY <2>1, <2>2
  <2>4. stats' = convertStatsToStructs(out.names, [i \in DOMAIN out.data |-> out.data[i].data[1]])
    BY <2>1, <2>3
  <2> QED BY <2>1, <2>2, <2>4 DEF StatsIsOutput
<1>3. CASE Echo \/ OutputSparse \/ UnknownMethod \/ Return
  BY <1>3 DEF Echo, OutputSparse, UnknownMethod, Return, Ends, StatsIsOutput
<1>4. CASE UNCHANGED vars
  BY <1>4 DEF vars, input, result, StatsIsOutput
<1> QED BY <1>1, <1>2, <1>3, <1>4 DEF Next

\* Whatever dictionary of numbers a method returns, converting it keeps each number where
\* its name says, as long as its group has names of one kind and its index is its own; if
\* all groups are so, it fails on an index below one and on nothing else; and where it
\* succeeds, the keys of a group come before its indexes.
THEOREM StatsAreRight == Spec => []StatsAreKept
<1>1. Init => StatsIsOutput
  BY DEF Init, StatsIsOutput
<1>2. IInv /\ Counted /\ Reading /\ StatsIsOutput /\ [Next]_vars => StatsIsOutput'
  BY StatsOutputKeeps DEF Ready
<1>3. StatsIsOutput => StatsAreKept
  <2> SUFFICES ASSUME StatsIsOutput, outcome = "stats" PROVE IsConversion(computed, stats)
    BY Zenon DEF StatsAreKept, IsConversion
  <2>1. PICK d : d = computed /\ DOMAIN d \subseteq Names
    BY StatDictsAssumption DEF StatsIsOutput
  <2>2. PICK out : out = DictToMXArray(Singles(d))
    OBVIOUS
  <2>3. PICK V : V = [i \in DOMAIN out.data |-> out.data[i].data[1]]
    OBVIOUS
  <2>4. stats = convertStatsToStructs(out.names, V)
    BY <2>1, <2>2, <2>3 DEF StatsIsOutput
  <2>5. /\ out.names = Sorted(DOMAIN d) /\ DOMAIN out.data = DOMAIN out.names
        /\ \A i \in DOMAIN out.names : out.data[i].data[1] = d[out.names[i]]
    BY <2>1, <2>2, StatsOutput
  <2>6. \A i \in DOMAIN out.names : V[i] = d[out.names[i]]
    BY <2>3, <2>5
  <2>7. IsConversion(d, stats)
    BY <2>1, <2>4, <2>5, <2>6, ConversionFollows
  <2> QED BY <2>1, <2>7
<1> QED BY <1>1, <1>2, <1>3, ReadingAlways, PTL DEF Spec
=============================================================================
