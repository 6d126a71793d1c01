---------------------------- MODULE MexCallProofs ----------------------------
(***************************************************************************)
(* For every interface, whatever its methods check, get and output: the    *)
(* members of iface keep their types, and a method reads the user's inputs *)
(* in order and nothing before them.  The cursors are never compared with  *)
(* the counts: for every interface whose programs check enough before they *)
(* get and output, no command reads or writes outside Matlab's arrays.     *)
(***************************************************************************)
EXTENDS MexCall, FiniteSetTheorems, SequenceTheorems, TLAPS

\* How far rhs has been moved, and how the cursor counts what was read, at each
\* point of a command.
CursorOK ==
  /\ pc = "idle" => used = <<>> /\ slots = {}
  /\ pc = "command" => popped = 0 /\ rhs_idx = 0 /\ used = <<>>
  /\ pc \in {"method", "static"} =>
       request.kind = pc /\ popped = 1 /\ rhs_idx = 0 /\ used = <<>>
  /\ pc = "run" => popped = Len(Prefix(request.kind)) /\ rhs_idx = Len(used)
  /\ used \in Seq(Nat)

CallInv == TypeOK /\ CursorOK /\ InputsInOrder

\* What a request is, without the tables it is drawn from.
LEMMA RequestShape ==
  ASSUME NEW r \in Requests
  PROVE  /\ r.kind \in {"new", "method", "static", "delete"}
         /\ r.in \in Seq(Kinds) /\ Len(r.in) \in 0 .. MaxIn
         /\ r.out \in 0 .. MaxOut
<1>1. r.in \in Inputs \cup {<<>>} /\ r.kind \in {"new", "method", "static", "delete"}
      /\ r.out \in 0 .. MaxOut
  BY InputsAssumption DEF Requests
<1>2. r.in \in Seq(Kinds) /\ Len(r.in) <= MaxIn
  <2>1. CASE r.in = <<>>
    BY <2>1, InputsAssumption
  <2>2. CASE r.in \in Inputs
    BY <2>2, InputsAssumption
  <2> QED BY <1>1, <2>1, <2>2
<1>3. Len(r.in) \in Nat
  BY <1>2
<1> QED BY <1>1, <1>2, <1>3, InputsAssumption

\* The prefix of a command has the length of what mexFunction pops.
LEMMA PrefixLength ==
  /\ Len(Prefix("new")) = 1
  /\ Len(Prefix("method")) = 2
  /\ Len(Prefix("static")) = 2
  /\ Len(Prefix("delete")) = 2
BY DEF Prefix

LEMMA RhsLength ==
  ASSUME NEW r \in Requests
  PROVE  Len(Rhs(r)) \in 1 .. MaxIn + 2
<1>1. Prefix(r.kind) \in Seq({"char", "handle"})
  <2>1. \A x, y \in {"char", "handle"} :
          <<x>> \in Seq({"char", "handle"}) /\ <<x, y>> \in Seq({"char", "handle"})
    OBVIOUS
  <2> QED BY <2>1, RequestShape DEF Prefix
<1>2. Len(Prefix(r.kind)) \in {1, 2}
  BY RequestShape, PrefixLength
<1>3. Len(Rhs(r)) = Len(Prefix(r.kind)) + Len(r.in)
  <2>1. Prefix(r.kind) \in Seq({"char", "handle"} \cup Kinds)
        /\ r.in \in Seq({"char", "handle"} \cup Kinds)
    BY <1>1, RequestShape
  <2> QED BY <2>1 DEF Rhs
<1>4. Len(r.in) \in 0 .. MaxIn /\ MaxIn \in Nat
  BY RequestShape, InputsAssumption
<1>5. \A a \in {1, 2}, b \in 0 .. MaxIn : a + b \in 1 .. MaxIn + 2
  BY <1>4
<1> QED BY <1>2, <1>3, <1>4, <1>5

\* A method or static command has a second word of its own.
LEMMA SecondWord ==
  ASSUME NEW r \in Requests, r.kind \in {"method", "static"}
  PROVE  Len(Rhs(r)) >= 2
<1>1. Prefix(r.kind) \in Seq({"char", "handle"} \cup Kinds)
  <2>1. \A x, y \in {"char", "handle"} : <<x, y>> \in Seq({"char", "handle"} \cup Kinds)
    OBVIOUS
  <2> QED BY <2>1 DEF Prefix
<1>2. r.in \in Seq({"char", "handle"} \cup Kinds) /\ Len(r.in) \in 0 .. MaxIn
  BY RequestShape
<1>3. Len(Rhs(r)) = Len(Prefix(r.kind)) + Len(r.in)
  BY <1>1, <1>2 DEF Rhs
<1>4. Len(Prefix(r.kind)) = 2
  BY PrefixLength
<1> QED BY <1>2, <1>3, <1>4, InputsAssumption

LEMMA InitInv == ASSUME Init PROVE CallInv
<1>1. TypeOK
  <2>1. 0 \in 0 .. MaxOut /\ 0 \in 0 .. MaxIn + 2 /\ 0 \in 0 .. 2 /\ 0 \in Nat
    BY InputsAssumption
  <2> QED BY <2>1 DEF Init, TypeOK
<1>2. CursorOK
  <2>1. <<>> \in Seq(Nat)
    OBVIOUS
  <2> QED BY <2>1 DEF Init, CursorOK
<1>3. InputsInOrder
  <2>1. Len(used) = 0
    BY DEF Init
  <2> QED BY <2>1 DEF InputsInOrder
<1> QED BY <1>1, <1>2, <1>3 DEF CallInv

\* A step that leaves iface and what was read alone keeps the invariant.
LEMMA QuietStep ==
  ASSUME CallInv, UNCHANGED <<iface, module, request, used>>,
         pc' \in {pc, "done"}, pc \in {"run", "done"},
         slots' \subseteq Slots(request.out),
         outcome' \in {"none", "ok", "error", "escaped", "terminated", "wild"}
  PROVE  CallInv'
BY DEF CallInv, TypeOK, CursorOK, InputsInOrder, iface, Requests, Rhs, Slots

LEMMA MexFunctionKeeps == ASSUME CallInv, MexFunction PROVE CallInv'
<1> PICK r \in Requests : request' = r /\ SetArguments(r)
  BY DEF MexFunction
<1>1. TypeOK'
  <2>1. r \in Requests'
    BY DEF MexFunction, Requests
  <2>2. nlhs' \in 0 .. MaxOut
    BY RequestShape DEF SetArguments
  <2>3. nrhs' \in 0 .. MaxIn + 2 /\ popped' + nrhs' = Len(Rhs(request'))
    BY RhsLength, InputsAssumption DEF SetArguments
  <2>4. slots' = {} /\ outcome' = outcome /\ pc' = "command" /\ module' = module
    BY DEF MexFunction, CallInv, CursorOK
  <2> QED BY <2>1, <2>2, <2>3, <2>4 DEF CallInv, TypeOK, SetArguments
<1>2. CursorOK' /\ InputsInOrder'
  BY DEF CallInv, CursorOK, InputsInOrder, MexFunction, SetArguments
<1> QED BY <1>1, <1>2 DEF CallInv

\* The first words of a command: each is popped once.
LEMMA PopKeepsType ==
  ASSUME CallInv, PopRhs, pc \in {"command", "method", "static"},
         popped \in {0, 1}, Len(Rhs(request)) > popped,
         pc' \in {"method", "static", "run", "done"},
         UNCHANGED <<module, request, slots>>,
         outcome' \in {"none", "ok", "error"}
  PROVE  TypeOK'
<1>1. request \in Requests /\ popped + nrhs = Len(Rhs(request)) /\ nrhs \in 0 .. MaxIn + 2
  BY DEF CallInv, TypeOK
<1>2. nrhs' \in 0 .. MaxIn + 2 /\ popped' \in 0 .. 2 /\ popped' + nrhs' = Len(Rhs(request))
  <2>1. nrhs \in Nat /\ nrhs > 0
    BY <1>1, InputsAssumption
  <2> QED BY <1>1, <2>1, InputsAssumption DEF PopRhs
<1>3. request' \in Requests' /\ Rhs(request') = Rhs(request)
  BY <1>1 DEF Requests
<1> QED BY <1>2, <1>3 DEF CallInv, TypeOK, PopRhs

LEMMA CommandKeeps == ASSUME CallInv, Command PROVE CallInv'
<1>1. request \in Requests /\ popped = 0 /\ rhs_idx = 0 /\ used = <<>>
  BY DEF CallInv, TypeOK, CursorOK, Command
<1>2. request.kind \in {"new", "method", "static", "delete"} /\ Len(Rhs(request)) \in 1 .. MaxIn + 2
  BY <1>1, RequestShape, RhsLength
<1>3. /\ UNCHANGED <<module, call>> \/ (UNCHANGED <<module, request, slots, used, changed>>
                                        /\ outcome' = "ok")
      /\ pc' = CASE request.kind = "new" -> "run" [] request.kind = "delete" -> "done"
                 [] OTHER -> request.kind
  BY <1>2 DEF Command, Run, Finish, call
<1>4. UNCHANGED <<module, request, slots, used>> /\ outcome' \in {outcome, "ok"}
  BY <1>3 DEF call
<1>5. TypeOK'
  BY <1>1, <1>2, <1>3, <1>4, PopKeepsType, InputsAssumption
  DEF Command, CallInv, TypeOK, PopRhs, Requests, Slots
<1>6. CursorOK'
  BY <1>1, <1>2, <1>3, <1>4, PrefixLength DEF CursorOK, CallInv, Command, PopRhs
<1>7. InputsInOrder'
  BY <1>1, <1>4 DEF InputsInOrder
<1> QED BY <1>5, <1>6, <1>7 DEF CallInv

\* The name of a method, or of a static one, has been popped.
LEMMA LookupKeeps == ASSUME CallInv, Method \/ Static PROVE CallInv'
<1>1. /\ request \in Requests /\ popped = 1 /\ rhs_idx = 0 /\ used = <<>>
      /\ request.kind = pc /\ pc \in {"method", "static"}
  BY DEF CallInv, TypeOK, CursorOK, Method, Static
<1>2. PopRhs
  BY DEF Method, Static
<1>3. \/ pc' = "run" /\ UNCHANGED <<module, call>>
      \/ /\ pc' = "done" /\ outcome' = "error"
         /\ UNCHANGED <<module, request, slots, used, changed>>
  BY DEF Method, Static, CallMethod, Run, Finish
<1>4. /\ UNCHANGED <<module, request, slots, used>> /\ outcome' \in {outcome, "error"}
      /\ pc' \in {"run", "done"}
  BY <1>3 DEF call
<1>5. TypeOK'
  <2>1. nrhs' = nrhs - 1 /\ popped' = 2 /\ Len(Rhs(request)) = 1 + nrhs
        /\ nrhs \in 0 .. MaxIn + 2
    BY <1>1, <1>2 DEF PopRhs, CallInv, TypeOK
  <2>2. Len(Rhs(request)) >= 2
    BY <1>1, SecondWord
  <2>3. nrhs' \in 0 .. MaxIn + 2 /\ popped' + nrhs' = Len(Rhs(request))
    BY <2>1, <2>2, InputsAssumption
  <2>4. request' \in Requests' /\ Rhs(request') = Rhs(request)
    BY <1>1, <1>4 DEF Requests
  <2> QED BY <1>2, <1>4, <2>1, <2>3, <2>4 DEF CallInv, TypeOK, PopRhs
<1>6. CursorOK'
  BY <1>1, <1>2, <1>4, PrefixLength DEF CursorOK, CallInv, PopRhs
<1>7. InputsInOrder'
  BY <1>1, <1>4 DEF InputsInOrder
<1> QED BY <1>5, <1>6, <1>7 DEF CallInv

LEMMA GetArgKeeps == ASSUME CallInv, GetArg PROVE CallInv'
<1> DEFINE op == Head(todo)
           at == popped + rhs_idx + 1
<1>1. CASE ~Given(op)
  BY <1>1, QuietStep DEF GetArg, Doing, Advance, CallInv, TypeOK
<1>2. CASE Given(op)
  <2>1. /\ pc = "run" /\ rhs_idx' = rhs_idx + 1 /\ used' = Append(used, at)
        /\ UNCHANGED <<nlhs, nrhs, popped, lhs_idx, slots, module, request>>
        /\ pc' \in {"run", "done"}
        /\ outcome' \in {"none", "ok", "error", "escaped", "terminated", "wild"}
    BY <1>2 DEF GetArg, Doing, Advance, Throw, Finish, CallInv, TypeOK
  <2>2. /\ popped \in Nat /\ rhs_idx \in Nat /\ at \in Nat /\ used \in Seq(Nat)
        /\ popped = Len(Prefix(request.kind)) /\ rhs_idx = Len(used)
    BY <2>1 DEF CallInv, TypeOK, CursorOK
  <2>3. TypeOK'
    BY <2>1, <2>2 DEF CallInv, TypeOK, Requests
  <2>4. used' \in Seq(Nat) /\ Len(used') = Len(used) + 1
    BY <2>1, <2>2
  <2>5. CursorOK'
    BY <2>1, <2>2, <2>4 DEF CursorOK
  <2>6. InputsInOrder'
    <3> SUFFICES ASSUME NEW k \in 1 .. Len(used') PROVE used'[k] = Len(Prefix(request.kind)) + k
      BY <2>1 DEF InputsInOrder
    <3>1. CASE k \in 1 .. Len(used)
      <4>1. used[k] = Len(Prefix(request.kind)) + k
        BY <3>1 DEF CallInv, InputsInOrder
      <4>2. Append(used, at)[k] = used[k]
        BY <2>2, <3>1
      <4> QED BY <2>1, <4>1, <4>2
    <3>2. CASE k = Len(used) + 1
      BY <2>1, <2>2, <3>2
    <3> QED BY <2>2, <2>4, <3>1, <3>2
  <2> QED BY <2>3, <2>5, <2>6 DEF CallInv
<1> QED BY <1>1, <1>2

LEMMA WriteOutputKeeps == ASSUME CallInv, WriteOutput PROVE CallInv'
<1>1. CASE ~Wanted(Head(todo))
  BY <1>1, QuietStep DEF WriteOutput, Doing, Advance, CallInv, TypeOK
<1>2. CASE Wanted(Head(todo))
  <2>1. /\ pc = "run" /\ lhs_idx' = lhs_idx + 1 /\ slots' \subseteq Slots(request.out)
        /\ UNCHANGED <<nlhs, nrhs, popped, rhs_idx, used, module, request>>
        /\ pc' \in {"run", "done"}
        /\ outcome' \in {"none", "ok", "error", "escaped", "terminated", "wild"}
    BY <1>2 DEF WriteOutput, Doing, Advance, Finish, CallInv, TypeOK
  <2>2. TypeOK'
    BY <2>1 DEF CallInv, TypeOK, Requests, Slots
  <2>3. CursorOK' /\ InputsInOrder'
    BY <2>1 DEF CallInv, CursorOK, InputsInOrder
  <2> QED BY <2>2, <2>3 DEF CallInv
<1> QED BY <1>1, <1>2

LEMMA StepKeeps == ASSUME CallInv, [Next]_vars PROVE CallInv'
<1>1. CASE MexFunction
  BY <1>1, MexFunctionKeeps
<1>2. CASE Command
  BY <1>2, CommandKeeps
<1>3. CASE Method \/ Static
  BY <1>3, LookupKeeps
<1>4. CASE CheckNumArgs
  BY <1>4, QuietStep DEF CheckNumArgs, Doing, Advance, Throw, Finish, CallInv, TypeOK
<1>5. CASE GetArg
  BY <1>5, GetArgKeeps
<1>6. CASE Compute
  BY <1>6, QuietStep DEF Compute, Doing, Advance, Throw, Finish, CallInv, TypeOK
<1>7. CASE WriteOutput
  BY <1>7, WriteOutputKeeps
<1>8. CASE MethodReturns
  BY <1>8, QuietStep DEF MethodReturns, Finish, CallInv, TypeOK
<1>9. CASE Return
  <2>1. TypeOK'
    BY <1>9 DEF Return, NoCommand, CallInv, TypeOK, iface, Slots
  <2>2. CursorOK' /\ InputsInOrder'
    <3>1. used' = <<>> /\ Len(used') = 0 /\ used' \in Seq(Nat)
      BY <1>9 DEF Return, NoCommand
    <3> QED BY <1>9, <3>1 DEF Return, NoCommand, CursorOK, InputsInOrder
  <2> QED BY <2>1, <2>2 DEF CallInv
<1>10. CASE Restart
  <2>1. TypeOK'
    <3>1. 0 \in 0 .. MaxOut /\ 0 \in 0 .. MaxIn + 2 /\ 0 \in 0 .. 2 /\ 0 \in Nat
      BY InputsAssumption
    <3> QED BY <1>10, <3>1 DEF Restart, NoCommand, CallInv, TypeOK, Slots
  <2>2. CursorOK' /\ InputsInOrder'
    <3>1. used' = <<>> /\ Len(used') = 0 /\ used' \in Seq(Nat)
      BY <1>10 DEF Restart, NoCommand
    <3> QED BY <1>10, <3>1 DEF Restart, NoCommand, CursorOK, InputsInOrder
  <2> QED BY <2>1, <2>2 DEF CallInv
<1>11. CASE Parallel
  BY <1>11, QuietStep DEF Parallel, Doing, Advance, Finish, CallInv, TypeOK
<1>12. CASE UNCHANGED vars
  BY <1>12 DEF CallInv, TypeOK, CursorOK, InputsInOrder, vars, iface, call, Requests, Rhs, Slots
<1> QED BY <1>1, <1>2, <1>3, <1>4, <1>5, <1>6, <1>7, <1>8, <1>9, <1>10, <1>11, <1>12
        DEF Next, Body

\* Whatever the interface: the members of iface keep their types and agree with
\* the request, and every get returns the next of the user's inputs.
THEOREM CallInvariant == Spec => []CallInv
BY InitInv, StepKeeps, PTL DEF Spec

\* The type invariant of a command, for every interface.
THEOREM CallTypes == Spec => []TypeOK
<1>1. CallInv => TypeOK
  BY DEF CallInv
<1> QED BY <1>1, CallInvariant, PTL

\* The property InputsInOrder, for every interface: popRhs and setArguments leave
\* the cursor where the k-th get of a method returns the user's k-th input.
THEOREM InputsReadInOrder == Spec => []InputsInOrder
<1>1. CallInv => InputsInOrder
  BY DEF CallInv
<1> QED BY <1>1, CallInvariant, PTL

-----------------------------------------------------------------------------
(* Accesses: how far a program is, and what its checks have established. *)

Suffix(p, k) == SubSeq(p, k, Len(p))

\* The method is before the k-th operation of p, and its checks have passed.
IsAt(p, k) ==
  /\ todo = Suffix(p, k)
  /\ rhs_idx <= Earlier(p, k, "get") /\ lhs_idx <= Earlier(p, k, "output")
  /\ \A j \in 1 .. k - 1 : p[j].do = "check" => CountsAreRight(p[j])

AccessOK ==
  /\ outcome # "wild"
  /\ pc # "idle" => nlhs = request.out
  /\ pc \in {"command", "method", "static"} => lhs_idx = 0
  /\ pc = "run" => \E p \in Programs(module) : \E k \in 1 .. Len(p) + 1 : IsAt(p, k)

-----------------------------------------------------------------------------
(* Lemmas on programs. *)

LEMMA EarlierType ==
  ASSUME NEW p \in Seq(Operations), NEW k \in 1 .. Len(p) + 1, NEW what
  PROVE  /\ IsFiniteSet({j \in 1 .. k - 1 : p[j].do = what})
         /\ Earlier(p, k, what) \in Nat
<1>1. IsFiniteSet(1 .. k - 1)
  BY FS_Interval
<1>2. {j \in 1 .. k - 1 : p[j].do = what} \subseteq 1 .. k - 1
  OBVIOUS
<1>3. IsFiniteSet({j \in 1 .. k - 1 : p[j].do = what})
  BY <1>1, <1>2, FS_Subset
<1> QED BY <1>3, FS_CardinalityType DEF Earlier

\* One more is counted when the k-th operation is of the sort, else as many.
LEMMA EarlierNext ==
  ASSUME NEW p \in Seq(Operations), NEW k \in 1 .. Len(p), NEW what
  PROVE  /\ p[k].do = what => Earlier(p, k + 1, what) = Earlier(p, k, what) + 1
         /\ p[k].do # what => Earlier(p, k + 1, what) = Earlier(p, k, what)
<1> DEFINE upTo(n) == {j \in 1 .. n - 1 : p[j].do = what}
<1>1. IsFiniteSet(upTo(k)) /\ k \notin upTo(k)
  <2>1. k \in 1 .. Len(p) + 1
    OBVIOUS
  <2>2. IsFiniteSet(upTo(k))
    BY <2>1, EarlierType
  <2> QED BY <2>2
<1>2. CASE p[k].do = what
  <2>1. upTo(k + 1) = upTo(k) \cup {k}
    BY <1>2
  <2> QED BY <1>1, <1>2, <2>1, FS_AddElement DEF Earlier
<1>3. CASE p[k].do # what
  <2>1. upTo(k + 1) = upTo(k)
    BY <1>3
  <2> QED BY <1>3, <2>1 DEF Earlier
<1> QED BY <1>2, <1>3

\* Nothing comes before the first operation.
LEMMA EarlierFirst ==
  ASSUME NEW p, NEW what
  PROVE  Earlier(p, 1, what) = 0
<1>1. {j \in 1 .. 1 - 1 : p[j].do = what} = {}
  OBVIOUS
<1> QED BY <1>1, FS_EmptySet DEF Earlier

LEMMA SuffixFacts ==
  ASSUME NEW p \in Seq(Operations), NEW k \in 1 .. Len(p) + 1, Suffix(p, k) # <<>>
  PROVE  /\ k \in 1 .. Len(p) /\ k + 1 \in 1 .. Len(p) + 1
         /\ Head(Suffix(p, k)) = p[k] /\ Tail(Suffix(p, k)) = Suffix(p, k + 1)
<1>1. k \in 1 .. Len(p)
  BY DEF Suffix
<1>2. /\ Suffix(p, k) = [i \in 1 .. Len(p) - k + 1 |-> p[k + i - 1]]
      /\ Suffix(p, k + 1) = [i \in 1 .. Len(p) - k |-> p[k + i]]
  BY <1>1 DEF Suffix
<1>3. Head(Suffix(p, k)) = p[k]
  BY <1>1, <1>2
<1>4. Tail(Suffix(p, k)) = [i \in 1 .. Len(p) - k |-> p[k + i]]
  BY <1>1, <1>2, SMTT(20)
<1> QED BY <1>1, <1>2, <1>3, <1>4, SMTT(20)

LEMMA SuffixAll == ASSUME NEW p \in Seq(Operations) PROVE Suffix(p, 1) = p
  BY DEF Suffix

-----------------------------------------------------------------------------
\* The members of iface as numbers, and the request they were set from.
LEMMA Members ==
  ASSUME CallInv
  PROVE  /\ nlhs \in Nat /\ nrhs \in Nat /\ popped \in Nat /\ rhs_idx \in Nat /\ lhs_idx \in Nat
         /\ pc = "run" => Len(Rhs(request)) = popped + nrhs
  BY InputsAssumption DEF CallInv, TypeOK

LEMMA SlotOf ==
  ASSUME NEW out \in Nat, NEW i \in Nat, i = 0 \/ i < out
  PROVE  i \in Slots(out)
  BY DEF Slots

\* Where a running method is.
LEMMA Position ==
  ASSUME InterfaceIsChecked, CallInv, AccessOK, pc = "run"
  PROVE  \E p \in Seq(Operations) : \E k \in 1 .. Len(p) + 1 :
           p \in Programs(module) /\ ChecksSuffice(p) /\ IsAt(p, k)
<1>1. module \in DOMAIN Interface
  BY DEF CallInv, TypeOK
<1>2. PICK p \in Programs(module) : \E k \in 1 .. Len(p) + 1 : IsAt(p, k)
  BY DEF AccessOK
<1>3. p \in Seq(Operations) /\ ChecksSuffice(p)
  BY <1>1 DEF InterfaceIsChecked
<1> QED BY <1>2, <1>3

\* A program that begins is before its first operation.
LEMMA Begins ==
  ASSUME InterfaceIsChecked, NEW p \in Programs(module), module \in DOMAIN Interface,
         todo' = p, module' = module, rhs_idx' = 0, lhs_idx' = 0
  PROVE  \E q \in Programs(module') : \E k \in 1 .. Len(q) + 1 : IsAt(q, k)'
<1>1. p \in Seq(Operations)
  BY DEF InterfaceIsChecked
<1>2. 1 \in 1 .. Len(p) + 1 /\ Programs(module') = Programs(module)
  BY <1>1 DEF Programs
<1>3. Suffix(p, 1) = p /\ Earlier(p, 1, "get") = 0 /\ Earlier(p, 1, "output") = 0
  BY <1>1, SuffixAll, EarlierFirst
<1>4. IsAt(p, 1)'
  BY <1>3 DEF IsAt
<1> QED BY <1>2, <1>4

\* What one operation does to the place in the program.
LEMMA OperationEnds ==
  ASSUME NEW p \in Seq(Operations), NEW k \in 1 .. Len(p), IsAt(p, k),
         todo' = Suffix(p, k + 1), UNCHANGED <<nlhs, nrhs>>,
         rhs_idx \in Nat, rhs_idx' = rhs_idx \/ (rhs_idx' = rhs_idx + 1 /\ p[k].do = "get"),
         lhs_idx \in Nat, lhs_idx' = lhs_idx \/ (lhs_idx' = lhs_idx + 1 /\ p[k].do = "output"),
         p[k].do = "check" => CountsAreRight(p[k])
  PROVE  IsAt(p, k + 1)'
<1>1. k \in 1 .. Len(p) + 1 /\ k + 1 \in 1 .. Len(p) + 1
  OBVIOUS
<1>2. /\ Earlier(p, k, "get") \in Nat /\ Earlier(p, k + 1, "get") \in Nat
      /\ Earlier(p, k, "output") \in Nat /\ Earlier(p, k + 1, "output") \in Nat
  BY <1>1, EarlierType
<1>3. rhs_idx' <= Earlier(p, k + 1, "get")
  BY <1>2, EarlierNext DEF IsAt
<1>4. lhs_idx' <= Earlier(p, k + 1, "output")
  BY <1>2, EarlierNext DEF IsAt
<1>5. ASSUME NEW j \in 1 .. k + 1 - 1, p[j].do = "check"
      PROVE  CountsAreRight(p[j])'
  <2>1. CountsAreRight(p[j])
    BY <1>5 DEF IsAt
  <2> QED BY <2>1 DEF CountsAreRight
<1> QED BY <1>3, <1>4, <1>5 DEF IsAt

\* A get that is executed has an input of its own.
LEMMA GetHasInput ==
  ASSUME NEW p \in Seq(Operations), NEW k \in 1 .. Len(p), IsAt(p, k), ChecksSuffice(p),
         p[k].do = "get", nrhs > p[k].above, nrhs \in Nat, rhs_idx \in Nat
  PROVE  rhs_idx < nrhs
<1>1. p[k] \in Operations /\ Earlier(p, k, "get") \in Nat
  <2>1. k \in 1 .. Len(p) + 1
    OBVIOUS
  <2>2. Earlier(p, k, "get") \in Nat
    BY <2>1, EarlierType
  <2> QED BY <2>2, ElementOfSeq
<1>2. p[k].above \in Int
  BY <1>1 DEF Operations
<1>3. HasInput(p, k) /\ rhs_idx <= Earlier(p, k, "get")
  BY DEF ChecksSuffice, IsAt
<1>4. CASE Earlier(p, k, "get") <= p[k].above
  BY <1>1, <1>2, <1>3, <1>4
<1>5. ASSUME NEW j \in 1 .. k - 1, p[j].do = "check", Earlier(p, k, "get") < p[j].minIn
      PROVE  rhs_idx < nrhs
  <2>1. nrhs >= p[j].minIn
    BY <1>5 DEF IsAt, CountsAreRight
  <2>2. p[j] \in Operations
    BY ElementOfSeq
  <2>3. p[j].minIn \in Int
    BY <1>5, <2>2 DEF Operations
  <2> QED BY <1>1, <1>3, <1>5, <2>1, <2>3
<1> QED BY <1>3, <1>4, <1>5 DEF HasInput

\* An output that is wanted has a slot of its own, or is the first.
LEMMA OutputHasSlot ==
  ASSUME NEW p \in Seq(Operations), NEW k \in 1 .. Len(p), IsAt(p, k), ChecksSuffice(p),
         p[k].do = "output", nlhs > p[k].above, nlhs \in Nat, lhs_idx \in Nat
  PROVE  lhs_idx = 0 \/ lhs_idx < nlhs
<1>1. p[k] \in Operations /\ Earlier(p, k, "output") \in Nat
  <2>1. k \in 1 .. Len(p) + 1
    OBVIOUS
  <2>2. Earlier(p, k, "output") \in Nat
    BY <2>1, EarlierType
  <2> QED BY <2>2, ElementOfSeq
<1>2. p[k].above \in Int
  BY <1>1 DEF Operations
<1>3. HasSlot(p, k) /\ lhs_idx <= Earlier(p, k, "output")
  BY DEF ChecksSuffice, IsAt
<1>4. CASE Earlier(p, k, "output") <= p[k].above
  BY <1>1, <1>2, <1>3, <1>4
<1>5. ASSUME NEW j \in 1 .. k - 1, p[j].do = "check", Earlier(p, k, "output") < p[j].minOut
      PROVE  lhs_idx < nlhs
  <2>1. nlhs >= p[j].minOut
    BY <1>5 DEF IsAt, CountsAreRight
  <2>2. p[j] \in Operations
    BY ElementOfSeq
  <2>3. p[j].minOut \in Int
    BY <1>5, <2>2 DEF Operations
  <2> QED BY <1>1, <1>3, <1>5, <2>1, <2>3
<1>6. CASE Earlier(p, k, "output") = 0
  BY <1>3, <1>6
<1> QED BY <1>3, <1>4, <1>5, <1>6 DEF HasSlot

-----------------------------------------------------------------------------
\* The operation at the head of todo.
LEMMA BodyKeeps ==
  ASSUME InterfaceIsChecked, CallInv, AccessOK,
         CheckNumArgs \/ GetArg \/ Compute \/ Parallel \/ WriteOutput
  PROVE  AccessOK'
<1>1. pc = "run" /\ todo # <<>> /\ UNCHANGED <<nlhs, nrhs, request, module>>
  BY DEF CheckNumArgs, GetArg, Compute, Parallel, WriteOutput, Doing, Advance, Throw, Finish, iface
<1>2. PICK p \in Seq(Operations) : \E k \in 1 .. Len(p) + 1 :
        p \in Programs(module) /\ ChecksSuffice(p) /\ IsAt(p, k)
  BY <1>1, Position
<1> PICK k \in 1 .. Len(p) + 1 : p \in Programs(module) /\ ChecksSuffice(p) /\ IsAt(p, k)
  BY <1>2
<1>3. /\ k \in 1 .. Len(p) /\ k + 1 \in 1 .. Len(p) + 1
      /\ Head(todo) = p[k] /\ Tail(todo) = Suffix(p, k + 1)
  BY <1>1, <1>2, SuffixFacts DEF IsAt
<1>4. Programs(module') = Programs(module)
  BY <1>1 DEF Programs
<1>5. nlhs = request.out /\ outcome # "wild"
  BY <1>1 DEF AccessOK
\* It is enough that the method is one operation further, or at its end.
<1>6. ASSUME IsAt(p, k + 1)', pc' = "run", outcome' # "wild"
      PROVE  AccessOK'
  BY <1>1, <1>2, <1>3, <1>4, <1>5, <1>6 DEF AccessOK
<1>7. ASSUME pc' = "done", outcome' # "wild"
      PROVE  AccessOK'
  BY <1>1, <1>5, <1>7 DEF AccessOK
<1>8. nlhs \in Nat /\ nrhs \in Nat /\ popped \in Nat /\ rhs_idx \in Nat /\ lhs_idx \in Nat
      /\ Len(Rhs(request)) = popped + nrhs
  BY <1>1, Members
<1>9. CASE CheckNumArgs
  <2>1. p[k].do = "check" /\ UNCHANGED <<rhs_idx, lhs_idx>>
    BY <1>3, <1>9 DEF CheckNumArgs, Doing, iface
  <2>2. CASE CountsAreRight(p[k])
    <3>1. todo' = Suffix(p, k + 1) /\ pc' = "run" /\ outcome' = outcome
      BY <1>1, <1>3, <1>9, <2>2 DEF CheckNumArgs, Advance
    <3>2. IsAt(p, k + 1)'
      BY <1>1, <1>2, <1>3, <1>8, <2>1, <2>2, <3>1, OperationEnds
    <3> QED BY <1>5, <1>6, <3>1, <3>2
  <2>3. CASE ~CountsAreRight(p[k])
    BY <1>3, <1>7, <1>9, <2>3 DEF CheckNumArgs, Throw, Finish
  <2> QED BY <2>2, <2>3
<1>10. CASE GetArg
  <2>1. p[k].do = "get"
    BY <1>3, <1>10 DEF GetArg, Doing
  <2>2. CASE ~(nrhs > p[k].above)
    <3>1. todo' = Suffix(p, k + 1) /\ pc' = "run" /\ UNCHANGED <<outcome, rhs_idx, lhs_idx>>
      BY <1>1, <1>3, <1>10, <2>2 DEF GetArg, Given, Advance, iface
    <3>2. IsAt(p, k + 1)'
      BY <1>1, <1>2, <1>3, <1>8, <2>1, <3>1, OperationEnds
    <3> QED BY <1>5, <1>6, <3>1, <3>2
  <2>3. CASE nrhs > p[k].above
    <3>1. rhs_idx < nrhs
      BY <1>2, <1>3, <1>8, <2>1, <2>3, GetHasInput
    <3>2. ~(popped + rhs_idx + 1 > Len(Rhs(request)))
      BY <1>8, <3>1
    <3>3. rhs_idx' = rhs_idx + 1 /\ lhs_idx' = lhs_idx /\ (Advance \/ Throw)
      BY <1>3, <1>10, <2>3, <3>2 DEF GetArg, Given
    <3>4. CASE Advance
      <4>1. todo' = Suffix(p, k + 1) /\ pc' = "run" /\ outcome' = outcome
        BY <1>1, <1>3, <3>4 DEF Advance
      <4>2. IsAt(p, k + 1)'
        BY <1>1, <1>2, <1>3, <1>8, <2>1, <3>3, <4>1, OperationEnds
      <4> QED BY <1>5, <1>6, <4>1, <4>2
    <3>5. CASE Throw
      BY <1>7, <3>5 DEF Throw, Finish
    <3> QED BY <3>3, <3>4, <3>5
  <2> QED BY <2>2, <2>3
<1>11. CASE Compute
  <2>1. p[k].do = "compute" /\ UNCHANGED <<rhs_idx, lhs_idx>> /\ (Advance \/ Throw)
    BY <1>3, <1>11 DEF Compute, Doing, iface
  <2>2. CASE Advance
    <3>1. todo' = Suffix(p, k + 1) /\ pc' = "run" /\ outcome' = outcome
      BY <1>1, <1>3, <2>2 DEF Advance
    <3>2. IsAt(p, k + 1)'
      BY <1>1, <1>2, <1>3, <1>8, <2>1, <3>1, OperationEnds
    <3> QED BY <1>5, <1>6, <3>1, <3>2
  <2>3. CASE Throw
    BY <1>7, <2>3 DEF Throw, Finish
  <2> QED BY <2>1, <2>2, <2>3
<1>12. CASE WriteOutput
  <2>1. p[k].do = "output"
    BY <1>3, <1>12 DEF WriteOutput, Doing
  <2>2. CASE ~(nlhs > p[k].above)
    <3>1. todo' = Suffix(p, k + 1) /\ pc' = "run" /\ UNCHANGED <<outcome, rhs_idx, lhs_idx>>
      BY <1>1, <1>3, <1>12, <2>2 DEF WriteOutput, Wanted, Advance, iface
    <3>2. IsAt(p, k + 1)'
      BY <1>1, <1>2, <1>3, <1>8, <2>1, <3>1, OperationEnds
    <3> QED BY <1>5, <1>6, <3>1, <3>2
  <2>3. CASE nlhs > p[k].above
    <3>1. lhs_idx = 0 \/ lhs_idx < nlhs
      BY <1>2, <1>3, <1>8, <2>1, <2>3, OutputHasSlot
    <3>2. lhs_idx \in Slots(request.out)
      BY <1>5, <1>8, <3>1, SlotOf
    <3>3. lhs_idx' = lhs_idx + 1 /\ rhs_idx' = rhs_idx /\ Advance
      BY <1>3, <1>12, <2>3, <3>2 DEF WriteOutput, Wanted
    <3>4. todo' = Suffix(p, k + 1) /\ pc' = "run" /\ outcome' = outcome
      BY <1>1, <1>3, <3>3 DEF Advance
    <3>5. IsAt(p, k + 1)'
      BY <1>1, <1>2, <1>3, <1>8, <2>1, <3>3, <3>4, OperationEnds
    <3> QED BY <1>5, <1>6, <3>4, <3>5
  <2> QED BY <2>2, <2>3
<1>13. CASE Parallel
  <2>1. p[k].do = "parallel" /\ UNCHANGED <<rhs_idx, lhs_idx>> /\ (Advance \/ Finish("terminated"))
    BY <1>3, <1>13 DEF Parallel, Doing, iface
  <2>2. CASE Advance
    <3>1. todo' = Suffix(p, k + 1) /\ pc' = "run" /\ outcome' = outcome
      BY <1>1, <1>3, <2>2 DEF Advance
    <3>2. IsAt(p, k + 1)'
      BY <1>1, <1>2, <1>3, <1>8, <2>1, <3>1, OperationEnds
    <3> QED BY <1>5, <1>6, <3>1, <3>2
  <2>3. CASE Finish("terminated")
    BY <1>7, <2>3 DEF Finish
  <2> QED BY <2>1, <2>2, <2>3
<1> QED BY <1>9, <1>10, <1>11, <1>12, <1>13

\* Looking a program up.
LEMMA StartKeeps ==
  ASSUME InterfaceIsChecked, CallInv, AccessOK, Command \/ Method \/ Static
  PROVE  AccessOK'
<1>1. /\ pc \in {"command", "method", "static"} /\ rhs_idx = 0 /\ lhs_idx = 0
      /\ nlhs = request.out /\ outcome # "wild"
  BY DEF Command, Method, Static, CallInv, CursorOK, AccessOK
<1>2. UNCHANGED <<nlhs, rhs_idx, lhs_idx, module, request>>
  BY DEF Command, Method, Static, CallMethod, PopRhs, Run, Finish, call
<1>3. module \in DOMAIN Interface
  BY DEF CallInv, TypeOK
<1>4. ASSUME NEW p \in Programs(module), Run(p)
      PROVE  AccessOK'
  BY <1>1, <1>2, <1>3, <1>4, Begins DEF Run, call, AccessOK
<1>5. ASSUME NEW result \in {"ok", "error"}, Finish(result)
      PROVE  AccessOK'
  BY <1>1, <1>2, <1>5 DEF Finish, AccessOK
<1>6. ASSUME pc' = request.kind, request.kind \in {"method", "static"}, UNCHANGED outcome
      PROVE  AccessOK'
  BY <1>1, <1>2, <1>6 DEF AccessOK
<1>7. CASE Command
  <2>1. request.kind \in {"new", "method", "static", "delete"}
    BY <1>1, RequestShape DEF CallInv, TypeOK
  <2>2. CASE request.kind = "new"
    BY <1>4, <1>7, <2>2 DEF Command, Programs
  <2>3. CASE request.kind = "delete"
    BY <1>5, <1>7, <2>3 DEF Command
  <2>4. CASE request.kind \in {"method", "static"}
    BY <1>6, <1>7, <2>4 DEF Command, call
  <2> QED BY <2>1, <2>2, <2>3, <2>4
<1>8. CASE Method
  <2>1. CASE request.name \in DOMAIN Interface[module].methods
    BY <1>4, <1>8, <2>1 DEF Method, CallMethod, Programs
  <2>2. CASE request.name \notin DOMAIN Interface[module].methods
    BY <1>5, <1>8, <2>2 DEF Method, CallMethod
  <2> QED BY <2>1, <2>2
<1>9. CASE Static
  <2>1. CASE request.name \in DOMAIN Interface[module].statics
    BY <1>4, <1>9, <2>1 DEF Static, CallMethod, Programs
  <2>2. CASE request.name \notin DOMAIN Interface[module].statics
    BY <1>5, <1>9, <2>2 DEF Static, CallMethod
  <2> QED BY <2>1, <2>2
<1> QED BY <1>7, <1>8, <1>9

LEMMA AccessKeeps ==
  ASSUME InterfaceIsChecked, CallInv, AccessOK, [Next]_vars
  PROVE  AccessOK'
<1>1. CASE MexFunction
  BY <1>1 DEF MexFunction, SetArguments, AccessOK
<1>2. CASE Command \/ Method \/ Static
  BY <1>2, StartKeeps
<1>3. CASE CheckNumArgs \/ GetArg \/ Compute \/ Parallel \/ WriteOutput
  BY <1>3, BodyKeeps
<1>4. CASE MethodReturns
  BY <1>4 DEF MethodReturns, Finish, iface, AccessOK
<1>5. CASE Return \/ Restart
  BY <1>5 DEF Return, Restart, NoCommand, AccessOK
<1>6. CASE UNCHANGED vars
  BY <1>6 DEF vars, iface, call, AccessOK, IsAt, CountsAreRight, Programs
<1> QED BY <1>1, <1>2, <1>3, <1>4, <1>5, <1>6 DEF Next, Body

\* The property NoWildAccess for every interface, whatever its users pass: when the
\* checks of each program suffice for its gets and outputs, no get reads past the
\* inputs of its command and no output writes past the slots that Matlab provides.
THEOREM NoWildAccesses ==
  ASSUME InterfaceIsChecked
  PROVE  Spec => []NoWildAccess
<1>1. Init => AccessOK
  BY DEF Init, AccessOK
<1>2. CallInv /\ AccessOK /\ [Next]_vars => AccessOK'
  BY AccessKeeps
<1>3. AccessOK => NoWildAccess
  BY DEF AccessOK, NoWildAccess
<1> QED BY <1>1, <1>2, <1>3, CallInvariant, PTL DEF Spec

-----------------------------------------------------------------------------
(* What a program is given and gives, by the numbers of inputs and outputs. *)

\* The method is before the k-th operation of p: it took and wrote what was wanted of
\* the operations before, and their checks have passed.
IsIn(p, k) ==
  /\ todo = Suffix(p, k) /\ Passes(p, k, nlhs, nrhs)
  /\ rhs_idx = Cardinality(Taken(p, k, nrhs)) /\ lhs_idx = Cardinality(Written(p, k, nlhs))
  /\ slots = 0 .. lhs_idx - 1 /\ changed = Changes(p, k, nrhs)

UseOK ==
  /\ pc \in {"idle", "command", "method", "static"} => changed = {}
  /\ pc \in {"command", "method", "static"} => lhs_idx = 0 /\ slots = {}
  /\ pc # "idle" => nlhs = request.out
  /\ pc = "run" => /\ LibraryCall
                   /\ \E p \in Seq(Operations) : \E k \in 1 .. Len(p) + 1 :
                        <<request.name, p>> \in Named(module) /\ IsIn(p, k)
  /\ pc = "done" => InputsAreUsed /\ OutputsAreAssigned /\ ChangesFollowInputs

\* One more is in the set when the operation of that sort is wanted, else as many.
LEMMA TakenNext ==
  ASSUME NEW p, NEW k \in Nat \ {0}, NEW n
  PROVE  /\ IsFiniteSet(Taken(p, k, n)) /\ Cardinality(Taken(p, k, n)) \in Nat
         /\ IF p[k].do = "get" /\ n > p[k].above
            THEN /\ Taken(p, k + 1, n) = Taken(p, k, n) \cup {k}
                 /\ Cardinality(Taken(p, k + 1, n)) = Cardinality(Taken(p, k, n)) + 1
            ELSE Taken(p, k + 1, n) = Taken(p, k, n)
<1>1. IsFiniteSet(1 .. k - 1) /\ Taken(p, k, n) \subseteq 1 .. k - 1
  BY FS_Interval DEF Taken
<1>2. IsFiniteSet(Taken(p, k, n)) /\ k \notin Taken(p, k, n)
  BY <1>1, FS_Subset
<1>3. 1 .. k + 1 - 1 = (1 .. k - 1) \cup {k}
  OBVIOUS
<1>4. IF p[k].do = "get" /\ n > p[k].above
      THEN Taken(p, k + 1, n) = Taken(p, k, n) \cup {k}
      ELSE Taken(p, k + 1, n) = Taken(p, k, n)
  BY <1>3 DEF Taken
<1> QED BY <1>2, <1>4, FS_AddElement, FS_CardinalityType

LEMMA WrittenNext ==
  ASSUME NEW p, NEW k \in Nat \ {0}, NEW n
  PROVE  /\ IsFiniteSet(Written(p, k, n)) /\ Cardinality(Written(p, k, n)) \in Nat
         /\ IF p[k].do = "output" /\ n > p[k].above
            THEN Cardinality(Written(p, k + 1, n)) = Cardinality(Written(p, k, n)) + 1
            ELSE Written(p, k + 1, n) = Written(p, k, n)
<1>1. IsFiniteSet(1 .. k - 1) /\ Written(p, k, n) \subseteq 1 .. k - 1
  BY FS_Interval DEF Written
<1>2. IsFiniteSet(Written(p, k, n)) /\ k \notin Written(p, k, n)
  BY <1>1, FS_Subset
<1>3. 1 .. k + 1 - 1 = (1 .. k - 1) \cup {k}
  OBVIOUS
<1>4. IF p[k].do = "output" /\ n > p[k].above
      THEN Written(p, k + 1, n) = Written(p, k, n) \cup {k}
      ELSE Written(p, k + 1, n) = Written(p, k, n)
  BY <1>3 DEF Written
<1> QED BY <1>2, <1>4, FS_AddElement, FS_CardinalityType

LEMMA ChangesNext ==
  ASSUME NEW p, NEW k \in Nat \ {0}, NEW n
  PROVE  Changes(p, k + 1, n) = IF p[k].do = "get" /\ n > p[k].above
                                THEN Changes(p, k, n) \cup p[k].into
                                ELSE Changes(p, k, n)
  BY TakenNext DEF Changes

\* Nothing is before the first operation.
LEMMA NothingFirst ==
  ASSUME NEW p, NEW n
  PROVE  /\ Taken(p, 1, n) = {} /\ Written(p, 1, n) = {} /\ Changes(p, 1, n) = {}
         /\ Cardinality({}) = 0 /\ \A out, in : Passes(p, 1, out, in)
<1>1. 1 .. 1 - 1 = {}
  OBVIOUS
<1>2. Taken(p, 1, n) = {} /\ Written(p, 1, n) = {} /\ \A out, in : Passes(p, 1, out, in)
  BY <1>1 DEF Taken, Written, Passes
<1> QED BY <1>2, FS_EmptySet DEF Changes

LEMMA SuffixEmpty ==
  ASSUME NEW p \in Seq(Operations), NEW k \in 1 .. Len(p) + 1, Suffix(p, k) = <<>>
  PROVE  k = Len(p) + 1
<1>1. Len(Suffix(p, k)) = IF k <= Len(p) THEN Len(p) - k + 1 ELSE 0
  <2>1. k \in Int /\ Len(p) \in Int /\ \A i \in k .. Len(p) : p[i] \in Operations
    BY ElementOfSeq
  <2> QED BY <2>1, SubSeqProperties DEF Suffix
<1>2. Len(<<>>) = 0
  OBVIOUS
<1> QED BY <1>1, <1>2

\* What Matlab passes is longer than what the user passes by the words of the command.
LEMMA RhsIsLonger ==
  ASSUME NEW r \in Requests
  PROVE  Len(Rhs(r)) = Len(Prefix(r.kind)) + Len(r.in)
<1>1. Prefix(r.kind) \in Seq({"char", "handle"} \cup Kinds)
  <2>1. \A x, y \in {"char", "handle"} :
          <<x>> \in Seq({"char", "handle"} \cup Kinds) /\ <<x, y>> \in Seq({"char", "handle"} \cup Kinds)
    OBVIOUS
  <2> QED BY <2>1, RequestShape DEF Prefix
<1>2. r.in \in Seq({"char", "handle"} \cup Kinds)
  BY RequestShape
<1> QED BY <1>1, <1>2 DEF Rhs

LEMMA NumbersOfCheck ==
  ASSUME NEW p \in Seq(Operations), NEW k \in 1 .. Len(p), p[k].do = "check"
  PROVE  p[k].minOut \in Int /\ p[k].maxOut \in Int /\ p[k].minIn \in Int /\ p[k].maxIn \in Int
<1>1. p[k] \in Operations
  BY ElementOfSeq
<1> QED BY <1>1 DEF Operations

\* Where a running method is, and what its counts are.
LEMMA Place ==
  ASSUME InterfaceIsComplete, CallInv, UseOK, pc = "run"
  PROVE  \E p \in Seq(Operations) : \E k \in 1 .. Len(p) + 1 :
           <<request.name, p>> \in Named(module) /\ IsIn(p, k)
  BY DEF UseOK

LEMMA Counts ==
  ASSUME CallInv, UseOK, pc = "run"
  PROVE  /\ nrhs = UserInputs /\ nrhs \in 0 .. MaxIn
         /\ nlhs = request.out /\ nlhs \in 0 .. MaxOut
         /\ rhs_idx = Len(used)
<1>1. request \in Requests /\ popped + nrhs = Len(Rhs(request)) /\ nrhs \in 0 .. MaxIn + 2
      /\ popped = Len(Prefix(request.kind)) /\ rhs_idx = Len(used) /\ nlhs \in 0 .. MaxOut
      /\ nlhs = request.out
  BY DEF CallInv, TypeOK, CursorOK, UseOK
<1>2. Len(Rhs(request)) = Len(Prefix(request.kind)) + Len(request.in)
  BY <1>1, RhsIsLonger
<1>3. Len(request.in) \in 0 .. MaxIn
  BY <1>1, RequestShape
<1>4. popped \in Nat /\ nrhs \in Nat /\ MaxIn \in Nat
  BY Members, InputsAssumption
<1>5. nrhs = Len(request.in)
  <2>1. popped + nrhs = popped + Len(request.in)
    BY <1>1, <1>2
  <2> QED BY <1>3, <1>4, <2>1
<1> QED BY <1>1, <1>3, <1>5 DEF UserInputs

\* What the tables promise of a program at that place.
LEMMA PromisedChanges ==
  ASSUME InterfaceIsComplete, CallInv, UseOK, pc = "run",
         NEW p \in Seq(Operations), NEW k \in 1 .. Len(p) + 1,
         <<request.name, p>> \in Named(module), IsIn(p, k), changed # {}
  PROVE  /\ request.name \in {"add", "inc"}
         /\ \E n \in 1 .. UserInputs : n <= 3 /\ changed = FirstParts(n)
         /\ k = Len(p) + 1 => changed = FirstParts(UserInputs)
<1>1. AddsInOrder(request.name, p)
  BY DEF InterfaceIsComplete, CallInv, TypeOK
<1>2. Passes(p, k, nlhs, nrhs) /\ changed = Changes(p, k, nrhs)
  BY DEF IsIn
<1> QED BY <1>1, <1>2, Counts DEF AddsInOrder

\* A step of the body leads to the next place of the program or to the end of the
\* command; before its end a command has changed what its program promises.
LEMMA MovesOn ==
  ASSUME UseOK, pc = "run", pc' = "run", UNCHANGED <<module, request, nlhs>>,
         NEW p \in Seq(Operations), NEW k \in 1 .. Len(p) + 1,
         <<request.name, p>> \in Named(module), IsIn(p, k)'
  PROVE  UseOK'
<1>1. <<request.name, p>> \in Named(module')
  BY DEF Named
<1>2. nlhs' = request'.out /\ LibraryCall'
  BY DEF UseOK, LibraryCall
<1> QED BY <1>1, <1>2 DEF UseOK

LEMMA Fails ==
  ASSUME InterfaceIsComplete, CallInv, UseOK, pc = "run", pc' = "done", outcome' # "ok",
         UNCHANGED <<module, request, nlhs, changed>>
  PROVE  UseOK'
<1>1. changed # {} =>
        /\ request.name \in {"add", "inc"}
        /\ \E n \in 1 .. UserInputs : n <= 3 /\ changed = FirstParts(n)
  BY Place, PromisedChanges
<1>2. nlhs' = request'.out
  BY DEF UseOK
<1>3. ~Returned' /\ UserInputs' = UserInputs
  BY DEF Returned, UserInputs
<1> QED BY <1>1, <1>2, <1>3 DEF UseOK, InputsAreUsed, OutputsAreAssigned, ChangesFollowInputs

LEMMA Succeeds == ASSUME InterfaceIsComplete, CallInv, UseOK, MethodReturns PROVE UseOK'
<1>1. /\ pc = "run" /\ todo = <<>> /\ pc' = "done"
      /\ UNCHANGED <<module, request, iface, slots, used, changed>>
  BY DEF MethodReturns, Finish
<1>2. PICK p \in Seq(Operations) : \E k \in 1 .. Len(p) + 1 :
        <<request.name, p>> \in Named(module) /\ IsIn(p, k)
  BY <1>1, Place
<1> PICK k \in 1 .. Len(p) + 1 : <<request.name, p>> \in Named(module) /\ IsIn(p, k)
  BY <1>2
<1>3. k = Len(p) + 1
  <2>1. Suffix(p, k) = <<>>
    BY <1>1 DEF IsIn
  <2> QED BY <2>1, SuffixEmpty
<1>4. /\ nrhs = UserInputs /\ nrhs \in 0 .. MaxIn /\ nlhs = request.out /\ nlhs \in 0 .. MaxOut
      /\ rhs_idx = Len(used)
  BY <1>1, Counts
<1>5. /\ request.name \notin {"svd", "getStats"} => UsesInputs(p)
      /\ request.name # "getStats" => FillsOutputs(p)
  BY DEF InterfaceIsComplete, CallInv, TypeOK
<1>6. Passes(p, Len(p) + 1, nlhs, nrhs)
  BY <1>3 DEF IsIn
<1>7. InputsAreUsed'
  <2>1. request.name \notin {"svd", "getStats"} => Len(used) = UserInputs
    BY <1>3, <1>4, <1>5, <1>6 DEF UsesInputs, IsIn
  <2> QED BY <1>1, <2>1 DEF InputsAreUsed, UserInputs
<1>8. OutputsAreAssigned'
  <2>1. request.name # "getStats" => request.out <= lhs_idx
    BY <1>3, <1>4, <1>5, <1>6 DEF FillsOutputs, IsIn
  <2>2. lhs_idx \in Nat /\ request.out \in Nat /\ slots = 0 .. lhs_idx - 1
    BY <1>4, InputsAssumption DEF IsIn, CallInv, TypeOK
  <2>3. request.name # "getStats" => \A j \in 0 .. request.out - 1 : j \in slots
    BY <2>1, <2>2
  <2> QED BY <1>1, <2>3 DEF OutputsAreAssigned
<1>9. ChangesFollowInputs'
  <2>1. changed # {} =>
          /\ request.name \in {"add", "inc"}
          /\ \E n \in 1 .. UserInputs : n <= 3 /\ changed = FirstParts(n)
          /\ changed = FirstParts(UserInputs)
    BY <1>1, <1>3, PromisedChanges
  <2> QED BY <1>1, <2>1 DEF ChangesFollowInputs, UserInputs
<1>10. nlhs' = request'.out
  BY <1>1, <1>4 DEF iface
<1> QED BY <1>1, <1>7, <1>8, <1>9, <1>10 DEF UseOK

\* The operation at the head of todo.
LEMMA BodyUses ==
  ASSUME InterfaceIsComplete, CallInv, UseOK,
         CheckNumArgs \/ GetArg \/ Compute \/ Parallel \/ WriteOutput
  PROVE  UseOK'
<1>1. pc = "run" /\ todo # <<>> /\ UNCHANGED <<nlhs, nrhs, request, module>>
  BY DEF CheckNumArgs, GetArg, Compute, Parallel, WriteOutput, Doing, Advance, Throw, Finish, iface
<1>2. PICK p \in Seq(Operations) : \E k \in 1 .. Len(p) + 1 :
        <<request.name, p>> \in Named(module) /\ IsIn(p, k)
  BY <1>1, Place
<1> PICK k \in 1 .. Len(p) + 1 : <<request.name, p>> \in Named(module) /\ IsIn(p, k)
  BY <1>2
<1>3. /\ k \in 1 .. Len(p) /\ k + 1 \in 1 .. Len(p) + 1 /\ k \in Nat \ {0}
      /\ Head(todo) = p[k] /\ Tail(todo) = Suffix(p, k + 1)
  <2>1. todo = Suffix(p, k)
    BY DEF IsIn
  <2>2. /\ k \in 1 .. Len(p) /\ k + 1 \in 1 .. Len(p) + 1
        /\ Head(todo) = p[k] /\ Tail(todo) = Suffix(p, k + 1)
    BY <1>1, <2>1, SuffixFacts
  <2>3. k \in Nat \ {0}
    OBVIOUS
  <2> QED BY <2>2, <2>3
<1>4. ASSUME IsIn(p, k + 1)', pc' = "run"
      PROVE  UseOK'
  BY <1>1, <1>2, <1>3, <1>4, MovesOn
<1>5. ASSUME pc' = "done", outcome' # "ok", changed' = changed
      PROVE  UseOK'
  BY <1>1, <1>5, Fails
<1>6. ASSUME p[k].do = "check" => CountsAreRight(p[k])
      PROVE  Passes(p, k + 1, nlhs, nrhs)
  <2>1. \A j \in 1 .. k + 1 - 1 : j \in 1 .. k - 1 \/ j = k
    BY <1>3
  <2>2. p[k].do = "check" => /\ p[k].minOut <= nlhs /\ nlhs <= p[k].maxOut
                             /\ p[k].minIn <= nrhs /\ nrhs <= p[k].maxIn
    BY <1>3, <1>6, <1>1, NumbersOfCheck, Members DEF CountsAreRight
  <2> QED BY <2>1, <2>2 DEF IsIn, Passes
<1>7. CASE CheckNumArgs
  <2>1. p[k].do = "check" /\ UNCHANGED <<rhs_idx, lhs_idx, slots, changed>>
    BY <1>3, <1>7 DEF CheckNumArgs, Doing, iface
  <2>2. CASE CountsAreRight(p[k])
    <3>1. todo' = Suffix(p, k + 1) /\ pc' = "run"
      BY <1>1, <1>3, <1>7, <2>2 DEF CheckNumArgs, Advance
    <3>2. IsIn(p, k + 1)'
      BY <1>1, <1>3, <1>6, <2>1, <2>2, <3>1, TakenNext, WrittenNext, ChangesNext DEF IsIn
    <3> QED BY <1>4, <3>1, <3>2
  <2>3. CASE ~CountsAreRight(p[k])
    BY <1>3, <1>5, <1>7, <2>3 DEF CheckNumArgs, Throw, Finish
  <2> QED BY <2>2, <2>3
<1>8. CASE GetArg
  <2>1. p[k].do = "get" /\ UNCHANGED <<lhs_idx, slots>>
    BY <1>3, <1>8 DEF GetArg, Doing, iface
  <2>2. CASE ~(nrhs > p[k].above)
    <3>1. todo' = Suffix(p, k + 1) /\ pc' = "run" /\ UNCHANGED <<rhs_idx, changed>>
      BY <1>1, <1>3, <1>8, <2>2 DEF GetArg, Given, Advance, iface
    <3>2. IsIn(p, k + 1)'
      BY <1>1, <1>3, <1>6, <2>1, <2>2, <3>1, TakenNext, WrittenNext, ChangesNext DEF IsIn
    <3> QED BY <1>4, <3>1, <3>2
  <2>3. CASE nrhs > p[k].above
    <3>1. rhs_idx' = rhs_idx + 1 /\ \/ Advance /\ changed' = changed \cup p[k].into
                                    \/ Throw /\ UNCHANGED changed
                                    \/ Finish("wild") /\ UNCHANGED changed
      BY <1>3, <1>8, <2>3 DEF GetArg, Given
    <3>2. CASE Advance /\ changed' = changed \cup p[k].into
      <4>1. todo' = Suffix(p, k + 1) /\ pc' = "run"
        BY <1>1, <1>3, <3>2 DEF Advance
      <4>2. IsIn(p, k + 1)'
        BY <1>1, <1>3, <1>6, <2>1, <2>3, <3>1, <3>2, <4>1, TakenNext, WrittenNext, ChangesNext DEF IsIn
      <4> QED BY <1>4, <4>1, <4>2
    <3>3. CASE (Throw \/ Finish("wild")) /\ UNCHANGED changed
      BY <1>5, <3>3 DEF Throw, Finish
    <3> QED BY <3>1, <3>2, <3>3
  <2> QED BY <2>2, <2>3
<1>9. CASE Compute
  <2>1. p[k].do = "compute" /\ UNCHANGED <<rhs_idx, lhs_idx, slots, changed>> /\ (Advance \/ Throw)
    BY <1>3, <1>9 DEF Compute, Doing, iface
  <2>2. CASE Advance
    <3>1. todo' = Suffix(p, k + 1) /\ pc' = "run"
      BY <1>1, <1>3, <2>2 DEF Advance
    <3>2. IsIn(p, k + 1)'
      BY <1>1, <1>3, <1>6, <2>1, <3>1, TakenNext, WrittenNext, ChangesNext DEF IsIn
    <3> QED BY <1>4, <3>1, <3>2
  <2>3. CASE Throw
    BY <1>5, <2>1, <2>3 DEF Throw, Finish
  <2> QED BY <2>1, <2>2, <2>3
<1>10. CASE WriteOutput
  <2>1. p[k].do = "output" /\ UNCHANGED <<rhs_idx, changed>>
    BY <1>3, <1>10 DEF WriteOutput, Doing, iface
  <2>2. CASE ~(nlhs > p[k].above)
    <3>1. todo' = Suffix(p, k + 1) /\ pc' = "run" /\ UNCHANGED <<lhs_idx, slots>>
      BY <1>1, <1>3, <1>10, <2>2 DEF WriteOutput, Wanted, Advance, iface
    <3>2. IsIn(p, k + 1)'
      BY <1>1, <1>3, <1>6, <2>1, <2>2, <3>1, TakenNext, WrittenNext, ChangesNext DEF IsIn
    <3> QED BY <1>4, <3>1, <3>2
  <2>3. CASE nlhs > p[k].above
    <3>1. lhs_idx' = lhs_idx + 1 /\ \/ Advance /\ slots' = slots \cup {lhs_idx}
                                    \/ Finish("wild")
      BY <1>3, <1>10, <2>3 DEF WriteOutput, Wanted
    <3>2. CASE Advance /\ slots' = slots \cup {lhs_idx}
      <4>1. todo' = Suffix(p, k + 1) /\ pc' = "run"
        BY <1>1, <1>3, <3>2 DEF Advance
      <4>2. slots' = 0 .. lhs_idx' - 1
        BY <1>1, <3>1, <3>2, Members, SMTT(20) DEF IsIn
      <4>3. IsIn(p, k + 1)'
        BY <1>1, <1>3, <1>6, <2>1, <2>3, <3>1, <4>1, <4>2, TakenNext, WrittenNext, ChangesNext DEF IsIn
      <4> QED BY <1>4, <4>1, <4>3
    <3>3. CASE Finish("wild")
      BY <1>5, <2>1, <3>3 DEF Finish
    <3> QED BY <3>1, <3>2, <3>3
  <2> QED BY <2>2, <2>3
<1>11. CASE Parallel
  <2>1. p[k].do = "parallel" /\ UNCHANGED <<rhs_idx, lhs_idx, slots, changed>>
        /\ (Advance \/ Finish("terminated"))
    BY <1>3, <1>11 DEF Parallel, Doing, iface
  <2>2. CASE Advance
    <3>1. todo' = Suffix(p, k + 1) /\ pc' = "run"
      BY <1>1, <1>3, <2>2 DEF Advance
    <3>2. IsIn(p, k + 1)'
      BY <1>1, <1>3, <1>6, <2>1, <3>1, TakenNext, WrittenNext, ChangesNext DEF IsIn
    <3> QED BY <1>4, <3>1, <3>2
  <2>3. CASE Finish("terminated")
    BY <1>5, <2>1, <2>3 DEF Finish
  <2> QED BY <2>1, <2>2, <2>3
<1> QED BY <1>7, <1>8, <1>9, <1>10, <1>11

\* Looking a program up.
LEMMA StartUses ==
  ASSUME InterfaceIsComplete, CallInv, UseOK, Command \/ Method \/ Static
  PROVE  UseOK'
<1>1. /\ pc \in {"command", "method", "static"} /\ rhs_idx = 0 /\ lhs_idx = 0
      /\ nlhs = request.out /\ slots = {} /\ changed = {} /\ used = <<>>
      /\ request.kind \in {"new", "method", "static", "delete"}
      /\ request.kind = "new" => request.name = "@new"
      /\ pc # "command" => request.kind = pc
  <2>1. pc \in {"command", "method", "static"} /\ request \in Requests
    BY DEF Command, Method, Static, CallInv, TypeOK
  <2>2. /\ request.kind \in {"new", "method", "static", "delete"}
        /\ request.kind = "new" => request.name = "@new"
    BY <2>1 DEF Requests
  <2> QED BY <2>1, <2>2 DEF CallInv, CursorOK, UseOK
<1>2. UNCHANGED <<nlhs, rhs_idx, lhs_idx, module, request, slots, changed>>
  BY DEF Command, Method, Static, CallMethod, PopRhs, Run, Finish, call
<1>3. module \in DOMAIN Interface
  BY DEF CallInv, TypeOK
<1>4. ASSUME NEW p, <<request.name, p>> \in Named(module), Run(p),
             request.kind \in {"new", "method", "static"}
      PROVE  UseOK'
  <2>1. p \in Seq(Operations)
    BY <1>3, <1>4 DEF InterfaceIsComplete
  <2>2. 1 \in 1 .. Len(p) + 1 /\ <<request.name, p>> \in Named(module') /\ Suffix(p, 1) = p
    BY <1>2, <1>4, <2>1, SuffixAll DEF Named
  <2>3. IsIn(p, 1)'
    <3>1. todo' = Suffix(p, 1) /\ rhs_idx' = 0 /\ lhs_idx' = 0 /\ slots' = {} /\ changed' = {}
      BY <1>1, <1>2, <1>4, <2>2 DEF Run
    <3>2. Passes(p, 1, nlhs', nrhs') /\ Changes(p, 1, nrhs') = {}
      BY NothingFirst
    <3>3. Cardinality(Taken(p, 1, nrhs')) = 0 /\ Cardinality(Written(p, 1, nlhs')) = 0
      BY NothingFirst
    <3>4. 0 .. 0 - 1 = {}
      OBVIOUS
    <3> QED BY <3>1, <3>2, <3>3, <3>4 DEF IsIn
  <2> QED BY <1>1, <1>2, <1>4, <2>1, <2>2, <2>3 DEF Run, call, UseOK, LibraryCall
<1>5. ASSUME NEW result \in {"ok", "error"}, Finish(result), result = "ok" => request.kind = "delete"
      PROVE  UseOK'
  <2>1. ~(Returned' /\ LibraryCall') /\ changed' = {}
    BY <1>1, <1>2, <1>5 DEF Finish, Returned, LibraryCall
  <2> QED BY <1>1, <1>2, <1>5, <2>1
          DEF Finish, UseOK, InputsAreUsed, OutputsAreAssigned, ChangesFollowInputs
<1>6. ASSUME pc' = request.kind, request.kind \in {"method", "static"}
      PROVE  UseOK'
  BY <1>1, <1>2, <1>6 DEF UseOK
<1>7. CASE Command
  <2>1. CASE request.kind = "new"
    BY <1>1, <1>4, <1>7, <2>1 DEF Command, Named
  <2>2. CASE request.kind = "delete"
    BY <1>5, <1>7, <2>2 DEF Command
  <2>3. CASE request.kind \in {"method", "static"}
    BY <1>6, <1>7, <2>3 DEF Command
  <2> QED BY <1>1, <2>1, <2>2, <2>3
<1>8. CASE Method
  <2>1. pc = "method" /\ request.kind = "method"
    BY <1>1, <1>8 DEF Method
  <2>2. CASE request.name \in DOMAIN Interface[module].methods
    BY <1>4, <1>8, <2>1, <2>2 DEF Method, CallMethod, Named
  <2>3. CASE request.name \notin DOMAIN Interface[module].methods
    BY <1>5, <1>8, <2>3 DEF Method, CallMethod
  <2> QED BY <2>2, <2>3
<1>9. CASE Static
  <2>1. pc = "static" /\ request.kind = "static"
    BY <1>1, <1>9 DEF Static
  <2>2. CASE request.name \in DOMAIN Interface[module].statics
    BY <1>4, <1>9, <2>1, <2>2 DEF Static, CallMethod, Named
  <2>3. CASE request.name \notin DOMAIN Interface[module].statics
    BY <1>5, <1>9, <2>3 DEF Static, CallMethod
  <2> QED BY <2>2, <2>3
<1> QED BY <1>7, <1>8, <1>9

LEMMA UseKeeps ==
  ASSUME InterfaceIsComplete, CallInv, UseOK, [Next]_vars
  PROVE  UseOK'
<1>1. CASE MexFunction
  BY <1>1 DEF MexFunction, SetArguments, UseOK, CallInv, CursorOK
<1>2. CASE Command \/ Method \/ Static
  BY <1>2, StartUses
<1>3. CASE CheckNumArgs \/ GetArg \/ Compute \/ Parallel \/ WriteOutput
  BY <1>3, BodyUses
<1>4. CASE MethodReturns
  BY <1>4, Succeeds
<1>5. CASE Return \/ Restart
  BY <1>5 DEF Return, Restart, NoCommand, UseOK
<1>6. CASE UNCHANGED vars
  BY <1>6 DEF vars, iface, call, UseOK, IsIn, LibraryCall, Named, InputsAreUsed, OutputsAreAssigned,
              ChangesFollowInputs, Returned, UserInputs
<1> QED BY <1>1, <1>2, <1>3, <1>4, <1>5, <1>6 DEF Next, Body

LEMMA UseHolds ==
  ASSUME InterfaceIsComplete, CallInv, UseOK
  PROVE  InputsAreUsed /\ OutputsAreAssigned /\ ChangesFollowInputs
<1>1. CASE pc = "done"
  BY <1>1 DEF UseOK
<1>2. CASE pc = "run"
  BY <1>2, Place, PromisedChanges DEF InputsAreUsed, OutputsAreAssigned, ChangesFollowInputs, Returned
<1>3. CASE pc \in {"idle", "command", "method", "static"}
  BY <1>3 DEF UseOK, InputsAreUsed, OutputsAreAssigned, ChangesFollowInputs, Returned
<1> QED BY <1>1, <1>2, <1>3 DEF CallInv, TypeOK

LEMMA UseInvariant ==
  ASSUME InterfaceIsComplete
  PROVE  Spec => [](InputsAreUsed /\ OutputsAreAssigned /\ ChangesFollowInputs)
<1>1. Init => UseOK
  BY DEF Init, UseOK
<1>2. CallInv /\ UseOK /\ [Next]_vars => UseOK'
  BY UseKeeps
<1>3. CallInv /\ UseOK => InputsAreUsed /\ OutputsAreAssigned /\ ChangesFollowInputs
  BY UseHolds
<1> QED BY <1>1, <1>2, <1>3, CallInvariant, PTL DEF Spec

\* For every interface whose programs take all the inputs that their checks let in, a
\* method that returns has read each input of its user: the cursor of the getters and
\* the count of checkNumArgs agree although nothing in MexIFace.h compares them.
THEOREM InputsAllUsed ==
  ASSUME InterfaceIsComplete
  PROVE  Spec => []InputsAreUsed
  BY UseInvariant, PTL

\* Likewise a method that returns has written every output that Matlab waits for.
THEOREM OutputsAllAssigned ==
  ASSUME InterfaceIsComplete
  PROVE  Spec => []OutputsAreAssigned
  BY UseInvariant, PTL

\* An add that ends at any point, by a refused argument or a size that does not fit, has
\* changed the first parts of its object and no others.
THEOREM ChangesInOrder ==
  ASSUME InterfaceIsComplete
  PROVE  Spec => []ChangesFollowInputs
  BY UseInvariant, PTL
=============================================================================
