------------------------------- MODULE MexCall -------------------------------
(***************************************************************************)
(* One command of a MEX module seen from its argument arrays: MexIFace.h   *)
(* keeps two arrays, their lengths and a cursor into each as members of    *)
(* the global iface, and every check, get and output works through them.   *)
(*                                                                         *)
(* An interface is a table of programs: which checks, gets and outputs a   *)
(* method performs, in their order.  The commands are those that           *)
(* MexIFaceMixin sends, on an open object.                                 *)
(***************************************************************************)
EXTENDS Integers, Sequences, FiniteSets, TLC

CONSTANTS
  Interface,   \* module -> [construct, methods, statics]: its programs by name
  Inputs,      \* the lists of inputs, as their kinds, that users pass
  MaxIn,       \* length of the longest of them (bound)
  MaxOut       \* most outputs a user asks for (bound)

VARIABLES
  module,                               \* the module under test
  nlhs, nrhs, popped, rhs_idx, lhs_idx, \* members of iface; popped: how far rhs has moved
  pc, todo,                             \* where the command is, what its method still does
  request, slots, used, changed, outcome  \* of this command: what was asked, the outputs
                                        \* written, the inputs read, the parts changed

iface == <<nlhs, nrhs, popped, rhs_idx, lhs_idx>>
call  == <<request, slots, used, changed, outcome>>
vars  == <<module, iface, pc, todo, call>>

\* Numeric arrays go by their least rank; every class but double is "cellstr" here.
Kinds == {"vec", "mat", "cube", "cellstr"}

\* The kinds that getVec, getMat, getCube and getStringArray accept.
Accepts == [vec     |-> {"vec"},
            mat     |-> {"vec", "mat"},
            cube    |-> {"vec", "mat", "cube"},
            cellstr |-> {"cellstr"}]

ASSUME InputsAssumption ==
  /\ MaxIn \in Nat /\ MaxOut \in Nat \ {0}
  /\ Inputs \subseteq Seq(Kinds) /\ \A in \in Inputs : Len(in) <= MaxIn

(* The operations a program is made of. *)
Exactly(out, in) == [do |-> "check", minOut |-> out, minIn |-> in, maxOut |-> out, maxIn |-> in]
AtLeast(out, in) == [do |-> "check", minOut |-> out, minIn |-> in,
                     maxOut |-> MaxOut, maxIn |-> MaxIn]
AtMost(out, in)  == [do |-> "check", minOut |-> 0, minIn |-> 0, maxOut |-> out, maxIn |-> in]
GetMore(n, kind, into) == [do |-> "get", above |-> n, kind |-> kind, into |-> into]
Get(kind)     == GetMore(-1, kind, {})
OutputMore(n) == [do |-> "output", above |-> n]
Output        == OutputMore(-1)
MayThrow      == [do |-> "compute"]
InParallel    == [do |-> "parallel"]

-----------------------------------------------------------------------------
(* What Matlab passes: the command, what goes with it, then the user's own. *)

Prefix(kind) == CASE kind = "new"    -> <<"char">>
                  [] kind = "method" -> <<"char", "handle">>
                  [] kind = "delete" -> <<"char", "handle">>
                  [] kind = "static" -> <<"char", "char">>

Rhs(r) == Prefix(r.kind) \o r.in

NoRequest == [kind |-> "none", name |-> "", in |-> <<>>, out |-> 0]

Requests ==
  LET i == Interface[module]
      ask(kind, names, outs) ==
        [kind : {kind}, name : names, in : Inputs, out : outs]
  IN  ask("new", {"@new"}, {1})
      \cup ask("method", DOMAIN i.methods \cup {"unknown"}, 0 .. MaxOut)
      \cup ask("static", DOMAIN i.statics \cup {"unknown"}, 0 .. MaxOut)
      \cup [kind : {"delete"}, name : {"@delete"}, in : {<<>>}, out : {0}]

\* Matlab always provides one output slot.
Slots(out) == 0 .. (IF out = 0 THEN 0 ELSE out - 1)

-----------------------------------------------------------------------------
Init ==
  /\ module \in DOMAIN Interface
  /\ nlhs = 0 /\ nrhs = 0 /\ popped = 0 /\ rhs_idx = 0 /\ lhs_idx = 0
  /\ pc = "idle" /\ todo = <<>>
  /\ request = NoRequest /\ slots = {} /\ used = <<>> /\ changed = {} /\ outcome = "none"

Finish(result) ==
  /\ pc' = "done" /\ todo' = <<>> /\ outcome' = result
  /\ UNCHANGED <<module, request>>

\* callMethod reports what a method throws; a constructor has no such caller.
Throw == Finish(IF request.kind = "new" THEN "escaped" ELSE "error")

SetArguments_KeepsCursor(r) ==    \* mutant: the read cursor is not reset
  /\ nlhs' = r.out /\ nrhs' = Len(Rhs(r)) /\ popped' = 0
  /\ lhs_idx' = 0
  /\ UNCHANGED rhs_idx

SetArguments(r) ==
  /\ nlhs' = r.out /\ nrhs' = Len(Rhs(r)) /\ popped' = 0
  /\ rhs_idx' = 0 /\ lhs_idx' = 0

MexFunction ==
  /\ pc = "idle"
  /\ \E r \in Requests : request' = r /\ SetArguments(r)
  /\ pc' = "command"
  /\ UNCHANGED <<module, todo, slots, used, changed, outcome>>

PopRhs_KeepsCount ==   \* mutant: nrhs still counts the argument
  /\ popped' = popped + 1
  /\ UNCHANGED <<nlhs, nrhs, rhs_idx, lhs_idx>>

PopRhs ==
  /\ nrhs' = nrhs - 1 /\ popped' = popped + 1
  /\ UNCHANGED <<nlhs, rhs_idx, lhs_idx>>

Run(program) == pc' = "run" /\ todo' = program /\ UNCHANGED <<module, call>>

\* The command name is rhs[0] and is popped whatever it is.
Command ==
  /\ pc = "command"
  /\ PopRhs
  /\ CASE request.kind = "new"    -> Run(Interface[module].construct)
       [] request.kind = "delete" -> Finish("ok") /\ UNCHANGED <<slots, used, changed>>
       [] OTHER -> pc' = request.kind /\ UNCHANGED <<module, todo, call>>

CallMethod(table) ==
  IF request.name \in DOMAIN table
    THEN Run(table[request.name])
    ELSE Finish("error") /\ UNCHANGED <<slots, used, changed>>

Method == pc = "method" /\ PopRhs /\ CallMethod(Interface[module].methods)
Static == pc = "static" /\ PopRhs /\ CallMethod(Interface[module].statics)

-----------------------------------------------------------------------------
(* The body of a method: the operation at the head of todo. *)

Doing(what) == pc = "run" /\ todo # <<>> /\ Head(todo).do = what

Advance == todo' = Tail(todo) /\ UNCHANGED <<module, pc, request, outcome>>

CountsAreRight_NoMaxIn(op) ==    \* mutant: too many inputs are let through
  nlhs >= op.minOut /\ nrhs >= op.minIn /\ nlhs <= op.maxOut

CountsAreRight_NoMaxOut(op) ==   \* mutant: too many outputs are let through
  nlhs >= op.minOut /\ nrhs >= op.minIn /\ nrhs <= op.maxIn

CountsAreRight(op) ==
  /\ nlhs >= op.minOut /\ nlhs <= op.maxOut
  /\ nrhs >= op.minIn /\ nrhs <= op.maxIn

CheckNumArgs ==
  /\ Doing("check")
  /\ IF CountsAreRight(Head(todo)) THEN Advance ELSE Throw
  /\ UNCHANGED <<iface, slots, used, changed>>

Given_OffByOne(op) == nrhs > op.above + 1   \* mutant: the last input is left alone

Given(op) == nrhs > op.above

\* rhs[rhs_idx++], its checks, and what the object does with it.
GetArg ==
  /\ Doing("get")
  /\ LET op == Head(todo)
         at == popped + rhs_idx + 1
     IN  IF ~Given(op) THEN Advance /\ UNCHANGED <<iface, slots, used, changed>>
         ELSE /\ rhs_idx' = rhs_idx + 1
              /\ used' = Append(used, at)
              /\ UNCHANGED <<nlhs, nrhs, popped, lhs_idx, slots>>
              /\ IF at > Len(Rhs(request)) THEN Finish("wild") /\ UNCHANGED changed
                 ELSE \/ /\ Rhs(request)[at] \in Accepts[op.kind]
                         /\ Advance /\ changed' = changed \cup op.into
                      \/ \* refused by class, by rank, or by the size of what it is added to
                         /\ Rhs(request)[at] \notin Accepts[op.kind] \/ op.into # {}
                         /\ Throw /\ UNCHANGED changed

Compute ==
  /\ Doing("compute")
  /\ Advance \/ Throw
  /\ UNCHANGED <<iface, slots, used, changed>>

\* An exception cannot leave an OpenMP region: std::terminate ends Matlab.
Parallel ==
  /\ Doing("parallel")
  /\ Advance \/ Finish("terminated")
  /\ UNCHANGED <<iface, slots, used, changed>>

Wanted_OffByOne(op) == nlhs >= op.above   \* mutant

Wanted(op) == nlhs > op.above

\* lhs[lhs_idx++] = m.
WriteOutput ==
  /\ Doing("output")
  /\ UNCHANGED <<used, changed>>
  /\ IF ~Wanted(Head(todo)) THEN Advance /\ UNCHANGED <<iface, slots>>
     ELSE /\ lhs_idx' = lhs_idx + 1
          /\ UNCHANGED <<nlhs, nrhs, popped, rhs_idx>>
          /\ IF lhs_idx \in Slots(request.out)
               THEN Advance /\ slots' = slots \cup {lhs_idx}
               ELSE Finish("wild") /\ UNCHANGED slots

MethodReturns ==
  /\ pc = "run" /\ todo = <<>>
  /\ Finish("ok") /\ UNCHANGED <<iface, slots, used, changed>>

NoCommand ==
  /\ pc' = "idle" /\ request' = NoRequest
  /\ slots' = {} /\ used' = <<>> /\ changed' = {} /\ outcome' = "none"
  /\ UNCHANGED <<module, todo>>

\* Matlab takes the outputs; the members of iface stay as they are.
Return == pc = "done" /\ outcome # "terminated" /\ NoCommand /\ UNCHANGED iface

\* The user starts Matlab again, which loads the module again.
Restart ==
  /\ pc = "done" /\ outcome = "terminated" /\ NoCommand
  /\ nlhs' = 0 /\ nrhs' = 0 /\ popped' = 0 /\ rhs_idx' = 0 /\ lhs_idx' = 0

Body == CheckNumArgs \/ GetArg \/ Compute \/ Parallel \/ WriteOutput \/ MethodReturns

Next == MexFunction \/ Command \/ Method \/ Static \/ Body \/ Return \/ Restart

Spec == Init /\ [][Next]_vars

-----------------------------------------------------------------------------
(* When the checks of a program are enough for what it gets and outputs. *)

Operations ==
  [do : {"check"}, minOut : Int, minIn : Int, maxOut : Int, maxIn : Int]
  \cup [do : {"get"}, above : Int, kind : DOMAIN Accepts, into : SUBSET Kinds]
  \cup [do : {"output"}, above : Int] \cup [do : {"compute", "parallel"}]

\* How many operations of that sort come before the k-th.
Earlier(p, k, what) == Cardinality({j \in 1 .. k - 1 : p[j].do = what})

\* The k-th get has a condition, or a check before it, that leaves it an input.
HasInput(p, k) ==
  \/ Earlier(p, k, "get") <= p[k].above
  \/ \E j \in 1 .. k - 1 : p[j].do = "check" /\ Earlier(p, k, "get") < p[j].minIn

\* Likewise the k-th output, but that Matlab always has room for one.
HasSlot(p, k) ==
  \/ Earlier(p, k, "output") = 0
  \/ Earlier(p, k, "output") <= p[k].above
  \/ \E j \in 1 .. k - 1 : p[j].do = "check" /\ Earlier(p, k, "output") < p[j].minOut

ChecksSuffice(p) ==
  \A k \in DOMAIN p : /\ p[k].do = "get" => HasInput(p, k)
                      /\ p[k].do = "output" => HasSlot(p, k)

Programs(m) ==
  LET i == Interface[m]
  IN  {i.construct} \cup {i.methods[n] : n \in DOMAIN i.methods}
        \cup {i.statics[n] : n \in DOMAIN i.statics}

InterfaceIsChecked ==
  \A m \in DOMAIN Interface : \A p \in Programs(m) : p \in Seq(Operations) /\ ChecksSuffice(p)

-----------------------------------------------------------------------------
(* What a command of that many inputs and outputs is given and gives before the *)
(* k-th operation of its program, and what a program has to be to give it all.  *)

Passes(p, k, out, in) ==
  \A j \in 1 .. k - 1 : p[j].do = "check" =>
    p[j].minOut <= out /\ out <= p[j].maxOut /\ p[j].minIn <= in /\ in <= p[j].maxIn

Taken(p, k, in)    == {j \in 1 .. k - 1 : p[j].do = "get" /\ in > p[j].above}
Written(p, k, out) == {j \in 1 .. k - 1 : p[j].do = "output" /\ out > p[j].above}
Changes(p, k, in)  == UNION {p[j].into : j \in Taken(p, k, in)}

\* add(vec, mat, cube)
FirstParts(n) == LET parts == <<"vec", "mat", "cube">> IN {parts[k] : k \in 1 .. n}

UsesInputs(p) ==
  LET end == Len(p) + 1
  IN  \A in \in 0 .. MaxIn, out \in 0 .. MaxOut :
        Passes(p, end, out, in) => Cardinality(Taken(p, end, in)) = in

FillsOutputs(p) ==
  LET end == Len(p) + 1
  IN  \A in \in 0 .. MaxIn, out \in 0 .. MaxOut :
        Passes(p, end, out, in) => out <= Cardinality(Written(p, end, out))

AddsInOrder(name, p) ==
  \A k \in 1 .. Len(p) + 1, in \in 0 .. MaxIn, out \in 0 .. MaxOut :
    Passes(p, k, out, in) /\ Changes(p, k, in) # {} =>
      /\ name \in {"add", "inc"}
      /\ \E n \in 1 .. in : n <= 3 /\ Changes(p, k, in) = FirstParts(n)
      /\ k = Len(p) + 1 => Changes(p, k, in) = FirstParts(in)

\* The names that users call, each with its program.
Named(m) ==
  LET i == Interface[m]
  IN  {<<"@new", i.construct>>} \cup {<<n, i.methods[n]>> : n \in DOMAIN i.methods}
        \cup {<<n, i.statics[n]>> : n \in DOMAIN i.statics}

\* svd and getStats are the exceptions of the properties below.
InterfaceIsComplete ==
  \A m \in DOMAIN Interface : \A n \in Named(m) :
    /\ n[2] \in Seq(Operations)
    /\ n[1] \notin {"svd", "getStats"} => UsesInputs(n[2])
    /\ n[1] # "getStats" => FillsOutputs(n[2])
    /\ AddsInOrder(n[1], n[2])

-----------------------------------------------------------------------------
UserInputs == Len(request.in)
Returned == pc = "done" /\ outcome = "ok"
LibraryCall == request.kind \in {"method", "static", "new"}

TypeOK ==
  /\ module \in DOMAIN Interface
  /\ nlhs \in 0 .. MaxOut /\ nrhs \in 0 .. MaxIn + 2 /\ popped \in 0 .. 2
  /\ rhs_idx \in Nat /\ lhs_idx \in Nat
  /\ pc \in {"idle", "command", "method", "static", "run", "done"}
  /\ pc # "idle" => request \in Requests /\ popped + nrhs = Len(Rhs(request))
  /\ slots \subseteq Slots(request.out)
  /\ outcome \in {"none", "ok", "error", "escaped", "terminated", "wild"}

\* No get reads past the inputs of its own command and no output writes past the
\* slots that Matlab provides: the cursors are never compared with the counts, so
\* this rests on the checks each method starts with.
NoWildAccess == outcome # "wild"

\* A method reads the user's inputs, each once and in their order: never the
\* command, the handle, or what an earlier command left the cursor at.
InputsInOrder ==
  \A k \in 1 .. Len(used) : used[k] = Len(Prefix(request.kind)) + k

\* What returned has read every input the user passed; svd asks for one that it
\* never reads and getStats checks nothing.
InputsAreUsed ==
  (Returned /\ LibraryCall /\ request.name \notin {"svd", "getStats"}) =>
    Len(used) = UserInputs

\* What returned has written every output Matlab waits for, but for getStats.
OutputsAreAssigned ==
  (Returned /\ LibraryCall /\ request.name # "getStats") =>
    \A k \in 0 .. request.out - 1 : k \in slots

\* add changes vector, matrix and cube in that order: as many as it was given when
\* it returns, fewer when it throws; nothing else changes but by inc.
ChangesFollowInputs ==
  /\ changed # {} => request.name \in {"add", "inc"}
  /\ changed # {} => \E n \in 1 .. UserInputs : n <= 3 /\ changed = FirstParts(n)
  /\ Returned /\ changed # {} => changed = FirstParts(UserInputs)
=============================================================================
