------------------------------ MODULE MexIFace ------------------------------
(***************************************************************************)
(* MexIFace::mexFunction and callMethod (src/MexIFace.cpp) with the         *)
(* MexIFaceHandler members they use: one command of a MEX module, from its  *)
(* entry to its return or to the exception that ends it.                    *)
(*                                                                          *)
(* Matlab runs one command at a time.  pc is where that command is, cur     *)
(* the Matlab object whose call it serves, ret the block an unfinished @new *)
(* has allocated.  outcome is how the last finished command ended:          *)
(*   ok         returned                                                    *)
(*   error      ended in mexErrMsgIdAndTxt or a Matlab error()              *)
(*   escaped    a C++ exception left mexFunction                            *)
(*   undefined  Matlab stopped at a method that does not exist              *)
(***************************************************************************)
EXTENDS Handle

CONSTANTS
  OutOfMemory   \* whether allocating the handle itself may fail

ASSUME OutOfMemoryAssumption == OutOfMemory \in BOOLEAN

VARIABLES
  loaded,       \* loaded[m]: Matlab has the module in memory
  ifaceObj,     \* ifaceObj[m]: member obj of m's global iface, left by the last method call
  pc, cur, ret, outcome

frameVars == <<pc, cur, ret, outcome>>
mexVars == <<handleVars, loaded, ifaceObj, frameVars>>

PC == {"idle", "construct", "output", "assign", "method", "static", "destroy", "destroyed"}
Outcome == {"none", "ok", "error", "escaped", "undefined"}

MexInit ==
  /\ HandleInit
  /\ loaded = [m \in Modules |-> FALSE]
  /\ ifaceObj = [m \in Modules |-> NULL]
  /\ pc = "idle" /\ cur = NULL /\ ret = NULL /\ outcome = "none"

At(label, m) == pc = label /\ loaded[m]

Goto(label) == pc' = label /\ UNCHANGED <<cur, ret, outcome>>

Finish(result) == pc' = "idle" /\ cur' = NULL /\ ret' = NULL /\ outcome' = result

\* Matlab calls mexFunction of m for o: the file is loaded by the first call.
Enter(m, o, label) ==
  /\ pc = "idle"
  /\ loaded' = [loaded EXCEPT ![m] = TRUE]
  /\ pc' = label /\ cur' = o
  /\ UNCHANGED <<ret, outcome>>

\* A command that is over within one step.
EnterAndFinish(m, result) ==
  /\ pc = "idle"
  /\ loaded' = [loaded EXCEPT ![m] = TRUE]
  /\ Finish(result)

\* "@new": objConstruct allocates the object, or throws (an argument check, the
\* constructor, no memory).  No try block is open in mexFunction.
ObjConstruct(m) ==
  /\ At("construct", m)
  /\ \/ \E a \in Addr, v \in Val :
          /\ object[a] = NULL
          /\ object' = [object EXCEPT ![a] = [mod |-> m, val |-> v]]
          /\ pc' = "output" /\ ret' = a
          /\ UNCHANGED <<cur, outcome>>
     \/ UNCHANGED object /\ Finish("escaped")
  /\ UNCHANGED <<handle, lock, loaded, ifaceObj>>

\* outputHandle at the end of objConstruct.
OutputHandle(m) ==
  /\ At("output", m)
  /\ \/ \E h \in Addr :
          /\ MakeHandle(m, ret, h)
          /\ pc' = "assign" /\ ret' = h
          /\ UNCHANGED <<cur, outcome>>
     \/ OutOfMemory /\ MakeHandleFails(m) /\ Finish("escaped")
  /\ UNCHANGED <<loaded, ifaceObj>>

\* Mutant: the object is looked up once and kept while the module is loaded.
MethodCommand_KeepsObj(m, o, h, known) ==
  /\ IF ~IsValid(m, h)
       THEN EnterAndFinish(m, "escaped") /\ UNCHANGED ifaceObj
       ELSE /\ ifaceObj' = [ifaceObj EXCEPT ![m] = IF @ = NULL THEN handle[h].obj ELSE @]
            /\ IF known THEN Enter(m, o, "method") ELSE EnterAndFinish(m, "error")
  /\ UNCHANGED handleVars

\* A named method: getObjectFromHandle is outside callMethod's try block.
MethodCommand(m, o, h, known) ==
  /\ IF ~IsValid(m, h)
       THEN EnterAndFinish(m, "escaped") /\ UNCHANGED ifaceObj
       ELSE /\ ifaceObj' = [ifaceObj EXCEPT ![m] = handle[h].obj]
            /\ IF known THEN Enter(m, o, "method") ELSE EnterAndFinish(m, "error")
  /\ UNCHANGED handleVars

\* The body of a method works on iface.obj, in as many steps as it likes.
MethodStep(m) ==
  /\ At("method", m)
  /\ \E v \in Val : object' = [object EXCEPT ![ifaceObj[m]].val = v]
  /\ UNCHANGED <<handle, lock, loaded, ifaceObj, frameVars>>

\* It returns, or throws, at any point: callMethod turns every exception into an error.
MethodEnd(m) ==
  /\ At("method", m)
  /\ \E result \in {"ok", "error"} : Finish(result)
  /\ UNCHANGED <<handleVars, loaded, ifaceObj>>

\* "@static": callMethod on the static map, with iface.obj as it was left.
StaticCommand(m, o, known) ==
  /\ IF known THEN Enter(m, o, "static") ELSE EnterAndFinish(m, "error")
  /\ UNCHANGED <<handleVars, ifaceObj>>

StaticEnd(m) ==
  /\ At("static", m)
  /\ \E result \in {"ok", "error"} : Finish(result)
  /\ UNCHANGED <<handleVars, loaded, ifaceObj>>

\* "@delete" outside the mixin's own closeIface.
DeleteCommand(m, h) ==
  /\ IF IsValid(m, h)
       THEN DestroyObject(m, h) /\ EnterAndFinish(m, "ok")
       ELSE UNCHANGED handleVars /\ EnterAndFinish(m, "escaped")
  /\ UNCHANGED ifaceObj

\* "clear mex": Matlab unloads a module whose lock count is zero, and with it the
\* global iface.
ClearMex(m) ==
  /\ pc = "idle" /\ loaded[m] /\ lock[m] = 0
  /\ loaded' = [loaded EXCEPT ![m] = FALSE]
  /\ ifaceObj' = [ifaceObj EXCEPT ![m] = NULL]
  /\ UNCHANGED <<handleVars, frameVars>>
=============================================================================
