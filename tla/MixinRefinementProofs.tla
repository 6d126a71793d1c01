------------------------ MODULE MixinRefinementProofs ------------------------
(***************************************************************************)
(* Proof that MexIFaceMixin implements ObjectService, and that no step      *)
(* changes the state behind an object other than the caller.                *)
(***************************************************************************)
EXTENDS MixinRefinement, MixinProofs

\* What a step leaves alone, as ObjectService sees it.
Still(o) == Life(o)' = Life(o) /\ PrivateState(o)' = PrivateState(o)

USE AddrAssumption, ModulesAssumption, BlockAssumption, ObjectsAssumption
USE DEF handleVars, frameVars, mexVars, vars, Service!serviceVars

LEMMA StillIsStutter ==
  ASSUME \A o \in Objects : Still(o)
  PROVE  UNCHANGED Service!serviceVars
BY DEF Still

\* Only o moves: the step is one of o's actions.
LEMMA OneMoves ==
  ASSUME NEW o \in Objects, \A p \in Objects : p # o => Still(p)
  PROVE  /\ [p \in Objects |-> Life(p)]' = [[p \in Objects |-> Life(p)] EXCEPT ![o] = Life(o)']
         /\ [p \in Objects |-> PrivateState(p)]'
              = [[p \in Objects |-> PrivateState(p)] EXCEPT ![o] = PrivateState(o)']
BY DEF Still

LEMMA QuietIsStill ==
  ASSUME UNCHANGED <<object, handle, mstate, objectHandle>>,
         pc # "destroyed", pc' # "destroyed", NEW o \in Objects
  PROVE  Still(o)
BY DEF Still, Life, PrivateState, Open, Closing, CppObject

LEMMA ConstructImplements ==
  ASSUME IInv, NEW o \in Objects, Construct(o)
  PROVE  [Service!ServiceNext]_Service!serviceVars
<1>1. pc = "idle" /\ pc' = "idle" /\ UNCHANGED <<object, handle, objectHandle>>
  BY DEF Construct, MatlabFinish, Finish
<1>2. CASE UNCHANGED mstate
  BY <1>1, <1>2, QuietIsStill, StillIsStutter
<1>3. CASE mstate' = [mstate EXCEPT ![o] = "built"]
  <2>1. \A p \in Objects : p # o => Still(p)
    BY <1>1, <1>3 DEF Still, Life, PrivateState, Open, Closing, CppObject, IInv, TypeOK
  <2>2. Life(o) = "none" /\ Life(o)' = "closed" /\ PrivateState(o)' = PrivateState(o)
    BY <1>1, <1>3 DEF Construct, Life, PrivateState, Open, Closing, CppObject, IInv, TypeOK, FrameOK
  <2>3. Service!Build(o)
    BY <2>1, <2>2, OneMoves DEF Service!Build, Still
  <2> QED
    BY <2>3 DEF Service!ServiceNext
<1> QED
  BY <1>2, <1>3 DEF Construct, MatlabFinish

\* A call of Matlab or of a module that leaves the heap and the held handles alone.
LEMMA QuietImplements ==
  ASSUME UNCHANGED <<object, handle, mstate, objectHandle>>, pc # "destroyed", pc' # "destroyed"
  PROVE  [Service!ServiceNext]_Service!serviceVars
BY QuietIsStill, StillIsStutter

LEMMA NewStill ==
  ASSUME IInv, cur # NULL, ObjConstruct(ModOf[cur]) \/ OutputHandle(ModOf[cur]),
         UNCHANGED <<mstate, objectHandle>>, NEW p \in Objects
  PROVE  Still(p)
<1>1. pc \in {"construct", "output"} /\ pc' # "destroyed"
  BY DEF ObjConstruct, OutputHandle, At, Finish
<1>2. Open(p)' = Open(p)
  BY <1>1 DEF Open, Closing
<1>3. Open(p) => /\ objectHandle[p] \in Blocks(handle) /\ object[CppObject(p)] # NULL
                 /\ CppObject(p) \in Addr
  BY DEF IInv, TypeOK, HoldOK, HeapOK, CppObject, Blocks, HandleBlock
<1>4. \A h \in Blocks(handle) : handle'[h] = handle[h]
  BY DEF ObjConstruct, OutputHandle, MakeHandle, MakeHandleFails, IInv, TypeOK, Blocks
<1>5. \A a \in Addr : object[a] # NULL => object'[a] = object[a]
  BY DEF ObjConstruct, OutputHandle, MakeHandle, MakeHandleFails, IInv, TypeOK
<1> QED
  BY <1>2, <1>3, <1>4, <1>5 DEF Still, Life, PrivateState, CppObject

LEMMA OpenReturnOthers ==
  ASSUME IInv, NEW o \in Objects, OpenReturn(o), NEW p \in Objects, p # o
  PROVE  Still(p)
BY DEF OpenReturn, Finish, Still, Life, PrivateState, Open, Closing, CppObject, IInv, TypeOK

LEMMA MethodStepOthers ==
  ASSUME IInv, cur # NULL, MethodStep(ModOf[cur]), UNCHANGED <<mstate, objectHandle>>,
         NEW p \in Objects, p # cur
  PROVE  Still(p)
<1> USE DEF MethodStep, At
<1>1. PICK v \in Val : object' = [object EXCEPT ![CppObject(cur)].val = v]
  BY DEF IInv, MethodHasOwnObject
<1>2. Open(p)' = Open(p) /\ CppObject(p)' = CppObject(p)
  BY DEF Open, Closing, CppObject
<1>3. Open(p) => CppObject(p) \in Addr /\ CppObject(p) # CppObject(cur)
  BY DEF IInv, TypeOK, MethodHasOwnObject, HoldOK, HeapOK, CppObject, Blocks, HandleBlock, Open
<1>4. Open(p) => object'[CppObject(p)] = object[CppObject(p)]
  BY <1>1, <1>3 DEF IInv, TypeOK
<1> QED
  BY <1>2, <1>4 DEF Still, Life, PrivateState

LEMMA ObjDestroyOthers ==
  ASSUME IInv, NEW o \in Objects, ObjDestroy(o), NEW p \in Objects, p # o
  PROVE  Still(p)
<1> USE DEF ObjDestroy, DestroyObject, Goto
<1>1. Open(p)' = Open(p) /\ Open(o) /\ UNCHANGED mstate
  BY DestroyValid DEF Open, Closing, IsValid, IInv, FrameOK
<1>2. Open(p) => /\ objectHandle[p] \in Addr /\ objectHandle[p] # objectHandle[o]
                 /\ CppObject(p) \in Addr /\ CppObject(p) # CppObject(o)
  BY <1>1 DEF IInv, TypeOK, HoldOK, HeapOK, CppObject, Blocks, HandleBlock, Open
<1>3. Open(p) => CppObject(p)' = CppObject(p)
  BY <1>2, DestroyValid DEF CppObject, IInv, TypeOK
<1>4. Open(p) => object'[CppObject(p)] = object[CppObject(p)]
  BY <1>2, DestroyValid DEF CppObject, IInv, TypeOK
<1> QED
  BY <1>1, <1>3, <1>4 DEF Still, Life, PrivateState

LEMMA OpenReturnImplements ==
  ASSUME IInv, NEW o \in Objects, OpenReturn(o)
  PROVE  [Service!ServiceNext]_Service!serviceVars
<1> USE DEF OpenReturn, Finish
<1>1. /\ ret \in Addr /\ ret # NULL /\ handle[ret].obj \in Addr
      /\ object[handle[ret].obj] # NULL /\ objectHandle[o] = NULL /\ mstate[o] # "none"
  BY DEF IInv, InFlightOK, FrameOK, HeapOK, TypeOK, Blocks, HandleBlock
<1>2. \A p \in Objects : p # o => Still(p)
  BY OpenReturnOthers
<1>3. objectHandle'[o] = ret
  BY DEF IInv, TypeOK
<1>4. Life(o) = "closed" /\ Life(o)' = "open"
  BY <1>1, <1>3 DEF Life, Open, Closing
<1>5. PrivateState(o)' \in Val
  BY <1>1, <1>3 DEF PrivateState, Open, Closing, CppObject, IInv, TypeOK, Object
<1>6. Service!Acquire(o)
  BY <1>2, <1>4, <1>5, OneMoves DEF Service!Acquire
<1> QED
  BY <1>6 DEF Service!ServiceNext

LEMMA MethodStepImplements ==
  ASSUME IInv, cur # NULL, MethodStep(ModOf[cur]), UNCHANGED <<mstate, objectHandle>>
  PROVE  [Service!ServiceNext]_Service!serviceVars
<1> DEFINE a == CppObject(cur)
<1> USE DEF MethodStep, At
<1>0. cur \in Objects /\ Open(cur) /\ ifaceObj[ModOf[cur]] = a
  BY DEF IInv, TypeOK, MethodHasOwnObject
<1>1. PICK v \in Val : object' = [object EXCEPT ![a].val = v]
  BY <1>0
<1>2. a \in Addr /\ object[a] # NULL
  BY <1>0 DEF IInv, TypeOK, HoldOK, HeapOK, CppObject, Blocks, HandleBlock
<1>3. Open(cur)' /\ CppObject(cur)' = a
  BY <1>0 DEF Open, Closing, CppObject
<1>4. object'[a].val = v
  BY <1>0, <1>1, <1>2 DEF IInv, TypeOK, Object
<1>5. \A p \in Objects : p # cur => Still(p)
  BY MethodStepOthers
<1>6. Life(cur) = "open" /\ Life(cur)' = "open" /\ PrivateState(cur)' = v
  BY <1>0, <1>3, <1>4 DEF Life, PrivateState, IInv, TypeOK, FrameOK
<1>7. Service!Update(cur)
  <2>1. \A p \in Objects : Life(p)' = Life(p)
    BY <1>5, <1>6 DEF Still
  <2>2. [p \in Objects |-> PrivateState(p)]' = [[p \in Objects |-> PrivateState(p)] EXCEPT ![cur] = v]
    BY <1>0, <1>5, <1>6, OneMoves
  <2> QED
    BY <1>0, <1>6, <2>1, <2>2 DEF Service!Update
<1> QED
  BY <1>0, <1>7 DEF Service!ServiceNext

LEMMA ObjDestroyImplements ==
  ASSUME IInv, NEW o \in Objects, ObjDestroy(o)
  PROVE  [Service!ServiceNext]_Service!serviceVars
<1> USE DEF ObjDestroy, DestroyObject, Goto
<1>1. Open(o) /\ ~Open(o)' /\ UNCHANGED mstate /\ mstate[o] # "none"
  BY DestroyValid DEF Open, Closing, IsValid, IInv, FrameOK
<1>2. \A p \in Objects : p # o => Still(p)
  BY ObjDestroyOthers
<1>3. Life(o) = "open" /\ Life(o)' = "closed" /\ PrivateState(o)' = NULL
  BY <1>1 DEF Life, PrivateState
<1>4. Service!Release(o)
  BY <1>2, <1>3, OneMoves DEF Service!Release
<1> QED
  BY <1>4 DEF Service!ServiceNext

\* The last step of closeIface or of delete(obj), or a delete of a closed object.
LEMMA DiscardImplements ==
  ASSUME IInv, NEW o \in Objects, pc' = "idle", UNCHANGED <<object, handle>>,
         ~Open(o), ~Open(o)', mstate[o] # "none",
         \A p \in Objects : p # o => /\ Open(p)' = Open(p) /\ mstate'[p] = mstate[p]
                                      /\ objectHandle'[p] = objectHandle[p],
         mstate'[o] \in {"none", mstate[o]}
  PROVE  [Service!ServiceNext]_Service!serviceVars
<1>1. \A p \in Objects : p # o => Still(p)
  BY DEF Still, Life, PrivateState, CppObject
<1>2. Life(o) = "closed" /\ PrivateState(o)' = PrivateState(o)
  BY DEF Life, PrivateState
<1>3. CASE mstate'[o] = "none"
  <2>1. Life(o)' = "none"
    BY <1>3 DEF Life
  <2>2. Service!Discard(o)
    BY <1>1, <1>2, <2>1, OneMoves DEF Service!Discard, Still
  <2> QED
    BY <2>2 DEF Service!ServiceNext
<1>4. CASE mstate'[o] = mstate[o]
  <2>1. Still(o)
    BY <1>2, <1>4 DEF Still, Life
  <2> QED
    BY <1>1, <2>1, StillIsStutter
<1> QED
  BY <1>3, <1>4

LEMMA CloseReturnImplements ==
  ASSUME IInv, NEW o \in Objects, CloseReturn(o)
  PROVE  [Service!ServiceNext]_Service!serviceVars
<1> USE DEF CloseReturn, Finish
<1>1. ~Open(o) /\ ~Open(o)' /\ mstate[o] # "none"
  BY DEF Open, Closing, IInv, FrameOK, TypeOK
<1>2. \A p \in Objects : p # o => /\ Open(p)' = Open(p) /\ mstate'[p] = mstate[p]
                                  /\ objectHandle'[p] = objectHandle[p]
  BY DEF Open, Closing, IInv, TypeOK
<1>3. mstate'[o] \in {"none", mstate[o]}
  BY DEF IInv, TypeOK
<1> QED
  BY <1>1, <1>2, <1>3, DiscardImplements

LEMMA DeleteImplements ==
  ASSUME IInv, NEW o \in Objects, Delete(o)
  PROVE  [Service!ServiceNext]_Service!serviceVars
<1> USE DEF Delete, Usable
<1>1. CASE objectHandle[o] = NULL
  <2> USE <1>1 DEF Finish
  <2>1. pc' = "idle" /\ ~Open(o) /\ ~Open(o)' /\ mstate[o] # "none" /\ mstate'[o] = "none"
    BY DEF Open, IInv, TypeOK
  <2>2. \A p \in Objects : p # o => /\ Open(p)' = Open(p) /\ mstate'[p] = mstate[p]
                                    /\ objectHandle'[p] = objectHandle[p]
    BY DEF Open, Closing, IInv, TypeOK
  <2> QED
    BY <2>1, <2>2, DiscardImplements
<1>2. CASE objectHandle[o] # NULL
  <2> USE <1>2 DEF Enter
  <2>1. \A p \in Objects : Life(p)' = Life(p)
    BY DEF Life, Open, Closing, IInv, TypeOK
  <2>2. \A p \in Objects : PrivateState(p)' = PrivateState(p)
    BY DEF PrivateState, Open, Closing, CppObject
  <2> QED
    BY <2>1, <2>2, StillIsStutter DEF Still
<1> QED
  BY <1>1, <1>2

LEMMA StepImplements ==
  ASSUME IInv, [Next]_vars
  PROVE  [Service!ServiceNext]_Service!serviceVars
<1>1. CASE Progress
  BY <1>1, OpenReturnImplements, ObjDestroyImplements, CloseReturnImplements, NewStill,
     StillIsStutter, QuietImplements DEF Progress, MethodEnd, StaticEnd, At, Finish
<1>2. CASE Request
  <2>1. ASSUME NEW o \in Objects, NEW h, ForeignCall(o, h)
        PROVE  [Service!ServiceNext]_Service!serviceVars
    BY <2>1, ForeignRefused, QuietImplements DEF Finish
  <2>2. ASSUME NEW o \in Objects, OpenIFace(o) \/ CallClosed(o) \/ CloseIface(o)
        PROVE  [Service!ServiceNext]_Service!serviceVars
    BY <2>2, QuietImplements
    DEF OpenIFace, CallClosed, CloseIface, Usable, MatlabFinish, Enter, Finish
  <2>3. ASSUME NEW o \in Objects, NEW known \in BOOLEAN, Call(o, known) \/ CallStatic(o, known)
        PROVE  [Service!ServiceNext]_Service!serviceVars
    <3>1. pc = "idle" /\ pc' \in {"idle", "method", "static"}
      BY <2>3 DEF Call, CallStatic, Usable, MethodCommand, StaticCommand, Enter, EnterAndFinish, Finish
    <3>2. UNCHANGED <<object, handle, mstate, objectHandle>>
      BY <2>3 DEF Call, CallStatic, MethodCommand, StaticCommand
    <3> QED
      BY <3>1, <3>2, QuietImplements
  <2>4. ASSUME NEW m \in Modules, ClearMex(m), UNCHANGED <<mstate, objectHandle>>
        PROVE  [Service!ServiceNext]_Service!serviceVars
    BY <2>4, QuietImplements DEF ClearMex
  <2> QED
    BY <1>2, <2>1, <2>2, <2>3, <2>4, ConstructImplements, DeleteImplements, MethodStepImplements DEF Request
<1>3. CASE UNCHANGED vars
  BY <1>3, QuietIsStill, StillIsStutter DEF Still, Life, PrivateState, Open, Closing, CppObject
<1> QED
  BY <1>1, <1>2, <1>3 DEF Next

\* The Matlab class, the module behind it and its heap together implement one
\* independent persistent state per Matlab object.
THEOREM Refinement == Spec => ImplementsService
<1>1. Init => Service!ServiceInit
  BY DEF Init, MexInit, HandleInit, Service!ServiceInit, Life, PrivateState, Open
<1>2. IInv /\ [Next]_vars => [Service!ServiceNext]_Service!serviceVars
  BY StepImplements
<1> QED
  BY <1>1, <1>2, Inductive, PTL DEF Spec, ImplementsService, Service!ServiceSpec
-----------------------------------------------------------------------------
LEMMA QuietKeeps ==
  ASSUME UNCHANGED <<object, handle, objectHandle>>, pc # "destroyed", pc' # "destroyed",
         NEW o \in Objects
  PROVE  PrivateState(o)' = PrivateState(o)
BY DEF PrivateState, Open, Closing, CppObject

LEMMA OthersKeep ==
  ASSUME IInv, Next, NEW o \in Objects, o \notin {cur, cur'}
  PROVE  PrivateState(o)' = PrivateState(o)
<1>1. CASE Progress
  <2>1. ASSUME NEW p \in Objects, CloseReturn(p) PROVE PrivateState(o)' = PrivateState(o)
    BY <2>1 DEF CloseReturn, Finish, PrivateState, Open, Closing, CppObject, IInv, TypeOK
  <2> QED
    BY <1>1, <2>1, OpenReturnOthers, ObjDestroyOthers, NewStill, QuietKeeps
    DEF Progress, OpenReturn, ObjDestroy, MethodEnd, StaticEnd, At, Finish, Still
<1>2. CASE Request
  <2>1. ASSUME NEW p \in Objects, NEW h, ForeignCall(p, h)
        PROVE  PrivateState(o)' = PrivateState(o)
    BY <2>1, ForeignRefused, QuietKeeps DEF Finish
  <2>2. ASSUME NEW p \in Objects,
               \/ Construct(p) \/ OpenIFace(p) \/ CallClosed(p) \/ CloseIface(p) \/ Delete(p)
        PROVE  PrivateState(o)' = PrivateState(o)
    BY <2>2, QuietKeeps
    DEF Construct, OpenIFace, CallClosed, CloseIface, Delete, Usable, MatlabFinish, Enter, Finish
  <2>3. ASSUME NEW p \in Objects, NEW known \in BOOLEAN, Call(p, known) \/ CallStatic(p, known)
        PROVE  PrivateState(o)' = PrivateState(o)
    <3>1. pc = "idle" /\ pc' \in {"idle", "method", "static"}
      BY <2>3 DEF Call, CallStatic, Usable, MethodCommand, StaticCommand, Enter, EnterAndFinish, Finish
    <3>2. UNCHANGED <<object, handle, objectHandle>>
      BY <2>3 DEF Call, CallStatic, MethodCommand, StaticCommand
    <3> QED
      BY <3>1, <3>2, QuietKeeps
  <2>4. ASSUME NEW m \in Modules, ClearMex(m), UNCHANGED <<mstate, objectHandle>>
        PROVE  PrivateState(o)' = PrivateState(o)
    BY <2>4, QuietKeeps DEF ClearMex
  <2> QED
    BY <1>2, <2>1, <2>2, <2>3, <2>4, MethodStepOthers DEF Request, Still
<1> QED
  BY <1>1, <1>2 DEF Next

\* A step changes the C++ state behind no Matlab object but the caller's.
THEOREM CallersOnly == Spec => OnlyCallerChanges
<1>1. IInv /\ [Next]_vars =>
        [\A o \in Objects : PrivateState(o)' # PrivateState(o) => o \in {cur, cur'}]_vars
  BY OthersKeep
<1> QED
  BY <1>1, Inductive, PTL DEF Spec, OnlyCallerChanges
=============================================================================
