----------------------------- MODULE MixinProofs -----------------------------
EXTENDS MixinInvariant, FiniteSetTheorems, TLAPS

USE AddrAssumption, ModulesAssumption, BlockAssumption, ObjectsAssumption, NotUint64Assumption, OutOfMemoryAssumption
USE DEF handleVars, frameVars, mexVars, vars

Counted(m) == ObjectsOf(m) \ Pending

LEMMA CountedFinite ==
  ASSUME NEW m
  PROVE  IsFiniteSet(Counted(m)) /\ Cardinality(Counted(m)) \in Nat
<1>1. Counted(m) \in SUBSET Addr
  BY DEF Counted, ObjectsOf, Blocks
<1> QED
  BY <1>1, FS_Subset, FS_CardinalityType

LEMMA InitIInv == Init => IInv
<1> SUFFICES ASSUME Init PROVE IInv
  OBVIOUS
<1> USE DEF Init, MexInit, HandleInit
<1>1. TypeOK /\ FrameOK
  BY DEF TypeOK, FrameOK, PC, Outcome, MState
<1>2. HeapOK /\ InFlightOK /\ HoldOK /\ NoOrphanHandle /\ MethodHasOwnObject /\ LockedIsLoaded
  BY DEF HeapOK, InFlightOK, HoldOK, NoOrphanHandle, MethodHasOwnObject, LockedIsLoaded, Blocks, Open
<1>3. ASSUME NEW m \in Modules PROVE lock[m] = Cardinality(ObjectsOf(m) \ Pending)
  <2>1. ObjectsOf(m) \ Pending = {}
    BY DEF ObjectsOf, Blocks
  <2> QED
    BY <2>1, FS_EmptySet
<1> QED
  BY <1>1, <1>2, <1>3 DEF IInv, LockCountsObjects

\* A command that leaves the heap, the locks and the held handles alone, from and
\* to a point where no block is in flight.
LEMMA QuietStep ==
  ASSUME IInv, UNCHANGED <<object, handle, lock, objectHandle>>,
         pc \notin {"output", "assign", "destroyed"},
         pc' \notin {"output", "assign", "destroyed"},
         TypeOK', FrameOK', MethodHasOwnObject',
         \A m \in Modules : lock[m] # 0 => loaded'[m]
  PROVE  IInv'
<1>1. HeapOK'
  BY DEF IInv, HeapOK, Blocks
<1>2. InFlightOK'
  BY DEF InFlightOK
<1>3. HoldOK' /\ NoOrphanHandle'
  BY DEF IInv, HoldOK, NoOrphanHandle, Blocks, Open, Closing, CppObject
<1>4. LockedIsLoaded'
  BY DEF LockedIsLoaded
<1>5. LockCountsObjects'
  BY DEF IInv, LockCountsObjects, ObjectsOf, Blocks, Pending
<1> QED
  BY <1>1, <1>2, <1>3, <1>4, <1>5 DEF IInv

LEMMA ConstructStep ==
  ASSUME IInv, NEW o \in Objects, Construct(o)
  PROVE  IInv'
<1> USE DEF Construct, MatlabFinish, Finish
<1>1. TypeOK'
  BY DEF IInv, TypeOK, PC, Outcome, MState
<1>2. FrameOK'
  BY DEF IInv, TypeOK, FrameOK
<1>3. MethodHasOwnObject'
  BY DEF MethodHasOwnObject
<1> QED
  BY <1>1, <1>2, <1>3, QuietStep DEF IInv, LockedIsLoaded

LEMMA OpenIFaceStep ==
  ASSUME IInv, NEW o \in Objects, OpenIFace(o)
  PROVE  IInv'
<1> USE DEF OpenIFace, Usable, MatlabFinish, Finish, Enter
<1>1. TypeOK'
  BY DEF IInv, TypeOK, PC, Outcome, MState
<1>2. FrameOK'
  BY DEF IInv, TypeOK, FrameOK
<1>3. MethodHasOwnObject'
  BY DEF MethodHasOwnObject
<1>4. \A m \in Modules : lock[m] # 0 => loaded'[m]
  BY DEF IInv, LockedIsLoaded, TypeOK
<1> QED
  BY <1>1, <1>2, <1>3, <1>4, QuietStep DEF IInv, LockedIsLoaded

LEMMA CallStep ==
  ASSUME IInv, NEW o \in Objects, NEW known \in BOOLEAN, Call(o, known)
  PROVE  IInv'
<1> USE DEF Call, Usable, MethodCommand, IsValid, Finish, Enter, EnterAndFinish
<1>1. TypeOK'
  BY DEF IInv, TypeOK, PC, Outcome, MState, HandleBlock
<1>2. FrameOK'
  BY DEF IInv, TypeOK, FrameOK
<1>3. MethodHasOwnObject'
  BY DEF IInv, TypeOK, MethodHasOwnObject, Open, Closing, CppObject
<1>4. \A m \in Modules : lock[m] # 0 => loaded'[m]
  BY DEF IInv, LockedIsLoaded, TypeOK
<1> QED
  BY <1>1, <1>2, <1>3, <1>4, QuietStep DEF IInv, LockedIsLoaded

LEMMA CallClosedStep ==
  ASSUME IInv, NEW o \in Objects, CallClosed(o)
  PROVE  IInv'
<1> USE DEF CallClosed, Usable, MatlabFinish, Finish
<1>1. TypeOK' /\ FrameOK'
  BY DEF IInv, TypeOK, FrameOK, PC, Outcome
<1>2. MethodHasOwnObject'
  BY DEF MethodHasOwnObject
<1> QED
  BY <1>1, <1>2, QuietStep DEF IInv, LockedIsLoaded

LEMMA CallStaticStep ==
  ASSUME IInv, NEW o \in Objects, NEW known \in BOOLEAN, CallStatic(o, known)
  PROVE  IInv'
<1> USE DEF CallStatic, Usable, StaticCommand, Finish, Enter, EnterAndFinish
<1>1. TypeOK'
  BY DEF IInv, TypeOK, PC, Outcome
<1>2. FrameOK'
  BY DEF IInv, TypeOK, FrameOK
<1>3. MethodHasOwnObject'
  BY DEF MethodHasOwnObject
<1>4. \A m \in Modules : lock[m] # 0 => loaded'[m]
  BY DEF IInv, LockedIsLoaded, TypeOK
<1> QED
  BY <1>1, <1>2, <1>3, <1>4, QuietStep DEF IInv

\* getHandle refuses a foreign argument before anything changes.
LEMMA ForeignRefused ==
  ASSUME NEW o \in Objects, NEW h, ForeignCall(o, h)
  PROVE  /\ pc = "idle" /\ UNCHANGED <<handleVars, ifaceObj, mstate, objectHandle>>
         /\ loaded' = [loaded EXCEPT ![ModOf[o]] = TRUE]
         /\ Finish("escaped")
<1>1. ~IsValid(ModOf[o], h)
  BY DEF ForeignCall, Foreign, IsValid
<1> QED
  BY <1>1 DEF ForeignCall, MethodCommand, DeleteCommand, EnterAndFinish

LEMMA ForeignCallStep ==
  ASSUME IInv, NEW o \in Objects, NEW h, ForeignCall(o, h)
  PROVE  IInv'
<1> USE ForeignRefused DEF Finish
<1>3. TypeOK'
  BY DEF IInv, TypeOK, PC, Outcome
<1>4. FrameOK'
  BY DEF IInv, TypeOK, FrameOK
<1>5. MethodHasOwnObject'
  BY DEF MethodHasOwnObject
<1>6. \A m \in Modules : lock[m] # 0 => loaded'[m]
  BY DEF IInv, LockedIsLoaded, TypeOK
<1> QED
  BY <1>3, <1>4, <1>5, <1>6, QuietStep

LEMMA CloseIfaceStep ==
  ASSUME IInv, NEW o \in Objects, CloseIface(o)
  PROVE  IInv'
<1> USE DEF CloseIface, Usable, Enter
<1>1. TypeOK'
  BY DEF IInv, TypeOK, PC
<1>2. FrameOK'
  BY DEF IInv, TypeOK, FrameOK
<1>3. MethodHasOwnObject'
  BY DEF MethodHasOwnObject
<1>4. \A m \in Modules : lock[m] # 0 => loaded'[m]
  BY DEF IInv, LockedIsLoaded, TypeOK
<1> QED
  BY <1>1, <1>2, <1>3, <1>4, QuietStep

LEMMA DeleteStep ==
  ASSUME IInv, NEW o \in Objects, Delete(o)
  PROVE  IInv'
<1> USE DEF Delete, Usable, Enter, Finish
<1>1. TypeOK'
  BY DEF IInv, TypeOK, PC, MState, Outcome
<1>2. FrameOK'
  BY DEF IInv, TypeOK, FrameOK, MState
<1>3. MethodHasOwnObject'
  BY DEF MethodHasOwnObject
<1>4. \A m \in Modules : lock[m] # 0 => loaded'[m]
  BY DEF IInv, LockedIsLoaded, TypeOK
<1> QED
  BY <1>1, <1>2, <1>3, <1>4, QuietStep

\* The return of a method, and of a static method.
LEMMA CommandEndStep ==
  ASSUME IInv, NEW m \in Modules, MethodEnd(m) \/ StaticEnd(m),
         UNCHANGED <<mstate, objectHandle>>
  PROVE  IInv'
<1> USE DEF MethodEnd, StaticEnd, At, Finish
<1>1. TypeOK' /\ FrameOK'
  BY DEF IInv, TypeOK, FrameOK, PC, Outcome
<1>2. MethodHasOwnObject'
  BY DEF MethodHasOwnObject
<1> QED
  BY <1>1, <1>2, QuietStep DEF IInv, LockedIsLoaded

LEMMA ClearMexStep ==
  ASSUME IInv, NEW m \in Modules, ClearMex(m), UNCHANGED <<mstate, objectHandle>>
  PROVE  IInv'
<1> USE DEF ClearMex
<1>1. TypeOK' /\ FrameOK'
  BY DEF IInv, TypeOK, FrameOK, PC
<1>2. MethodHasOwnObject'
  BY DEF MethodHasOwnObject
<1>3. \A n \in Modules : lock[n] # 0 => loaded'[n]
  BY DEF IInv, LockedIsLoaded, TypeOK
<1> QED
  BY <1>1, <1>2, <1>3, QuietStep

\* @new: the new object is the one in flight, so no count changes.
LEMMA ObjConstructStep ==
  ASSUME IInv, cur # NULL, ObjConstruct(ModOf[cur]), UNCHANGED <<mstate, objectHandle>>
  PROVE  IInv'
<1> DEFINE m == ModOf[cur]
<1>0. cur \in Objects /\ m \in Modules /\ pc = "construct"
  BY DEF IInv, TypeOK, ObjConstruct, At
<1>1. CASE UNCHANGED object /\ Finish("escaped")
  <2> USE <1>0, <1>1 DEF ObjConstruct, Finish
  <2>1. TypeOK' /\ FrameOK'
    BY DEF IInv, TypeOK, FrameOK, PC, Outcome
  <2>2. MethodHasOwnObject'
    BY DEF MethodHasOwnObject
  <2> QED
    BY <2>1, <2>2, QuietStep DEF IInv, LockedIsLoaded
<1>2. ASSUME NEW a \in Addr, NEW v \in Val,
             object[a] = NULL, object' = [object EXCEPT ![a] = [mod |-> m, val |-> v]],
             pc' = "output", ret' = a, UNCHANGED <<cur, outcome>>
      PROVE  IInv'
  <2> USE <1>0, <1>2 DEF ObjConstruct
  <2>1. TypeOK'
    BY DEF IInv, TypeOK, PC, Object
  <2>2. FrameOK'
    BY DEF IInv, TypeOK, FrameOK
  <2>3. object'[a] # NULL /\ object'[a].mod = m /\ a \in Blocks(object')
    BY DEF IInv, TypeOK, Object, Blocks
  <2>4. \A b \in Addr : b # a => object'[b] = object[b]
    BY DEF IInv, TypeOK
  <2>5. UNCHANGED <<handle, lock, loaded, ifaceObj>> /\ Blocks(handle)' = Blocks(handle)
    BY DEF Blocks
  <2>6. \A h \in Blocks(handle) : handle[h].obj \in Addr /\ handle[h].obj # a
    BY DEF IInv, TypeOK, HeapOK, HandleBlock, Blocks
  <2>7. HeapOK'
    BY <2>4, <2>5, <2>6 DEF IInv, HeapOK
  <2>8. InFlightOK'
    BY <2>3, <2>5, <2>6 DEF InFlightOK, Blocks
  <2>9. HoldOK' /\ NoOrphanHandle'
    BY <2>4, <2>5, <2>6 DEF IInv, HoldOK, NoOrphanHandle, Open, Closing, CppObject
  <2>10. MethodHasOwnObject' /\ LockedIsLoaded'
    BY <2>5 DEF IInv, MethodHasOwnObject, LockedIsLoaded
  <2>11. \A n \in Modules : Counted(n)' = Counted(n)
    BY <2>3, <2>4 DEF Counted, ObjectsOf, Blocks, Pending
  <2>12. LockCountsObjects'
    BY <2>5, <2>11 DEF IInv, LockCountsObjects, Counted
  <2> QED
    BY <2>1, <2>2, <2>7, <2>8, <2>9, <2>10, <2>12 DEF IInv
<1> QED
  BY <1>1, <1>2 DEF ObjConstruct

\* makeHandle: the object in flight gets its lock, and in the good case its handle.
LEMMA OutputHandleStep ==
  ASSUME IInv, cur # NULL, OutputHandle(ModOf[cur]), UNCHANGED <<mstate, objectHandle>>
  PROVE  IInv'
<1> DEFINE m == ModOf[cur]
<1>0. cur \in Objects /\ m \in Modules /\ pc = "output" /\ loaded[m]
  BY DEF IInv, TypeOK, OutputHandle, At
<1>1. ret \in Blocks(object) /\ object[ret].mod = m /\ \A h \in Blocks(handle) : handle[h].obj # ret
  BY <1>0 DEF IInv, InFlightOK
<1>2. UNCHANGED <<object, loaded, ifaceObj>> /\ lock' = [lock EXCEPT ![m] = @ + 1]
  BY DEF OutputHandle, MakeHandle, MakeHandleFails
<1>3. ASSUME pc' # "output" PROVE LockCountsObjects' /\ LockedIsLoaded'
  <2>1. ASSUME NEW n \in Modules PROVE lock'[n] = Cardinality(Counted(n)')
    <3>1. lock[n] = Cardinality(Counted(n)) /\ Counted(n) = ObjectsOf(n) \ {ret}
      BY <1>0 DEF IInv, LockCountsObjects, Counted, Pending
    <3>2. Counted(n)' = ObjectsOf(n)
      BY <1>2, <1>3 DEF Counted, Pending, ObjectsOf, Blocks
    <3>3. CASE n = m
      <4>1. ObjectsOf(n) = Counted(n) \cup {ret}
        BY <1>1, <3>1, <3>3 DEF ObjectsOf
      <4>2. ret \notin Counted(n)
        BY <3>1
      <4>3. Cardinality(ObjectsOf(n)) = Cardinality(Counted(n)) + 1
        BY <4>1, <4>2, CountedFinite, FS_AddElement
      <4> QED
        BY <1>0, <1>2, <3>1, <3>2, <3>3, <4>3 DEF IInv, TypeOK
    <3>4. CASE n # m
      <4>1. ObjectsOf(n) = Counted(n)
        BY <1>1, <3>1, <3>4 DEF ObjectsOf
      <4> QED
        BY <1>0, <1>2, <3>1, <3>2, <3>4, <4>1 DEF IInv, TypeOK
    <3> QED
      BY <3>3, <3>4
  <2>2. LockedIsLoaded'
    BY <1>0, <1>2 DEF IInv, LockedIsLoaded, TypeOK
  <2> QED
    BY <2>1, <2>2 DEF LockCountsObjects, Counted
<1>4. CASE OutOfMemory /\ MakeHandleFails(m) /\ Finish("escaped")
  <2> USE <1>4 DEF MakeHandleFails, Finish
  <2>1. TypeOK' /\ FrameOK'
    BY <1>0, <1>2 DEF IInv, TypeOK, FrameOK, PC, Outcome
  <2>2. HeapOK' /\ InFlightOK' /\ MethodHasOwnObject'
    BY <1>2 DEF IInv, HeapOK, InFlightOK, MethodHasOwnObject, Blocks
  <2>3. HoldOK' /\ NoOrphanHandle'
    BY <1>0, <1>2 DEF IInv, HoldOK, NoOrphanHandle, Blocks, Open, Closing, CppObject
  <2> QED
    BY <1>3, <2>1, <2>2, <2>3 DEF IInv
<1>5. ASSUME NEW h \in Addr, MakeHandle(m, ret, h), pc' = "assign", ret' = h,
             UNCHANGED <<cur, outcome>>
      PROVE  IInv'
  <2> USE <1>5, <1>0 DEF MakeHandle
  <2>0. ret \in Addr
    BY <1>1 DEF Blocks
  <2>1. TypeOK'
    BY <1>2, <2>0 DEF IInv, TypeOK, PC, HandleBlock
  <2>2. FrameOK'
    BY <1>2 DEF IInv, TypeOK, FrameOK
  <2>3. handle'[h] # NULL /\ handle'[h].name = TypeName[m] /\ handle'[h].obj = ret
    BY <2>0 DEF IInv, TypeOK, HandleBlock
  <2>4. Blocks(handle)' = Blocks(handle) \cup {h} /\ h \notin Blocks(handle)
    BY <2>3 DEF IInv, TypeOK, Blocks
  <2>5. \A g \in Blocks(handle) : handle'[g] = handle[g]
    BY <2>4 DEF IInv, TypeOK, Blocks
  <2>6. HeapOK'
    BY <1>1, <1>2, <2>3, <2>4, <2>5 DEF IInv, HeapOK, Blocks
  <2>7. \A o \in Objects : Open(o)' = Open(o) /\ (Open(o) => objectHandle[o] \in Blocks(handle))
    BY DEF IInv, HoldOK, Open, Closing
  <2>8. \A o \in Objects : objectHandle[o] # h
    BY <2>4, <2>7 DEF Open, Closing, IInv, TypeOK
  <2>9. InFlightOK'
    BY <1>1, <1>2, <2>3, <2>4, <2>8 DEF InFlightOK
  <2>10. HoldOK'
    <3>1. \A o \in Objects : Open(o)' => objectHandle'[o] \in Blocks(handle)' /\ CppObject(o)' = CppObject(o)
      BY <2>4, <2>5, <2>7 DEF CppObject
    <3> QED
      BY <1>2, <2>7, <3>1 DEF IInv, HoldOK
  <2>11. NoOrphanHandle'
    BY <2>4, <2>7 DEF IInv, NoOrphanHandle
  <2>12. MethodHasOwnObject'
    BY DEF MethodHasOwnObject
  <2> QED
    BY <1>3, <2>1, <2>2, <2>6, <2>9, <2>10, <2>11, <2>12 DEF IInv
<1> QED
  BY <1>4, <1>5 DEF OutputHandle

\* The handle in flight becomes the handle the caller holds.
LEMMA OpenReturnStep ==
  ASSUME IInv, NEW o \in Objects, OpenReturn(o)
  PROVE  IInv'
<1> USE DEF OpenReturn, Finish
<1>0. /\ ret \in Blocks(handle) /\ object[handle[ret].obj].mod = ModOf[o]
      /\ \A p \in Objects : objectHandle[p] # ret
      /\ ret \in Addr
  BY DEF IInv, InFlightOK, Blocks
<1>1. TypeOK'
  BY <1>0 DEF IInv, TypeOK, PC, Outcome
<1>2. FrameOK'
  BY <1>0 DEF IInv, TypeOK, FrameOK
<1>3. HeapOK' /\ InFlightOK' /\ MethodHasOwnObject' /\ LockedIsLoaded'
  BY DEF IInv, HeapOK, InFlightOK, MethodHasOwnObject, LockedIsLoaded, Blocks
<1>4. /\ objectHandle'[o] = ret
      /\ \A p \in Objects : p # o => objectHandle'[p] = objectHandle[p]
  BY DEF IInv, TypeOK
<1>5. \A p \in Objects : Open(p)' <=> p = o \/ Open(p)
  BY <1>0, <1>4 DEF Open, Closing
<1>6. HoldOK'
  BY <1>0, <1>4, <1>5 DEF IInv, HoldOK, CppObject, Blocks
<1>7. NoOrphanHandle'
  <2> SUFFICES ASSUME NEW h \in Blocks(handle)
               PROVE  \E p \in Objects : Open(p)' /\ objectHandle'[p] = h
    BY DEF NoOrphanHandle, Blocks
  <2>1. objectHandle[o] = NULL
    BY DEF IInv, FrameOK
  <2> QED
    BY <1>4, <1>5, <2>1 DEF IInv, NoOrphanHandle, Open
<1>8. LockCountsObjects'
  BY DEF IInv, LockCountsObjects, ObjectsOf, Blocks, Pending
<1> QED
  BY <1>1, <1>2, <1>3, <1>6, <1>7, <1>8 DEF IInv

\* A method changes the state of an object, never which objects there are.
LEMMA MethodStepStep ==
  ASSUME IInv, NEW m \in Modules, MethodStep(m), cur # NULL, m = ModOf[cur],
         UNCHANGED <<mstate, objectHandle>>
  PROVE  IInv'
<1> USE DEF MethodStep, At
<1>1. PICK v \in Val : object' = [object EXCEPT ![ifaceObj[m]].val = v]
  OBVIOUS
<1>2. ifaceObj[m] \in Addr /\ object[ifaceObj[m]] \in Object
  BY DEF IInv, MethodHasOwnObject, HoldOK, HeapOK, TypeOK, CppObject, HandleBlock, Blocks
<1>3. TypeOK'
  BY <1>1, <1>2 DEF IInv, TypeOK, Object
<1>4. /\ \A a \in Addr : object'[a] # NULL <=> object[a] # NULL
      /\ \A a \in Addr : object[a] # NULL => object'[a].mod = object[a].mod
  BY <1>1, <1>2 DEF IInv, TypeOK, Object
<1>5. FrameOK' /\ MethodHasOwnObject' /\ LockedIsLoaded' /\ NoOrphanHandle'
  BY DEF IInv, FrameOK, MethodHasOwnObject, LockedIsLoaded, NoOrphanHandle, Open, Closing,
         CppObject, Blocks
<1>6. \A h \in Blocks(handle) : handle[h].obj \in Addr /\ object[handle[h].obj] # NULL
  BY DEF IInv, TypeOK, HeapOK, HandleBlock, Blocks
<1>7. HeapOK' /\ InFlightOK' /\ HoldOK'
  BY <1>4, <1>6 DEF IInv, HeapOK, InFlightOK, HoldOK, Open, Closing, CppObject, Blocks
<1>8. \A n \in Modules : ObjectsOf(n)' = ObjectsOf(n) /\ Pending' = Pending
  BY <1>4 DEF ObjectsOf, Blocks, Pending
<1>9. LockCountsObjects'
  BY <1>8 DEF IInv, LockCountsObjects
<1> QED
  BY <1>3, <1>5, <1>7, <1>9 DEF IInv

\* What closeIface passes to "@delete" is a handle of the module: objDestroy never throws.
LEMMA DestroyValid ==
  ASSUME IInv, NEW o \in Objects, ObjDestroy(o)
  PROVE  IsValid(ModOf[o], objectHandle[o])
<1>1. pc = "destroy" /\ cur = o
  BY DEF ObjDestroy
<1>2. Open(o)
  BY <1>1 DEF IInv, FrameOK, Open, Closing
<1> QED
  BY <1>2 DEF IInv, HoldOK, HeapOK, CppObject, IsValid, Blocks

\* "@delete": the handle, its object and one lock go together.
LEMMA ObjDestroyStep ==
  ASSUME IInv, NEW o \in Objects, ObjDestroy(o)
  PROVE  IInv'
<1> DEFINE m == ModOf[o]
           h == objectHandle[o]
           a == CppObject(o)
<1> USE DEF ObjDestroy, DestroyObject, Goto
<1>a. IsValid(m, h)
  BY DestroyValid
<1>0. /\ m \in Modules /\ pc = "destroy" /\ cur = o /\ pc' = "destroyed"
      /\ UNCHANGED <<loaded, ifaceObj, mstate, objectHandle, cur, ret, outcome>>
      /\ h \in Blocks(handle) /\ h \in Addr /\ handle[h].obj = a
      /\ DestroyObject(m, h)
  BY <1>a DEF IsValid, Blocks, CppObject
<1>1. a \in Addr /\ object[a] # NULL /\ object[a].mod = m
  BY <1>0 DEF IInv, TypeOK, HeapOK, HoldOK, Open, Closing, HandleBlock, Blocks, CppObject
<1>2. /\ object'[a] = NULL /\ \A b \in Addr : b # a => object'[b] = object[b]
      /\ handle'[h] = NULL /\ \A g \in Addr : g # h => handle'[g] = handle[g]
  BY <1>0, <1>1 DEF IInv, TypeOK
<1>3. Blocks(handle)' = Blocks(handle) \ {h}
  BY <1>2 DEF Blocks
<1>4. \A n \in Modules : Counted(n) = ObjectsOf(n) /\ Counted(n)' = ObjectsOf(n)'
  BY <1>0 DEF Counted, Pending
<1>5. a \in ObjectsOf(m) /\ ObjectsOf(m)' = ObjectsOf(m) \ {a}
  BY <1>1, <1>2 DEF ObjectsOf, Blocks
<1>6. \A n \in Modules : n # m => ObjectsOf(n)' = ObjectsOf(n)
  BY <1>1, <1>2 DEF ObjectsOf, Blocks
<1>7. lock[m] = Cardinality(ObjectsOf(m)) /\ Cardinality(ObjectsOf(m)') = lock[m] - 1 /\ lock[m] - 1 \in Nat
  <2>1. lock[m] = Cardinality(ObjectsOf(m))
    BY <1>0, <1>4 DEF IInv, LockCountsObjects, Counted
  <2>2. IsFiniteSet(ObjectsOf(m)) /\ Cardinality(ObjectsOf(m)) \in Nat
    BY <1>0, <1>4, CountedFinite
  <2>3. Cardinality(ObjectsOf(m) \ {a}) = Cardinality(ObjectsOf(m)) - 1
    BY <1>5, <2>2, FS_RemoveElement
  <2>4. IsFiniteSet(ObjectsOf(m) \ {a}) /\ Cardinality(ObjectsOf(m) \ {a}) \in Nat
    BY <2>2, FS_RemoveElement, FS_CardinalityType
  <2> QED
    BY <1>5, <2>1, <2>2, <2>3, <2>4
<1>8. LockCountsObjects'
  <2>1. ASSUME NEW n \in Modules PROVE lock'[n] = Cardinality(Counted(n)')
    <3>1. CASE n = m
      BY <1>0, <1>4, <1>7, <3>1 DEF IInv, TypeOK
    <3>2. CASE n # m
      BY <1>0, <1>4, <1>6, <3>2 DEF IInv, TypeOK, LockCountsObjects, Counted
    <3> QED
      BY <3>1, <3>2
  <2> QED
    BY <2>1 DEF LockCountsObjects, Counted
<1>9. TypeOK'
  BY <1>0, <1>1, <1>7 DEF IInv, TypeOK, PC
<1>10. FrameOK'
  BY <1>0 DEF IInv, TypeOK, FrameOK
<1>11. \A g \in Blocks(handle)' : g \in Blocks(handle) /\ handle'[g] = handle[g] /\ handle[g].obj \in Addr \ {a}
  BY <1>0, <1>2, <1>3 DEF IInv, TypeOK, HeapOK, HandleBlock, Blocks
<1>12. HeapOK'
  <2>1. ASSUME NEW g \in Blocks(handle)'
        PROVE  object'[handle'[g].obj] # NULL /\ handle'[g].name = TypeName[object'[handle'[g].obj].mod]
    <3>1. g \in Blocks(handle) /\ handle'[g] = handle[g] /\ object'[handle[g].obj] = object[handle[g].obj]
      BY <1>2, <1>11, <2>1
    <3>2. object[handle[g].obj] # NULL /\ handle[g].name = TypeName[object[handle[g].obj].mod]
      BY <3>1 DEF IInv, HeapOK
    <3> QED
      BY <3>1, <3>2
  <2>2. ASSUME NEW g1 \in Blocks(handle)', NEW g2 \in Blocks(handle)', handle'[g1].obj = handle'[g2].obj
        PROVE  g1 = g2
    BY <1>11, <2>2 DEF IInv, HeapOK
  <2> QED
    BY <2>1, <2>2 DEF HeapOK
<1>13. \A p \in Objects : Open(p)' <=> p # o /\ Open(p)
  BY <1>0 DEF Open, Closing
<1>14. \A p \in Objects : p # o /\ Open(p) =>
         objectHandle[p] \in Blocks(handle)' /\ CppObject(p)' = CppObject(p)
  BY <1>0, <1>2, <1>3 DEF IInv, HoldOK, Open, CppObject, Blocks
<1>15. HoldOK'
  <2>1. ASSUME NEW p \in Objects, Open(p)'
        PROVE  objectHandle'[p] \in Blocks(handle)' /\ object'[CppObject(p)'].mod = ModOf[p]
    <3>1. p # o /\ Open(p) /\ objectHandle'[p] = objectHandle[p]
      BY <1>0, <1>13, <2>1
    <3>2. objectHandle[p] \in Blocks(handle)' /\ CppObject(p)' = CppObject(p)
      BY <1>14, <3>1
    <3>3. CppObject(p) \in Addr \ {a}
      BY <1>11, <3>2 DEF CppObject
    <3> QED
      BY <1>2, <3>1, <3>2, <3>3 DEF IInv, HoldOK
  <2> QED
    BY <1>0, <2>1 DEF IInv, HoldOK
<1>16. InFlightOK' /\ MethodHasOwnObject' /\ LockedIsLoaded'
  BY <1>0, <1>7 DEF IInv, InFlightOK, MethodHasOwnObject, LockedIsLoaded, TypeOK
<1>17. NoOrphanHandle'
  BY <1>0, <1>3, <1>13 DEF IInv, NoOrphanHandle
<1> QED
  BY <1>8, <1>9, <1>10, <1>12, <1>15, <1>16, <1>17 DEF IInv

\* The dangling handle is dropped; nobody else held it.
LEMMA CloseReturnStep ==
  ASSUME IInv, NEW o \in Objects, CloseReturn(o)
  PROVE  IInv'
<1> USE DEF CloseReturn, Finish
<1>1. TypeOK'
  BY DEF IInv, TypeOK, PC, Outcome, MState
<1>2. FrameOK'
  BY DEF IInv, TypeOK, FrameOK
<1>3. HeapOK' /\ InFlightOK' /\ MethodHasOwnObject' /\ LockedIsLoaded'
  BY DEF IInv, HeapOK, InFlightOK, MethodHasOwnObject, LockedIsLoaded, Blocks
<1>4. objectHandle'[o] = NULL /\ \A p \in Objects : p # o => objectHandle'[p] = objectHandle[p]
  BY DEF IInv, TypeOK
<1>5. \A p \in Objects : Open(p)' <=> Open(p)
  BY <1>4 DEF Open, Closing
<1>6. HoldOK'
  BY <1>4, <1>5 DEF IInv, HoldOK, CppObject, Blocks, Open, Closing
<1>7. NoOrphanHandle'
  BY <1>4, <1>5 DEF IInv, NoOrphanHandle, Blocks, Open, Closing
<1>8. LockCountsObjects'
  BY DEF IInv, LockCountsObjects, ObjectsOf, Blocks, Pending
<1> QED
  BY <1>1, <1>2, <1>3, <1>6, <1>7, <1>8 DEF IInv

LEMMA NextIInv == IInv /\ [Next]_vars => IInv'
<1> SUFFICES ASSUME IInv, [Next]_vars PROVE IInv'
  OBVIOUS
<1>1. CASE Progress
  <2>1. cur # NULL => cur \in Objects /\ ModOf[cur] \in Modules
    BY DEF IInv, TypeOK
  <2> QED
    BY <1>1, <2>1, OpenReturnStep, ObjDestroyStep, CloseReturnStep, ObjConstructStep,
       OutputHandleStep, CommandEndStep DEF Progress
<1>2. CASE Request
  <2>1. cur # NULL => cur \in Objects /\ ModOf[cur] \in Modules
    BY DEF IInv, TypeOK
  <2> QED
    BY <1>2, <2>1, ConstructStep, OpenIFaceStep, CallClosedStep, CallStep, CallStaticStep,
       ForeignCallStep, CloseIfaceStep, DeleteStep, MethodStepStep, ClearMexStep DEF Request
<1>3. CASE UNCHANGED vars
  BY <1>3 DEF IInv, TypeOK, FrameOK, HeapOK, InFlightOK, HoldOK, NoOrphanHandle, MethodHasOwnObject,
     LockedIsLoaded, LockCountsObjects, ObjectsOf, Blocks, Pending, Open, Closing, CppObject
<1> QED
  BY <1>1, <1>2, <1>3 DEF Next

\* The inductive invariant holds in every state of the session.
THEOREM Inductive == Spec => []IInv
BY InitIInv, NextIInv, PTL DEF Spec
-----------------------------------------------------------------------------
\* Every variable keeps its type; that a lock count never runs below zero needs
\* the counting of the locks.
THEOREM TypeCorrect == Spec => []TypeOK
BY Inductive, PTL DEF IInv

\* An open Matlab object holds a live handle of its own class onto a C++ object
\* that is its alone.
THEOREM Ownership == Spec => []HandlesAreOwned
<1>1. IInv => HandlesAreOwned
  <2> SUFFICES ASSUME IInv PROVE HandlesAreOwned
    OBVIOUS
  <2>1. \A o \in Objects : Open(o) =>
          /\ objectHandle[o] \in Blocks(handle) /\ object[CppObject(o)].mod = ModOf[o]
          /\ handle[objectHandle[o]].name = TypeName[ModOf[o]] /\ object[CppObject(o)] # NULL
    BY DEF IInv, HoldOK, HeapOK, CppObject
  <2>2. \A p, q \in Objects : p # q /\ Open(p) /\ Open(q) =>
          objectHandle[p] # objectHandle[q] /\ CppObject(p) # CppObject(q)
    BY <2>1 DEF IInv, HoldOK, HeapOK, CppObject, Open
  <2> QED
    BY <2>1, <2>2 DEF HandlesAreOwned, IsValid, Blocks
<1> QED
  BY <1>1, Inductive, PTL

\* mexLock and mexUnlock balance: the count of a module is its number of C++ objects.
THEOREM LocksBalance == Spec => []LockCountsObjects
BY Inductive, PTL DEF IInv

\* A module that is unloaded, or that Matlab may unload, has no C++ object.
THEOREM UnloadSafety == Spec => []UnloadIsSafe
<1>1. IInv => UnloadIsSafe
  <2> SUFFICES ASSUME IInv, NEW m \in Modules, lock[m] = 0 \/ ~loaded[m]
               PROVE  ObjectsOf(m) \subseteq Pending
    BY DEF UnloadIsSafe
  <2>1. lock[m] = 0
    BY DEF IInv, LockedIsLoaded
  <2>2. Cardinality(Counted(m)) = 0
    BY <2>1 DEF IInv, LockCountsObjects, Counted
  <2>3. Counted(m) = {}
    BY <2>2, CountedFinite, FS_EmptySet
  <2> QED
    BY <2>3 DEF Counted
<1> QED
  BY <1>1, Inductive, PTL

\* A running method works on the object its caller owns.
THEOREM MethodsStayHome == Spec => []MethodHasOwnObject
BY Inductive, PTL DEF IInv

\* No live handle is forgotten: a Matlab object holds it, or @new is about to assign it.
THEOREM HandlesHaveHolders == Spec => []NoOrphanHandle
BY Inductive, PTL DEF IInv
-----------------------------------------------------------------------------
\* Every object is in flight or owned by a handle, unless makeHandle has failed.
NoLeak ==
  \A a \in Blocks(object) :
    \/ pc = "output" /\ ret = a
    \/ \E h \in Blocks(handle) : handle[h].obj = a

LEMMA NoLeakStep ==
  ASSUME ~OutOfMemory, IInv, NoLeak, [Next]_vars
  PROVE  NoLeak'
<1>1. ASSUME pc # "output", UNCHANGED <<object, handle>>
      PROVE  NoLeak'
  BY <1>1 DEF NoLeak, Blocks
<1>2. ASSUME NEW m \in Modules, ObjConstruct(m)
      PROVE  NoLeak'
  BY <1>2 DEF ObjConstruct, At, Finish, NoLeak, Blocks, IInv, TypeOK
<1>3. ASSUME NEW m \in Modules, OutputHandle(m)
      PROVE  NoLeak'
  <2>1. PICK h \in Addr : MakeHandle(m, ret, h)
    BY <1>3 DEF OutputHandle
  <2>2. ret \in Addr
    BY <1>3 DEF OutputHandle, At, IInv, InFlightOK, Blocks
  <2>3. handle'[h].obj = ret /\ handle'[h] # NULL
    BY <2>1, <2>2, <1>3 DEF MakeHandle, IInv, TypeOK, HandleBlock
  <2>4. \A g \in Blocks(handle) : g # h /\ handle'[g] = handle[g]
    BY <2>1 DEF MakeHandle, IInv, TypeOK, Blocks
  <2> QED
    BY <2>1, <2>3, <2>4 DEF MakeHandle, NoLeak, Blocks
<1>4. ASSUME NEW m \in Modules, MethodStep(m), cur # NULL, m = ModOf[cur]
      PROVE  NoLeak'
  <2>1. PICK v \in Val : object' = [object EXCEPT ![ifaceObj[m]].val = v]
    BY <1>4 DEF MethodStep
  <2>2. ifaceObj[m] \in Addr /\ object[ifaceObj[m]] # NULL
    BY <1>4 DEF MethodStep, At, IInv, MethodHasOwnObject, HoldOK, HeapOK, TypeOK, CppObject,
                HandleBlock, Blocks
  <2>3. \A a \in Addr : object'[a] # NULL => object[a] # NULL
    BY <2>1, <2>2 DEF IInv, TypeOK
  <2> QED
    BY <1>4, <2>3 DEF MethodStep, At, NoLeak, Blocks
<1>5. ASSUME NEW o \in Objects, ObjDestroy(o)
      PROVE  NoLeak'
  <2> DEFINE h == objectHandle[o]
             a == handle[h].obj
  <2>1. IsValid(ModOf[o], h) /\ DestroyObject(ModOf[o], h) /\ pc = "destroy"
    BY <1>5, DestroyValid DEF ObjDestroy
  <2>2. h \in Addr /\ handle[h] # NULL /\ a \in Addr
    BY <2>1 DEF IsValid, IInv, TypeOK, HandleBlock
  <2>3. object'[a] = NULL /\ \A b \in Addr : b # a => object'[b] = object[b]
    BY <2>1, <2>2 DEF DestroyObject, IInv, TypeOK
  <2>4. \A g \in Addr : g # h => handle'[g] = handle[g]
    BY <2>1, <2>2 DEF DestroyObject, IInv, TypeOK
  <2>5. \A b \in Blocks(object)' : b # a /\ b \in Blocks(object)
    BY <2>3 DEF Blocks
  <2> QED
    BY <2>1, <2>4, <2>5 DEF NoLeak, Blocks
<1>6. ASSUME NEW o \in Objects, NEW h, ForeignCall(o, h)
      PROVE  NoLeak'
  BY <1>1, <1>6, ForeignRefused
<1>7. CASE Progress
  <2>1. cur # NULL => ModOf[cur] \in Modules
    BY DEF IInv, TypeOK
  <2> QED
    BY <1>1, <1>2, <1>3, <1>5, <1>7, <2>1
    DEF Progress, OpenReturn, CloseReturn, MethodEnd, StaticEnd, At
<1>8. CASE Request
  <2>1. cur # NULL => ModOf[cur] \in Modules
    BY DEF IInv, TypeOK
  <2> QED
    BY <1>1, <1>4, <1>6, <1>8, <2>1
    DEF Request, Construct, OpenIFace, CallClosed, Call, CallStatic, CloseIface, Delete, ClearMex,
        Usable, MatlabFinish, MethodCommand, StaticCommand, Enter, EnterAndFinish
<1>9. CASE UNCHANGED vars
  BY <1>9 DEF NoLeak, Blocks
<1> QED
  BY <1>7, <1>8, <1>9 DEF Next

\* Unless the allocation of a handle fails, a C++ object lives only behind an open
\* Matlab object.
THEOREM NothingLeaks ==
  ASSUME ~OutOfMemory
  PROVE  Spec => []DeletionFreesResources
<1>1. Init => NoLeak
  BY DEF Init, MexInit, HandleInit, NoLeak, Blocks
<1>2. IInv /\ NoLeak /\ [Next]_vars => NoLeak'
  BY NoLeakStep
<1>3. IInv /\ NoLeak => DeletionFreesResources
  BY DEF IInv, NoLeak, NoOrphanHandle, DeletionFreesResources, CppObject
<1> QED
  BY <1>1, <1>2, <1>3, Inductive, PTL DEF Spec
=============================================================================
