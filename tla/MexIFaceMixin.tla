---------------------------- MODULE MexIFaceMixin ----------------------------
(***************************************************************************)
(* matlab/+MexIFace/MexIFaceMixin.m: the Matlab handle class that owns one  *)
(* C++ object through objectHandle, composed with the MEX modules it calls. *)
(*                                                                          *)
(* The actions are what a Matlab session can do to several such objects in  *)
(* any order, and the steps of the MEX command this starts.  A command runs *)
(* to its end before the next one: only its own failures interleave.        *)
(***************************************************************************)
EXTENDS MexIFace

CONSTANTS
  Objects,      \* the Matlab variables that can each hold a mixin object
  ModOf,        \* the module an object was constructed with (ifaceHandle)
  NotUint64     \* an argument that is no UINT64 array

ASSUME ObjectsAssumption == NULL \notin Objects /\ ModOf \in [Objects -> Modules]
ASSUME NotUint64Assumption == NotUint64 \notin Addr

VARIABLES
  mstate,       \* mstate[o]: Matlab's own view of the object in o, none if there is none
  objectHandle  \* objectHandle[o]: the property of that name; NULL is uint64(0)

vars == <<mexVars, mstate, objectHandle>>

MState == {"none", "built", "deleting"}

Init ==
  /\ MexInit
  /\ mstate = [o \in Objects |-> "none"]
  /\ objectHandle = [o \in Objects |-> NULL]

Usable(o) == pc = "idle" /\ mstate[o] = "built"

\* A call that ends on the Matlab side, before any module is entered.
MatlabFinish(result) ==
  Finish(result) /\ UNCHANGED <<handleVars, loaded, ifaceObj, mstate, objectHandle>>

\* The constructor, when the versioned mex file exists and when it does not.
Construct(o) ==
  /\ pc = "idle" /\ mstate[o] = "none"
  /\ \/ /\ mstate' = [mstate EXCEPT ![o] = "built"]
        /\ Finish("ok")
        /\ UNCHANGED <<handleVars, loaded, ifaceObj, objectHandle>>
     \/ MatlabFinish("error")

\* Mutant: openIFace without the check for an open object.
OpenIFace_Reopens(o) ==
  /\ Usable(o)
  /\ Enter(ModOf[o], o, "construct")
  /\ UNCHANGED <<handleVars, ifaceObj, mstate, objectHandle>>

\* openIFace: an error when the object is already open, otherwise "@new".
OpenIFace(o) ==
  /\ Usable(o)
  /\ \/ objectHandle[o] # NULL /\ MatlabFinish("error")
     \/ /\ objectHandle[o] = NULL
        /\ Enter(ModOf[o], o, "construct")
        /\ UNCHANGED <<handleVars, ifaceObj, mstate, objectHandle>>

\* Mutant: the handle "@new" returns is not stored.
OpenReturn_NoAssign(o) ==
  /\ pc = "assign" /\ cur = o
  /\ Finish("ok")
  /\ UNCHANGED <<handleVars, loaded, ifaceObj, mstate, objectHandle>>

\* ... and the assignment of what "@new" returned.
OpenReturn(o) ==
  /\ pc = "assign" /\ cur = o
  /\ objectHandle' = [objectHandle EXCEPT ![o] = ret]
  /\ Finish("ok")
  /\ UNCHANGED <<handleVars, loaded, ifaceObj, mstate>>

\* call on an object without a C++ object goes to obj.openIface, which no class
\* defines: the method is spelled openIFace.
CallClosed(o) ==
  /\ Usable(o) /\ objectHandle[o] = NULL
  /\ MatlabFinish("undefined")

Call(o, known) ==
  /\ Usable(o) /\ objectHandle[o] # NULL
  /\ MethodCommand(ModOf[o], o, objectHandle[o], known)
  /\ UNCHANGED <<mstate, objectHandle>>

CallStatic(o, known) ==
  /\ Usable(o)
  /\ StaticCommand(ModOf[o], o, known)
  /\ UNCHANGED <<mstate, objectHandle>>

\* A subclass hands its module something that is not a handle of this module's
\* class: another module's handle, or an array that is not UINT64.
Foreign(m, h) ==
  \/ h = NotUint64
  \/ h \in Addr /\ handle[h] # NULL /\ handle[h].name # TypeName[m]

ForeignCall(o, h) ==
  /\ Usable(o) /\ Foreign(ModOf[o], h)
  /\ \/ \E known \in BOOLEAN : MethodCommand(ModOf[o], o, h, known)
     \/ DeleteCommand(ModOf[o], h)
  /\ UNCHANGED <<mstate, objectHandle>>

\* closeIface of an open object: call('@delete') ...
CloseIface(o) ==
  /\ Usable(o) /\ objectHandle[o] # NULL
  /\ Enter(ModOf[o], o, "destroy")
  /\ UNCHANGED <<handleVars, ifaceObj, mstate, objectHandle>>

\* Mutant: delete(obj) without closeIface.
Delete_SkipsClose(o) ==
  /\ Usable(o)
  /\ mstate' = [mstate EXCEPT ![o] = "none"]
  /\ Finish("ok")
  /\ UNCHANGED <<handleVars, loaded, ifaceObj, objectHandle>>

\* delete(obj), explicit or by the reference count: closeIface, then the object is gone.
Delete(o) ==
  /\ Usable(o)
  /\ \/ /\ objectHandle[o] = NULL
        /\ mstate' = [mstate EXCEPT ![o] = "none"]
        /\ Finish("ok")
        /\ UNCHANGED <<handleVars, loaded, ifaceObj, objectHandle>>
     \/ /\ objectHandle[o] # NULL
        /\ mstate' = [mstate EXCEPT ![o] = "deleting"]
        /\ Enter(ModOf[o], o, "destroy")
        /\ UNCHANGED <<handleVars, ifaceObj, objectHandle>>

\* ... which destroys the handle and the C++ object, or throws in getHandle: then
\* Matlab drops an object under deletion with the handle it holds ...
ObjDestroy(o) ==
  /\ pc = "destroy" /\ cur = o
  /\ UNCHANGED <<loaded, ifaceObj>>
  /\ IF IsValid(ModOf[o], objectHandle[o])
       THEN /\ DestroyObject(ModOf[o], objectHandle[o])
            /\ Goto("destroyed")
            /\ UNCHANGED <<mstate, objectHandle>>
       ELSE /\ mstate' = [mstate EXCEPT ![o] = IF @ = "deleting" THEN "none" ELSE @]
            /\ objectHandle' = [objectHandle EXCEPT ![o] = IF mstate[o] = "deleting" THEN NULL ELSE @]
            /\ Finish("escaped")
            /\ UNCHANGED handleVars

\* ... and the reset of objectHandle.
CloseReturn(o) ==
  /\ pc = "destroyed" /\ cur = o
  /\ objectHandle' = [objectHandle EXCEPT ![o] = NULL]
  /\ mstate' = [mstate EXCEPT ![o] = IF @ = "deleting" THEN "none" ELSE @]
  /\ Finish("ok")
  /\ UNCHANGED <<handleVars, loaded, ifaceObj>>

\* The steps of the command under way: Matlab and C++ code that runs by itself.
Progress ==
  \/ \E o \in Objects : OpenReturn(o) \/ ObjDestroy(o) \/ CloseReturn(o)
  \/ /\ cur # NULL
     /\ \/ ObjConstruct(ModOf[cur])
        \/ OutputHandle(ModOf[cur])
        \/ MethodEnd(ModOf[cur])
        \/ StaticEnd(ModOf[cur])
     /\ UNCHANGED <<mstate, objectHandle>>

\* What the session's user, the reference counts and a running method choose to do.
Request ==
  \/ \E o \in Objects :
       \/ Construct(o) \/ OpenIFace(o) \/ CallClosed(o)
       \/ \E known \in BOOLEAN : Call(o, known) \/ CallStatic(o, known)
       \/ \E h \in Addr \cup {NotUint64} : ForeignCall(o, h)
       \/ CloseIface(o) \/ Delete(o)
  \/ /\ \/ cur # NULL /\ MethodStep(ModOf[cur])
        \/ \E m \in Modules : ClearMex(m)
     /\ UNCHANGED <<mstate, objectHandle>>

Next == Progress \/ Request

Spec == Init /\ [][Next]_vars

-----------------------------------------------------------------------------
HandlesOf(m) == {h \in Blocks(handle) : handle[h].name = TypeName[m]}
ObjectsOf(m) == {a \in Blocks(object) : object[a].mod = m}

\* The object between its new and makeHandle's mexLock.
Pending == IF pc = "output" THEN {ret} ELSE {}

\* The object o still owns: none once "@delete" has run.
Closing(o) == pc = "destroyed" /\ cur = o
Open(o) == objectHandle[o] # NULL /\ ~Closing(o)
CppObject(o) == handle[objectHandle[o]].obj
PrivateState(o) == IF Open(o) THEN object[CppObject(o)].val ELSE NULL

\* Every variable has its type.
TypeOK ==
  /\ object \in [Addr -> Object \cup {NULL}]
  /\ handle \in [Addr -> HandleBlock \cup {NULL}]
  /\ lock \in [Modules -> Nat]
  /\ loaded \in [Modules -> BOOLEAN]
  /\ ifaceObj \in [Modules -> Addr \cup {NULL}]
  /\ pc \in PC /\ cur \in Objects \cup {NULL}
  /\ ret \in Addr \cup {NULL} /\ outcome \in Outcome
  /\ mstate \in [Objects -> MState]
  /\ objectHandle \in [Objects -> Addr \cup {NULL}]

\* The handle a Matlab object holds is a live block of its own module's class that
\* owns a live C++ object of that module, and it is nobody else's: two Matlab
\* objects share neither the handle nor the C++ object behind it.  The one
\* moment a held handle dangles is inside closeIface, between "@delete" and
\* the reset of objectHandle.
HandlesAreOwned ==
  /\ \A o \in Objects : Open(o) =>
       /\ IsValid(ModOf[o], objectHandle[o])
       /\ object[CppObject(o)] # NULL
       /\ object[CppObject(o)].mod = ModOf[o]
  /\ \A o1, o2 \in Objects :
       o1 # o2 /\ Open(o1) /\ Open(o2) =>
         objectHandle[o1] # objectHandle[o2] /\ CppObject(o1) # CppObject(o2)

\* No live block is forgotten: each is held by exactly the Matlab object that
\* opened it, or is the result "@new" is about to assign.
NoOrphanHandle ==
  \A h \in Blocks(handle) :
    \/ \E o \in Objects : Open(o) /\ objectHandle[o] = h
    \/ pc = "assign" /\ ret = h

\* The mexLock count of a module is the number of its C++ objects, whatever
\* mixture of failed constructions, calls and deletions came before.
LockCountsObjects ==
  \A m \in Modules : lock[m] = Cardinality(ObjectsOf(m) \ Pending)

\* A module that Matlab can unload, or has unloaded, owns no C++ object: no
\* destructor or method is ever called in code that is gone.
UnloadIsSafe ==
  \A m \in Modules :
    lock[m] = 0 \/ ~loaded[m] => ObjectsOf(m) \subseteq Pending

\* While a method runs, the object it works on is the one its caller owns,
\* though obj is one variable shared by all objects of the module.
MethodHasOwnObject ==
  pc = "method" => Open(cur) /\ ifaceObj[ModOf[cur]] = CppObject(cur)

\* A step changes the C++ state of no Matlab object but the one whose call is served.
OnlyCallerChanges ==
  [][\A o \in Objects : PrivateState(o)' # PrivateState(o) => o \in {cur, cur'}]_vars

\* When no allocation of a handle fails, a C++ object lives only behind a
\* Matlab object that is open: failed constructors and deletions leave nothing.
DeletionFreesResources ==
  pc = "idle" => \A a \in Blocks(object) : \E o \in Objects : Open(o) /\ CppObject(o) = a

\* README.md:13: when Matlab has collected its objects, their C++ resources are freed.
CollectedObjectsAreFreed ==
  pc = "idle" /\ (\A o \in Objects : mstate[o] = "none") => Blocks(object) = {}

\* README.md:191: exceptions are translated into Matlab errors.
NoEscapedException == outcome # "escaped"

\* test/TestArmadillo.cpp:108: in a static method this->obj will be null.
StaticSeesNullObj == pc = "static" => ifaceObj[ModOf[cur]] = NULL

\* MexIFaceMixin.m:86-88: a call on a closed object creates its C++ object.
ClosedCallReopens == outcome # "undefined"
=============================================================================
