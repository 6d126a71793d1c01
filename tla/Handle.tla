------------------------------- MODULE Handle -------------------------------
(***************************************************************************)
(* Handle<T> of include/MexIFace/Handle.h: the C++ heap block that owns a   *)
(* wrapped C++ object and whose address is the number Matlab holds.  One    *)
(* MEX module wraps one C++ class T, so Handle<T> is Handle of a module m.  *)
(*                                                                          *)
(* The operators are the state changes of the member functions; MexIFace    *)
(* and MexIFaceMixin build the actions of the system from them.             *)
(*                                                                          *)
(* Addr is the memory there is for handles, and for objects: a finite set   *)
(* of addresses, reused freely once a block is deleted.  A block that is    *)
(* not allocated is NULL, which is also what the destructor's signature=0   *)
(* makes of a handle: neither is_valid.                                     *)
(***************************************************************************)
EXTENDS Naturals, FiniteSets

CONSTANTS
  Modules,    \* the MEX modules, each with its global iface object
  TypeName,   \* type_name<T>() of the class a module wraps
  Addr,       \* heap addresses
  Val,        \* the values the private state of a C++ object can have
  NULL        \* the null pointer

ASSUME AddrAssumption == IsFiniteSet(Addr) /\ NULL \notin Addr
ASSUME ModulesAssumption == NULL \notin Modules

VARIABLES
  object,     \* object[a]: the C++ object at a, the module that allocated it and its state
  handle,     \* handle[h]: the Handle<T> at h
  lock        \* lock[m]: Matlab's mexLock count of m

handleVars == <<object, handle, lock>>

Object == [mod : Modules, val : Val]
HandleBlock == [name : {TypeName[m] : m \in Modules}, obj : Addr]

\* An allocated block is never the null pointer.
ASSUME BlockAssumption == NULL \notin Object /\ NULL \notin HandleBlock

Blocks(heap) == {a \in Addr : heap[a] # NULL}

\* Mutant: getHandle compares the signature only, not the name.
IsValid_NoName(m, h) == h \in Addr /\ handle[h] # NULL

\* getHandle's checks: the argument is a UINT64 array, and the block it points to
\* carries the signature and the name of this module's class.  Anything that is
\* not an address stands for an argument of another class.
IsValid(m, h) ==
  /\ h \in Addr
  /\ handle[h] # NULL
  /\ handle[h].name = TypeName[m]

HandleInit ==
  /\ object = [a \in Addr |-> NULL]
  /\ handle = [a \in Addr |-> NULL]
  /\ lock = [m \in Modules |-> 0]

\* Mutant: makeHandle without mexLock.
MakeHandle_NoLock(m, a, h) ==
  /\ handle[h] = NULL
  /\ handle' = [handle EXCEPT ![h] = [name |-> TypeName[m], obj |-> a]]
  /\ UNCHANGED <<object, lock>>

\* makeHandle: mexLock() comes first, then the mxArray and the block are allocated.
MakeHandle(m, a, h) ==
  /\ lock' = [lock EXCEPT ![m] = @ + 1]
  /\ handle[h] = NULL
  /\ handle' = [handle EXCEPT ![h] = [name |-> TypeName[m], obj |-> a]]
  /\ UNCHANGED object

\* makeHandle when mxCreateNumericMatrix or new fails: the lock is already taken.
MakeHandleFails(m) ==
  /\ lock' = [lock EXCEPT ![m] = @ + 1]
  /\ UNCHANGED <<object, handle>>

\* Mutants: mexUnlock forgotten, called twice, and a destructor that keeps the object.
DestroyObject_NoUnlock(m, h) ==
  /\ object' = [object EXCEPT ![handle[h].obj] = NULL]
  /\ handle' = [handle EXCEPT ![h] = NULL]
  /\ UNCHANGED lock

DestroyObject_TwoUnlocks(m, h) ==
  /\ object' = [object EXCEPT ![handle[h].obj] = NULL]
  /\ handle' = [handle EXCEPT ![h] = NULL]
  /\ lock' = [lock EXCEPT ![m] = @ - 2]

DestroyObject_KeepsObject(m, h) ==
  /\ handle' = [handle EXCEPT ![h] = NULL]
  /\ lock' = [lock EXCEPT ![m] = @ - 1]
  /\ UNCHANGED object

\* destroyObject: the destructor of the block deletes the object it owns.
DestroyObject(m, h) ==
  /\ object' = [object EXCEPT ![handle[h].obj] = NULL]
  /\ handle' = [handle EXCEPT ![h] = NULL]
  /\ lock' = [lock EXCEPT ![m] = @ - 1]
=============================================================================
