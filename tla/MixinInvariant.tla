---------------------------- MODULE MixinInvariant ----------------------------
(***************************************************************************)
(* The inductive invariant of MexIFaceMixin: what has to hold between two   *)
(* steps for the properties stated there to survive the next one.           *)
(***************************************************************************)
EXTENDS MexIFaceMixin

\* What pc says about the command under way and the object it serves.
FrameOK ==
  /\ pc = "idle" <=> cur = NULL
  /\ cur # NULL => loaded[ModOf[cur]] /\ mstate[cur] # "none"
  /\ pc \in {"construct", "output", "assign"} => objectHandle[cur] = NULL
  /\ pc \in {"method", "destroy", "destroyed"} => objectHandle[cur] # NULL
  /\ \A o \in Objects :
       /\ mstate[o] = "none" => objectHandle[o] = NULL
       /\ mstate[o] = "deleting" => cur = o /\ pc \in {"destroy", "destroyed"}

\* A live handle owns a live object of the class it is named after, alone.
HeapOK ==
  /\ \A h \in Blocks(handle) :
       /\ object[handle[h].obj] # NULL
       /\ handle[h].name = TypeName[object[handle[h].obj].mod]
  /\ \A h1, h2 \in Blocks(handle) : handle[h1].obj = handle[h2].obj => h1 = h2

\* The two blocks an unfinished "@new" carries: an object no handle owns yet, then
\* a handle no Matlab object holds yet.
InFlightOK ==
  /\ pc = "output" =>
       /\ ret \in Blocks(object) /\ object[ret].mod = ModOf[cur]
       /\ \A h \in Blocks(handle) : handle[h].obj # ret
  /\ pc = "assign" =>
       /\ ret \in Blocks(handle) /\ object[handle[ret].obj].mod = ModOf[cur]
       /\ \A o \in Objects : objectHandle[o] # ret

\* An open Matlab object holds a live handle onto an object of its module, alone.
HoldOK ==
  /\ \A o \in Objects : Open(o) =>
       /\ objectHandle[o] \in Blocks(handle)
       /\ object[CppObject(o)].mod = ModOf[o]
  /\ \A p, q \in Objects : objectHandle[p] # NULL /\ objectHandle[p] = objectHandle[q] => p = q

\* A locked module is in memory.
LockedIsLoaded == \A m \in Modules : lock[m] # 0 => loaded[m]

\* The inductive invariant: the named parts above, and the counting of the locks.
IInv ==
  /\ TypeOK /\ FrameOK /\ HeapOK /\ InFlightOK /\ HoldOK
  /\ NoOrphanHandle /\ MethodHasOwnObject
  /\ LockedIsLoaded /\ LockCountsObjects
=============================================================================
