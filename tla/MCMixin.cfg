SPECIFICATION Spec
CONSTANTS
  o1 = o1
  o2 = o2
  o3 = o3
  armadillo = armadillo
  vmc = vmc
  Modules <- MCModules
  TypeName <- MCTypeName
  Objects <- MCObjects
  ModOf <- MCModOf
  Addr = {a1, a2, a3}
  Val = {v1, v2}
  NULL = NULL
  NotUint64 = NotUint64
  OutOfMemory = TRUE
SYMMETRY MCSymmetry
INVARIANTS
  TypeOK
  IInv
  HandlesAreOwned
  NoOrphanHandle
  LockCountsObjects
  UnloadIsSafe
  MethodHasOwnObject
PROPERTIES
  OnlyCallerChanges
  ImplementsService
