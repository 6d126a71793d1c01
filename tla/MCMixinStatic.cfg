SPECIFICATION Spec
CONSTANTS
  o1 = o1
  o2 = o2
  o3 = o3
  armadillo = armadillo
  vmc = vmc
  Modules <- MCModules
  TypeName <- MCTypeName
  Objects <- MCObjects
  ModOf <- MCModOf
  Addr = {a1, a2}
  Val = {v1}
  NULL = NULL
  NotUint64 = NotUint64
  OutOfMemory = FALSE
INVARIANT StaticSeesNullObj
