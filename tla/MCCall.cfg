SPECIFICATION Spec
CONSTANTS
  Interface <- MCInterface
  Inputs <- MCInputs
  MaxIn = 4
  MaxOut = 4
INVARIANTS
  TypeOK
  NoWildAccess
  InputsInOrder
  InputsAreUsed
  OutputsAreAssigned
  ChangesFollowInputs
