SPECIFICATION Spec
CONSTANTS
  Width <- MCWidth
  Digits <- MCDigits
  LeastExp <- MCLeastExp
  MaxExp <- MCMaxExp
  One = 64
INVARIANTS
  TypeOK
  LossIsConfined
  RefusalIsConfined
  TruncatesTowardsZero
CHECK_DEADLOCK FALSE
