SPECIFICATION Spec
CONSTANTS
  Width <- MCWidth
  Digits <- MCDigits
  LeastExp <- MCLeastExp
  MaxExp <- MCMaxExp
  One = 64
INVARIANT IntegersAreKept
CHECK_DEADLOCK FALSE
