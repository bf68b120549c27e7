SPECIFICATION OwnerSpec
CONSTANTS
  Ids <- MCIds
  Numbers <- MCNumbers
INVARIANTS
  Sums
  OwnerIInv
