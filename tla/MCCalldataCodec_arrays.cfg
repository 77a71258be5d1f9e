\* A function with an array of integers.
SPECIFICATION Spec
CONSTANTS
  Chains <- MCChains
  Tokens <- MCTokens
  Alias <- MCAlias
  Texts <- MCTexts
  Fold <- MCFold
  Checksum <- MCChecksum
  Absent = Absent
  Signatures <- MCSignatures
  Calls <- BatchCalls
  MaxUint <- MCMaxUint
  UnlimitedThreshold = 500
  Precision = 3
  MaxExponent = 5
INVARIANTS
  ScopeOfTheDecoder
CHECK_DEADLOCK FALSE
