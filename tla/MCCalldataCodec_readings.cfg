\* Calls with several amounts.
SPECIFICATION Spec
CONSTANTS
  Chains <- MCChains
  Tokens <- MCTokens
  Alias <- MCAlias
  Texts <- MCTexts
  Fold <- MCFold
  Checksum <- MCChecksum
  Absent = Absent
  Signatures <- MCSignatures
  Calls <- MixedCalls
  MaxUint <- MCMaxUint
  UnlimitedThreshold = 500
  Precision = 3
  MaxExponent = 5
INVARIANTS
  ReadingsReported
CHECK_DEADLOCK FALSE
