\* Amounts spelled with a sign or an exponent.
SPECIFICATION Spec
CONSTANTS
  Chains <- MCChains
  Tokens <- MCTokens
  Alias <- MCAlias
  Texts <- MCTexts
  Fold <- MCFold
  Checksum <- MCChecksum
  Absent = Absent
  Signatures <- MCSignatures
  Calls <- ExoticCalls
  MaxUint <- MCMaxUint
  UnlimitedThreshold = 500
  Precision = 3
  MaxExponent = 5
INVARIANTS
  AmountsAsWritten
CHECK_DEADLOCK FALSE
