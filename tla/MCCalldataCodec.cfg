\* Every call against every property that holds.
SPECIFICATION Spec
CONSTANTS
  Chains <- MCChains
  Tokens <- MCTokens
  Alias <- MCAlias
  Texts <- MCTexts
  Fold <- MCFold
  Checksum <- MCChecksum
  Absent = Absent
  Signatures <- MCSignatures
  Calls <- MCCalls
  MaxUint <- MCMaxUint
  UnlimitedThreshold = 500
  Precision = 3
  MaxExponent = 5
INVARIANTS
  TypeOK
  RoundTrip
  WarnedBeforeSigning
  DecoderIsHonest
  DecimalsOfTheToken
  PlainAmountsAsWritten
\* A call that was refused or read has no next step.
CHECK_DEADLOCK FALSE
