SPECIFICATION Spec
CONSTANTS
  Payloads <- MCPayloads
  Chains <- MCChains
  Tokens <- MCTokens
  Alias <- MCAlias
  Texts <- MCTexts
  Fold <- MCFold
  Checksum <- MCChecksum
  Absent = Absent
  MaxDecimals = 3
  Precision = 3
  MaxExponent = 5
  TextLimit = 5
  SecondsBelow = 10
  MillisFrom = 20
  MillisBelow = 200
  PerSecond = 10
INVARIANTS
  TypeOK
  IdentityGrounded
  RegistryWins
  AmbiguityNeverGuessed
  ImpostorsFlagged
  DecimalsGrounded
  AmountsExactWithinPrecision
  InferencesReported
  Idempotent
CHECK_DEADLOCK FALSE
