SPECIFICATION FairSpec
CONSTANTS
  a1 = a1
  a2 = a2
  ownA = ownA
  ownB = ownB
  e1 = e1
  e2 = e2
  e3 = e3
  Spellings <- MCSpellings
  Names <- MCNames
  Lower <- MCLower
  Addresses = {a1, a2}
  BadInput = BadInput
  Absent = Absent
  Reverts = Reverts
  DefaultRpcs <- MCDefaultRpcs
  Settings <- MCSettings
  Worlds <- MCWorlds
  MaxChanges = 2
INVARIANTS
  TypeOK
  VerdictGrounded
  SteadyAnswers
PROPERTIES
  FailoverInOrder
  Termination
CHECK_DEADLOCK FALSE
