SPECIFICATION Spec
CONSTANTS
  RawTrades <- MCRawTrades
  Requests <- NotFiniteRequests
  Assets <- MCAssets
  Upper <- MCUpper
  MaxTrades = 4
  MaxLength = 2
  Digits = 4
  Scale = 1000
  MilliFrom = 100
  PerSecond = 10
  FloatLiteral = FloatLiteral
  NotANumber = NotANumber
  Infinite = Infinite
  NoTime = NoTime
  NotAnObject = NotAnObject
  NoRaw = NoRaw
  NotAList = NotAList
  NotDays = NotDays
  OddDays = OddDays
  NoAsset = NoAsset
  NaN = NaN
  SecondsPerDay = 2
  CheckerDigits = 1
  DaysAsked <- MCDays
INVARIANTS
  CheckerComplete
CHECK_DEADLOCK FALSE
