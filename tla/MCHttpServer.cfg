SPECIFICATION FairSpec
CONSTANTS
  Alice = Alice
  Bob = Bob
  Clients = {Alice, Bob}
  Prompt = {Alice}
  Requests <- MCRequests
  MayRaise <- MCMayRaise
  Nobody = Nobody
  NoRequest = NoRequest
  NotJson = NotJson
  NotAnObject = NotAnObject
  KeepAlive = TRUE
  Wait = 2
  Timeout = 1
  IdleLimit = 5
INVARIANTS
  TypeOK
  ChargedForDelivery
  AnsweredAsAsked
PROPERTIES
  KeptAwake
  Answered
