\* One fair request: two addresses to try, repeated answers, a channel of two slots.
SPECIFICATION FairSpec
CONSTANTS
  Requests = {r1}
  MaxAddresses = 2
  Capacity = 2
  MaxInFlight = 2
  None = None
PROPERTY WaitsForOthersOnly
PROPERTY AnswerEndsRequest
PROPERTY ResultReachesClient
CHECK_DEADLOCK FALSE
