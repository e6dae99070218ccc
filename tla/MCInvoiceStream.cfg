\* An offer form and an LNURL form, one restart of the server, and one Reset or one
\* new investigation.
SPECIFICATION FairSpec
CONSTANTS
  Ids = {a, b}
  Offers = {a}
  MaxEvents = 2
  MaxRestarts = 1
  MaxResults = 1
INVARIANT TypeOK
INVARIANT AtMostOneRun
INVARIANT ShownInOrder
INVARIANT OneLiveSource
INVARIANT BarUntilResult
PROPERTY Settles
PROPERTY ResultIsSeen
\* Both requests may be over.
CHECK_DEADLOCK FALSE
