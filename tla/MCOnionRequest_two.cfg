\* Two requests through the same introduction peer: one address, answers of
\* both in flight together, a channel that fills up.
SPECIFICATION Spec
CONSTANTS
  Requests = {r1, r2}
  MaxAddresses = 1
  Capacity = 1
  MaxInFlight = 2
  None = None
SYMMETRY Symmetry
INVARIANT TypeOK
INVARIANT NoLostAnswer
INVARIANT OwnRegistrations
PROPERTY FirstAnswerWins
PROPERTY NothingForNobody
PROPERTY KeepsPromise
\* A request may wait for its answer for ever, and all requests may have ended.
CHECK_DEADLOCK FALSE
