\* Every kind of LNURL and two amounts, every kind of answer.  The channel has one
\* slot more than there are steps; the code gives it 100.
SPECIFICATION FairSpec
CONSTANTS
  Amounts = {0, 1}
  Capacity = 5
  None = None
INVARIANT OkIsWhatWasAsked
INVARIANT ClosedWithoutResult
PROPERTY NoCallForNobody
PROPERTY TaskEnds
PROPERTY KeepsPromise
\* The call is over.
CHECK_DEADLOCK FALSE
