\* Every kind of text; a graph that knows, names or does not know each key.
SPECIFICATION FairSpec
CONSTANTS
  user = user
  bank = bank
  lsp = lsp
  spark = spark
  Keys <- MCKeys
  Custodians = {bank}
  WrappingLsps = {lsp}
  Lsps = {lsp, spark}
  Sparks = {spark}
  Hints <- MCHints
  None = None
INVARIANT FindingsAreWhole
INVARIANT NamesShowBoth
INVARIANT OrderOfHints
PROPERTY EndsOrWaitsForOthers
\* The request is over.
CHECK_DEADLOCK FALSE
