\* Every pair of parameters, so a value and one that replaces it; every metadata of up
\* to three entries, two of a kind and one of another; bytes 0 to 8 and amounts of two;
\* a word of 2^18, so that block counts overflow.
SPECIFICATION Spec
CONSTANTS
  MaxParams = 2
  MaxEntries = 3
  Base = 9
  MaxAmountBytes = 2
  Requests <- MCRequests
  Amounts <- MCAmounts
  Exponents = {0, 1, 2, 3, 4}
  Bounds = {0, 500, 1000, 2345}
  Ppm <- MCPpm
  Seconds <- MCSeconds
  Blocks = {0, 1, 2, 6, 40, 144, 436, 437, 1008}
  Word = 262144
  Texts <- MCTexts
  None = None
INVARIANT SpellingDoesNotMatter
INVARIANT ShowsTheWholeUri
INVARIANT ReadsWhatWasWritten
INVARIANT ReadsTheMetadata
INVARIANT ReadsBack
\* The call has returned.
CHECK_DEADLOCK FALSE
