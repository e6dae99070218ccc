\* The server and a command line or request beside it, one crash.
SPECIFICATION FairSpec
CONSTANTS
  Loaders = {server, other}
  TTL = 1
  MaxCrashes = 1
  None = None
INVARIANT BoundedStaleness
INVARIANT OwnFetchIsUsed
PROPERTY Recovers
