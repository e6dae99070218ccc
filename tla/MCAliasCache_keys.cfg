\* A server that looks up two keys for two requests at a time.
SPECIFICATION FairSpec
CONSTANTS
  server = server
  cli = cli
  s1 = s1
  s2 = s2
  cl = cl
  Processes = {server}
  Callers = {s1, s2}
  ProcessOf <- OneProcess
  Keys = {k1, k2}
  None = None
  Torn = Torn
  Ttl = 1
  FetchTimeout = 1
  MaxTime = 2
PROPERTY NoLostEntry
PROPERTY ResolveEnds
\* The clock stops at MaxTime.
CHECK_DEADLOCK FALSE
