\* A server that answers two requests at a time and a run of the CLI beside it.
SPECIFICATION Spec
CONSTANTS
  server = server
  cli = cli
  s1 = s1
  s2 = s2
  cl = cl
  Processes = {server, cli}
  Callers = {s1, s2, cl}
  ProcessOf <- TwoProcesses
  Keys = {k1}
  None = None
  Torn = Torn
  Ttl = 1
  FetchTimeout = 1
  MaxTime = 4
INVARIANT TypeOK
INVARIANT BoundedStaleness
\* The clock stops at MaxTime.
CHECK_DEADLOCK FALSE
