\* Two models of three tasks each, the first over HTTP and with one retry, the
\* second with none.  A concurrency of 5 is above the cap of two, which binds; 0
\* is below one and leaves one call at a time.
SPECIFICATION FairSpec
CONSTANTS
  NModels = 2
  NTasks = 3
  Concurrencies = {0, 5}
  MAX_CONCURRENCY = 2
  HttpModels = {1}
  Retries <- RetriesMixed
INVARIANTS
  CompleteAndOrdered
  ClientReleased
  RaisedRunIsLost
PROPERTIES
  ImplementsExecutor
  Termination
