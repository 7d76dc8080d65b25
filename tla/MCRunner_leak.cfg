\* One model, two tasks: the counterexample needs no more.
SPECIFICATION Spec
CONSTANTS
  NModels = 1
  NTasks = 2
  Concurrencies = {2}
  MAX_CONCURRENCY = 32
  HttpModels = {1}
  Retries <- RetriesOnce
INVARIANT
  ReleasedAtExit
