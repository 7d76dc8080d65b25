\* One suite whose two fixtures differ in the name of the model and of the file
\* but not in both together; one of them is edited, the suite run, the run
\* reproduced.
SPECIFICATION CommandsSpec
CONSTANTS
  Suites <- OnlyColliding
  Invocations <- Plain
  Fixtures <- MCFixtures
  Versions <- MCVersions
  Ungradable = {"ungradable"}
  MaxCommands = 2
  MaxChanges = 1
  Paths <- MCPaths
  Resolved <- MCResolved
  FileOf <- MCFileOf
  Suffix <- MCSuffix
  FileCommands <- MCFileCommands
  FileWriters = {"p1"}
  CaseIds = {1, 2, 3, 4, 5}
  Rank <- MCRank
  PhoneLike = {5}
  OriginalFiles <- MCOriginalFiles
  MaxSteps = 3
  Keys <- MCKeys
  Measured <- MCMeasured
  Prices <- MCPrices
  PriceWriters = {"p1", "p2"}
  OriginalPrices <- MCOriginalPrices
  MaxPriceCommands = 3
  Fields = {"id", "flag"}
  BenchmarkCases <- MCBenchmarkCases
  ModelAnswers <- MCModelAnswers
  Rubrics <- MCRubrics
CHECK_DEADLOCK FALSE
INVARIANT
  SavedRunsReproduce
