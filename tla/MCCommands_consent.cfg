\* One model that Ollama serves on another machine, run without any consent.
SPECIFICATION CommandsSpec
CONSTANTS
  Suites <- OnlyRemoteOllama
  Invocations <- Plain
  Fixtures <- MCFixtures
  Versions <- MCVersions
  Ungradable = {"ungradable"}
  MaxCommands = 1
  MaxChanges = 0
  Paths <- MCPaths
  Resolved <- MCResolved
  FileOf <- MCFileOf
  Suffix <- MCSuffix
  FileCommands <- MCFileCommands
  FileWriters = {"p1"}
  CaseIds = {1, 2, 3, 4, 5}
  Rank <- MCRank
  PhoneLike = {5}
  OriginalFiles <- MCOriginalFiles
  MaxSteps = 3
  Keys <- MCKeys
  Measured <- MCMeasured
  Prices <- MCPrices
  PriceWriters = {"p1", "p2"}
  OriginalPrices <- MCOriginalPrices
  MaxPriceCommands = 3
  Fields = {"id", "flag"}
  BenchmarkCases <- MCBenchmarkCases
  ModelAnswers <- MCModelAnswers
  Rubrics <- MCRubrics
CHECK_DEADLOCK FALSE
INVARIANT
  DataStaysWithoutConsent
