\* Three commands on suites and one change of the world, three on datasets,
\* three on prices, and the grading of one answer.  The user may stop at any
\* time, so deadlock is not checked.
SPECIFICATION CommandsSpec
CONSTANTS
  Suites <- MCSuites
  Invocations <- MCInvocations
  Fixtures <- MCFixtures
  Versions <- MCVersions
  Ungradable = {"ungradable"}
  MaxCommands = 3
  MaxChanges = 1
  Paths <- MCPaths
  Resolved <- MCResolved
  FileOf <- MCFileOf
  Suffix <- MCSuffix
  FileCommands <- MCFileCommands
  FileWriters = {"p1"}
  CaseIds = {1, 2, 3, 4, 5}
  Rank <- MCRank
  PhoneLike = {5}
  OriginalFiles <- MCOriginalFiles
  MaxSteps = 3
  Keys <- MCKeys
  Measured <- MCMeasured
  Prices <- MCPrices
  PriceWriters = {"p1", "p2"}
  OriginalPrices <- MCOriginalPrices
  MaxPriceCommands = 3
  Fields = {"id", "flag"}
  BenchmarkCases <- MCBenchmarkCases
  ModelAnswers <- MCModelAnswers
  Rubrics <- MCRubrics
CHECK_DEADLOCK FALSE
INVARIANTS
  CompatibleNeedsBothConsents
  AcceptedIsCarriedOut
  ReproductionRepeats
  SetIsKept
  GradingIsSound
PROPERTIES
  SplitPartitions
  OnlyOutputsChange
  ResplitMovesOne
