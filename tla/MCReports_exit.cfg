\* Rows of which one has no price.
SPECIFICATION EvidenceSpec
CONSTANTS
  FileOf <- MCFileOf
  Existing <- MCExisting
  InputPath = "in"
  Invocations <- MCInvocations
  MinRetention = 80
  MaxIncrease = 50
  MinReduction = 20
  TaskFiles <- MCTaskFiles
  MinimumSample = 20
  MaxTasks = 2
  ExitFiles <- MCExitFiles
  MinMetrics <- Mins
  MaxMetrics <- Maxs
  Risks = {"low", "high"}
  GateFiles <- MCGateFiles
  Names <- MCNames
  Lower <- MCLower
  Rows <- MCRows
  References <- MCReferences
  MaxRows = 3
  Records <- MCRecords
  MaxRecords <- MCMaxRecords
  Steps <- MCSteps
  Expectations <- MCExpectations
  StepLimit = 2
  MaxSteps = 4
  MaxDelivered = 2
INVARIANT
  MissingPriceIsNotZero
