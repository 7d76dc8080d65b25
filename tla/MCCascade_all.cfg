\* Every condition; cases whose output is parsed, a case that is tagged.
SPECIFICATION Spec
CONSTANTS
  NCases = 3
  SuiteModels <- ThreeModels
  FirstStage = "cheap"
  EscalationModel = "strong"
  OnlyModels = {}
  Conditions = {"evaluator_failure", "invalid_json", "low_score", "timeout",
                "policy_failure", "low_confidence", "case_tag"}
  LowScore = 5
  LowConfidence = 10
  TaggedCases = {2}
  JsonCases = {1, 2}
  Replies <- MCReplies
INVARIANTS
  EscalationIsTraceable
  SummariesAddUp
  CostIsHonest
  EscalationOnlyHelps
