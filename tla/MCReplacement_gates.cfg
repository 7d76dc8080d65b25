\* Three cases; one lost success of three is a drop of 33 points, which the
\* thresholds allow, and two are not.
SPECIFICATION Spec
CONSTANTS
  NCases = 3
  Replies <- MCReplies
  MinimumSample = 3
  MaximumQualityDrop = 35
  MinimumCostReduction = 20
  MaximumLatency <- NotSet
  MinimumReliability = 34
  DeploymentCompatible = TRUE
  Constraints <- SomeConstraints
INVARIANTS
  RecommendedOnEvidence
  RightAnswersHelpWhoGivesThem
  FirstStageIsCovered
