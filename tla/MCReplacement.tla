--------------------------- MODULE MCReplacement ---------------------------
(* Instances of Replacement for TLC: the results each model can give.  For  *)
(* every failed answer there is the right one it could have been.           *)
EXTENDS Replacement

Silent(status) ==
  [status |-> status, quality |-> 0, latency |-> 0, cost |-> Unknown,
   policy |-> "none", json |-> "none", tool |-> "none"]

Answer(status, quality, latency, cost, policy, json, tool) ==
  [status |-> status, quality |-> quality, latency |-> latency, cost |-> cost,
   policy |-> policy, json |-> json, tool |-> tool]

BaselineResults ==
  {Silent("error"), Silent("timeout"),
   Answer("success", 100, 20, 4, "pass", "pass", "none"),
   Answer("failed", 30, 20, 4, "fail", "pass", "none")}

(* A priced model, a free local one, a hosted one without prices.           *)
CandidateResults ==
  {Silent("error"), Silent("timeout"),
   Answer("success", 100, 10, 1, "pass", "pass", "none"),
   Answer("failed", 40, 10, 1, "fail", "fail", "none"),
   Answer("failed", 70, 10, 1, "pass", "pass", "none"),
   Answer("success", 90, 60, 0, "none", "none", "pass"),
   Answer("failed", 20, 60, 0, "none", "none", "fail"),
   Answer("success", 80, 30, Unknown, "pass", "pass", "none")}

MCReplies == [m \in Models |-> IF m = "baseline" THEN BaselineResults
                                                 ELSE CandidateResults]

NoConstraints ==
  [minimum_success_rate |-> NotSet, maximum_p95_latency_ms |-> NotSet,
   maximum_cost_per_success_usd |-> NotSet, require_valid_json_rate |-> NotSet,
   require_policy_pass |-> FALSE, minimum_tool_accuracy |-> NotSet,
   maximum_timeout_rate |-> NotSet]

SomeConstraints ==
  [NoConstraints EXCEPT !.maximum_p95_latency_ms = 58,
                        !.minimum_tool_accuracy = 50,
                        !.maximum_timeout_rate = 40]
=============================================================================
