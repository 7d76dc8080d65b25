---------------------------- MODULE Replacement ----------------------------
(***************************************************************************)
(* From results to a recommendation: build_model_summary and               *)
(* check_constraints (scoring/aggregation.py), decide_replacement          *)
(* (scoring/replacement.py) and the part of BenchmarkRunner._finalize that *)
(* calls them, for one baseline and one candidate.  The results come from  *)
(* a comparison, every case on both models, or from a cascade, every case  *)
(* on the candidate and the escalated ones on the baseline.                *)
(*                                                                         *)
(* Rates and qualities are compared as fractions, multiplied out: the      *)
(* rounding of floating-point numbers is not modelled.                     *)
(***************************************************************************)
EXTENDS Integers, Sequences, FiniteSets, Sums

CONSTANTS
  NCases,                 \* cases x repetitions
  Replies,                \* per model, the results run_case can give
  MinimumSample,          \* MINIMUM_RECOMMENDED_SAMPLE_SIZE
  MaximumQualityDrop,     \* ReplacementConfig; rates are percentages
  MinimumCostReduction,
  MaximumLatency,         \* ... NotSet for None, as below
  MinimumReliability,
  DeploymentCompatible,   \* the candidate is local, or hosting is permitted
  Constraints             \* suite.constraints

Models == {"baseline", "candidate"}
NotSet == -1
Unknown == -1   \* a cost of None

Lost == {"error", "timeout"}
Graded == {"success", "failed"}
Verdicts == {"none", "pass", "fail"}   \* "none": no such evaluator ran

Reply ==
  [status : Lost \cup Graded, quality : 0 .. 100, latency : Nat,
   cost : Nat \cup {Unknown}, policy : Verdicts, json : Verdicts, tool : Verdicts]

(* A call without an answer was not evaluated; SUCCESS means that every     *)
(* graded evaluator passed.                                                 *)
ASSUME RepliesAssumption ==
  \A m \in Models : \A r \in Replies[m] :
    /\ r \in Reply
    /\ r.status \in Lost =>
         r.cost = Unknown /\ {r.policy, r.json, r.tool} = {"none"}
    /\ r.status = "success" => "fail" \notin {r.policy, r.tool}
ASSUME CasesAssumption == NCases \in Nat \ {0}
ASSUME SampleAssumption == MinimumSample \in Nat
ASSUME ThresholdsAssumption ==
  /\ {MaximumQualityDrop, MinimumCostReduction} \subseteq Nat
  /\ {MaximumLatency, MinimumReliability} \subseteq Nat \cup {NotSet}
  /\ DeploymentCompatible \in BOOLEAN
  /\ Constraints \in
       [minimum_success_rate : Nat \cup {NotSet},
        maximum_p95_latency_ms : Nat \cup {NotSet},
        maximum_cost_per_success_usd : Nat \cup {NotSet},
        require_valid_json_rate : Nat \cup {NotSet},
        require_policy_pass : BOOLEAN,
        minimum_tool_accuracy : Nat \cup {NotSet},
        maximum_timeout_rate : Nat \cup {NotSet}]

VARIABLES
  mode,      \* run.mode: "comparison" or "cascade"
  stage,     \* "running" or "decided"
  results,   \* run.case_results, per model
  final,     \* cascade_summary.final_success
  failing,   \* the constraints that did not pass, per model
  decision   \* run.replacement_decisions, of the candidate

vars == <<mode, stage, results, final, failing, decision>>

Undecided == [eligible |-> FALSE, recommendation |-> "none"]

Init ==
  /\ mode \in {"comparison", "cascade"}
  /\ stage = "running"
  /\ results = [m \in Models |-> << >>]
  /\ final = 0
  /\ failing = [m \in Models |-> {}]
  /\ decision = Undecided

-----------------------------------------------------------------------------
(* scoring/metrics.py *)

(* rate(): 0.0 when the denominator is 0. *)
Positive(n) == IF n = 0 THEN 1 ELSE n
AtLeast(num, den, percent) == 100 * num >= percent * Positive(den)

(* percentile(.., 95) with linear interpolation, in hundredths; 0 for no    *)
(* values.  Ordered(f, S, k) is the k-th smallest of the values of f on S.  *)
Ordered(f, S, k) ==
  CHOOSE v \in {f[i] : i \in S} :
    /\ Cardinality({i \in S : f[i] < v}) < k
    /\ Cardinality({i \in S : f[i] <= v}) >= k

P95(f, S) ==
  IF S = {} THEN 0
  ELSE LET n == Cardinality(S)
           rank == 95 * (n - 1)
           low == Ordered(f, S, rank \div 100 + 1)
           high == Ordered(f, S, IF rank \div 100 + 2 <= n
                                 THEN rank \div 100 + 2 ELSE n)
       IN  100 * low + (high - low) * (rank % 100)

SumOn(f, S) == RunningSum([i \in DOMAIN f |-> IF i \in S THEN f[i] ELSE 0], Len(f))

-----------------------------------------------------------------------------
(* scoring/aggregation.py *)

WithStatus(rs, s) == {i \in DOMAIN rs : rs[i].status = s}
Executed(rs) == {i \in DOMAIN rs : rs[i].status \in Graded}
Seen(rs, evaluator) == {i \in DOMAIN rs : rs[i][evaluator] # "none"}
Passing(rs, evaluator) == {i \in DOMAIN rs : rs[i][evaluator] = "pass"}

Field(rs, name) == [i \in DOMAIN rs |-> rs[i][name]]

(* Mutant: a call whose cost is unknown costs nothing. *)
TotalCostOfKnown(rs) ==
  SumOn(Field(rs, "cost"), {i \in Executed(rs) : rs[i].cost # Unknown})

(* Unknown (None) propagates, and no executed call is unknown too. *)
TotalCost(rs) ==
  IF Executed(rs) = {} \/ \E i \in Executed(rs) : rs[i].cost = Unknown
  THEN Unknown
  ELSE SumOn(Field(rs, "cost"), Executed(rs))

(* build_model_summary; a rate is kept as its two counts. *)
ModelSummary(rs) ==
  [total      |-> Len(rs),
   successful |-> Cardinality(WithStatus(rs, "success")),
   errors     |-> Cardinality(WithStatus(rs, "error")),
   timeouts   |-> Cardinality(WithStatus(rs, "timeout")),
   executed   |-> Cardinality(Executed(rs)),
   quality    |-> SumOn(Field(rs, "quality"), Executed(rs)),
   cost       |-> TotalCost(rs),
   p95        |-> P95(Field(rs, "latency"), Executed(rs)),
   seen   |-> [e \in {"policy", "json", "tool"} |-> Cardinality(Seen(rs, e))],
   passed |-> [e \in {"policy", "json", "tool"} |-> Cardinality(Passing(rs, e))],
   sufficient |-> Len(rs) >= MinimumSample]

CostPerSuccessKnown(s) == s.cost # Unknown /\ s.successful > 0

(* check_constraints: the names of those that do not pass.  Without tool    *)
(* evidence minimum_tool_accuracy is not checked.                           *)
FailingConstraints(s) ==
  LET C == Constraints
      Rate(e, minimum) == s.seen[e] > 0 /\ AtLeast(s.passed[e], s.seen[e], minimum)
      passes ==
        [minimum_success_rate |->
           AtLeast(s.successful, s.total, C.minimum_success_rate),
         maximum_p95_latency_ms |->
           C.maximum_p95_latency_ms # NotSet => s.p95 <= 100 * C.maximum_p95_latency_ms,
         maximum_cost_per_success_usd |->
           C.maximum_cost_per_success_usd # NotSet =>
             /\ CostPerSuccessKnown(s)
             /\ s.cost <= C.maximum_cost_per_success_usd * s.successful,
         require_valid_json_rate |->
           C.require_valid_json_rate # NotSet => Rate("json", C.require_valid_json_rate),
         require_policy_pass |-> C.require_policy_pass => Rate("policy", 100),
         minimum_tool_accuracy |->
           C.minimum_tool_accuracy # NotSet /\ s.seen["tool"] > 0 =>
             Rate("tool", C.minimum_tool_accuracy),
         maximum_timeout_rate |->
           C.maximum_timeout_rate # NotSet =>
             100 * s.timeouts <= C.maximum_timeout_rate * Positive(s.total)]
  IN  {c \in DOMAIN passes : ~passes[c]}

-----------------------------------------------------------------------------
(* scoring/replacement.py *)

NoRatio == [known |-> FALSE, num |-> 0, den |-> 1]

(* _cost_reduction_ratio: by cost per success when both are known and the   *)
(* baseline's is not zero, or else by total cost.                           *)
CostReduction(b, c) ==
  IF CostPerSuccessKnown(b) /\ CostPerSuccessKnown(c) /\ b.cost > 0
  THEN [known |-> TRUE, num |-> b.cost * c.successful - c.cost * b.successful,
        den |-> b.cost * c.successful]
  ELSE IF b.cost # Unknown /\ c.cost # Unknown /\ b.cost > 0
  THEN [known |-> TRUE, num |-> b.cost - c.cost, den |-> b.cost]
  ELSE NoRatio

CostOk(b, c) ==
  LET ratio == CostReduction(b, c) IN
  ratio.known /\ 100 * ratio.num >= MinimumCostReduction * ratio.den

PolicyEvaluated(c) == c.seen["policy"] > 0
PolicyPass(c) == PolicyEvaluated(c) /\ c.passed["policy"] >= c.seen["policy"]

(* The mean quality of no executed call is 0.0, the success rate of no      *)
(* result too.                                                              *)
QualityDropped(b, c) ==
  LET bn == Positive(b.executed) cn == Positive(c.executed) IN
  b.quality * cn - c.quality * bn > MaximumQualityDrop * bn * cn

(* Mutant: any difference of the success rates, in either direction.        *)
SuccessRateDiffers(b, c) ==
  LET bn == Positive(b.total) cn == Positive(c.total)
      drop == b.successful * cn - c.successful * bn IN
  100 * (IF drop < 0 THEN -drop ELSE drop) > MaximumQualityDrop * bn * cn

SuccessRateDropped(b, c) ==
  LET bn == Positive(b.total) cn == Positive(c.total) IN
  100 * (b.successful * cn - c.successful * bn) > MaximumQualityDrop * bn * cn

(* Whether decide_replacement lists anything in `failed`. *)
GateFailed(b, c) ==
  \/ QualityDropped(b, c)
  \/ SuccessRateDropped(b, c)
  \/ MinimumReliability # NotSet /\ ~AtLeast(c.successful, c.total, MinimumReliability)
  \/ MaximumLatency # NotSet /\ c.p95 > 100 * MaximumLatency
  \/ PolicyEvaluated(c) /\ ~PolicyPass(c)
  \/ ~DeploymentCompatible
  \/ FailingConstraints(c) # {}

(* Mutant: the policy gate is left to `failed`, which is not empty here.    *)
CascadeRecoversAnyway(b, c, recovered) ==
  /\ mode = "cascade"
  /\ recovered * Positive(b.total) >= b.successful * NCases
  /\ AtLeast(recovered, NCases, MinimumReliability)
  /\ DeploymentCompatible

(* cascade.final_success_rate against the baseline's and the required one.  *)
CascadeRecovers(b, c, recovered) ==
  /\ mode = "cascade"
  /\ recovered * Positive(b.total) >= b.successful * NCases
  /\ AtLeast(recovered, NCases, MinimumReliability)
  /\ PolicyPass(c)
  /\ DeploymentCompatible

TooLittleEvidence(c) ==
  \/ c.total = 0
  \/ c.successful = 0 /\ c.errors = c.total
  \/ ~c.sufficient

(* The decision ladder. *)
Decide(b, c, recovered) ==
  IF TooLittleEvidence(c)
  THEN [eligible |-> FALSE, recommendation |-> "insufficient evidence"]
  ELSE IF GateFailed(b, c)
  THEN [eligible |-> FALSE,
        recommendation |-> IF CascadeRecovers(b, c, recovered)
                           THEN "first stage" ELSE "not recommended"]
  ELSE [eligible |-> TRUE,
        recommendation |-> IF CostOk(b, c) /\ PolicyEvaluated(c)
                           THEN "recommended" ELSE "with conditions"]

-----------------------------------------------------------------------------
One(r) == IF r.status = "success" THEN 1 ELSE 0

(* _run_comparison: the models one after the other, here the baseline first. *)
Compare ==
  /\ stage = "running"
  /\ mode = "comparison"
  /\ Len(results["candidate"]) < NCases
  /\ LET m == IF Len(results["baseline"]) < NCases THEN "baseline" ELSE "candidate"
     IN  \E r \in Replies[m] : results' = [results EXCEPT ![m] = Append(@, r)]
  /\ UNCHANGED <<mode, stage, final, failing, decision>>

(* run_cascade, with the candidate as first stage: a case ends there ...    *)
KeepFirst ==
  /\ stage = "running"
  /\ mode = "cascade"
  /\ Len(results["candidate"]) < NCases
  /\ \E r \in Replies["candidate"] :
       /\ results' = [results EXCEPT !["candidate"] = Append(@, r)]
       /\ final' = final + One(r)
  /\ UNCHANGED <<mode, stage, failing, decision>>

(* ... or is escalated to the baseline; `case_tag` can escalate any.        *)
Escalate ==
  /\ stage = "running"
  /\ mode = "cascade"
  /\ Len(results["candidate"]) < NCases
  /\ \E first \in Replies["candidate"], second \in Replies["baseline"] :
       /\ results' = [results EXCEPT !["candidate"] = Append(@, first),
                                     !["baseline"] = Append(@, second)]
       /\ final' = final + One(second)
  /\ UNCHANGED <<mode, stage, failing, decision>>

(* _finalize *)
Finalize ==
  /\ stage = "running"
  /\ Len(results["candidate"]) = NCases
  /\ stage' = "decided"
  /\ LET summary == [m \in Models |-> ModelSummary(results[m])] IN
     /\ failing' = [m \in Models |-> FailingConstraints(summary[m])]
     /\ decision' = Decide(summary["baseline"], summary["candidate"], final)
  /\ UNCHANGED <<mode, results, final>>

Decided == stage = "decided" /\ UNCHANGED vars

Next == Compare \/ KeepFirst \/ Escalate \/ Finalize \/ Decided

Spec == Init /\ [][Next]_vars

-----------------------------------------------------------------------------
(* Properties. *)

Recommendations == {"none", "insufficient evidence", "not recommended",
                    "first stage", "with conditions", "recommended"}

(* Every variable has its type. *)
TypeOK ==
  /\ mode \in {"comparison", "cascade"}
  /\ stage \in {"running", "decided"}
  /\ results \in [Models -> Seq(Reply)]
  /\ \A m \in Models : Len(results[m]) <= NCases
  /\ final \in 0 .. NCases
  /\ failing \in [Models -> SUBSET DOMAIN Constraints]
  /\ decision \in [eligible : BOOLEAN, recommendation : Recommendations]

Baseline == results["baseline"]
Candidate == results["candidate"]

(* "A candidate is recommended only when every required gate passes"        *)
(* (replacement.py): what the recommendation must find in the stored        *)
(* results.  A gate without evidence is not passed, and a cost nobody knows *)
(* is not a saving.                                                         *)
RecommendedOnEvidence ==
  /\ decision.eligible =>
       /\ Len(Candidate) >= MinimumSample
       /\ \A i \in DOMAIN Candidate : Candidate[i].policy # "fail"
       /\ failing["candidate"] = {}
       /\ DeploymentCompatible
  /\ decision.recommendation = "recommended" =>
       /\ \E i \in DOMAIN Candidate : Candidate[i].policy = "pass"
       /\ \A m \in Models :
            /\ Executed(results[m]) # {}
            /\ \A i \in Executed(results[m]) : results[m][i].cost # Unknown

(* b is what a model could have answered instead of a, the same but right.  *)
Corrects(a, b) ==
  /\ a.status = "failed" /\ b.status = "success"
  /\ a.quality <= b.quality
  /\ a.latency = b.latency /\ a.cost = b.cost
  /\ \A e \in {"policy", "json", "tool"} :
       a[e] # b[e] => a[e] = "fail" /\ b[e] = "pass"

Verdict(rs) ==
  Decide(ModelSummary(rs["baseline"]), ModelSummary(rs["candidate"]), final)

(* No gate works backwards: had a failed answer of the candidate been a     *)
(* right one, an eligible candidate would still be eligible; had one of the *)
(* baseline been, a rejected candidate would still be rejected.             *)
RightAnswersHelpWhoGivesThem ==
  stage = "decided" =>
    \A m \in Models : \A i \in DOMAIN results[m], r \in Replies[m] :
      Corrects(results[m][i], r) =>
        LET corrected == Verdict([results EXCEPT ![m][i] = r]).eligible IN
        IF m = "candidate" THEN decision.eligible => corrected
                           ELSE corrected => decision.eligible

(* A candidate that fails a gate is a first stage only in a cascade, which  *)
(* did at least as well as the baseline where that was asked and as well as *)
(* minimum_reliability demands, and never against the policy evidence.      *)
FirstStageIsCovered ==
  decision.recommendation = "first stage" =>
    /\ mode = "cascade"
    /\ Len(Candidate) >= MinimumSample
    /\ \E i \in DOMAIN Candidate : Candidate[i].policy = "pass"
    /\ \A i \in DOMAIN Candidate : Candidate[i].policy # "fail"
    /\ 100 * final >= MinimumReliability * NCases
    /\ NCases * Cardinality(WithStatus(Baseline, "success")) <= final * Len(Baseline)
    /\ DeploymentCompatible
=============================================================================
