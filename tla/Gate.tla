-------------------------------- MODULE Gate --------------------------------
(***************************************************************************)
(* `gate`: evaluate_gate and its checks (gates.py) under the command that  *)
(* loads two artifacts and exits with what they mean (cli/commands.py).    *)
(***************************************************************************)
EXTENDS Percentages, Sums, ReportCommand

CONSTANTS
  MinMetrics,   \* the metrics of GateMetrics that have a minimum
  MaxMetrics,   \* ... that have a maximum
  Risks,        \* risk levels of cases
  GateFiles     \* what the files of a gate can be

NotSet == -1
Dropping == {"quality", "success_rate"} \cap MinMetrics   \* compared with the baseline

(* A GateCaseEvidence; a verdict is a quality of 0 or 100.                  *)
CaseFields == {"quality", "success", "policy_pass", "business_success"}
Value == [num : Nat, den : 0 .. 1]
Rate == [num : 0 .. 100, den : 0 .. 1]
Artifact ==
  [valid : BOOLEAN, dataset : STRING, sample : Nat,
   metrics : {v \in [MinMetrics \cup MaxMetrics -> Value] :
                \A m \in MinMetrics : v[m] \in Rate},
   cases : Seq([risk : Risks, fields : [CaseFields -> Value]])]
Threshold == Nat \cup {NotSet}
Thresholds ==
  [sample : Nat \ {0},
   minimum : [MinMetrics -> Threshold], maximum : [MaxMetrics -> Threshold],
   drop : [Dropping -> Threshold], increase : Threshold, reduction : Threshold,
   risk : [Risks -> [CaseFields -> Threshold] \cup {<< >>}]]

ASSUME MetricsAssumption ==
  /\ {"p95_latency_ms", "estimated_cost_usd"} \subseteq MaxMetrics
  /\ MinMetrics \cap MaxMetrics = {}
ASSUME GateFilesAssumption ==
  \A f \in GateFiles :
    /\ f.same \in BOOLEAN
    /\ {f.baseline, f.candidate} \subseteq Artifact
    /\ f.thresholds \in Thresholds

-----------------------------------------------------------------------------
(* add(): what is missing did not pass. *)
Check(name, missing, holds) ==
  [name |-> name, missing |-> missing, passed |-> ~missing /\ holds]

(* minimum() and maximum(): there is no check without a threshold.          *)
Minimum(name, v, threshold) ==
  IF threshold = NotSet THEN {}
  ELSE {Check(name, ~Known(v), v.num >= threshold * v.den)}

(* Mutant: a metric that is not there is not checked. *)
MaximumOfKnown(name, v, threshold) ==
  IF threshold = NotSet \/ ~Known(v) THEN {}
  ELSE {Check(name, FALSE, v.num <= threshold * v.den)}

Maximum(name, v, threshold) ==
  IF threshold = NotSet THEN {}
  ELSE {Check(name, ~Known(v), v.num <= threshold * v.den)}

(* Mutant: a metric may not move, in either direction. *)
MovedBy(v, w) ==
  IF ~(Known(v) /\ Known(w)) THEN Unknown
  ELSE Exactly(IF v.num < w.num THEN w.num - v.num ELSE v.num - w.num)

(* By how much the candidate lost to the baseline. *)
DropFrom(v, w) ==
  IF Known(v) /\ Known(w) THEN Exactly(v.num - w.num) ELSE Unknown

(* A ratio needs a baseline that is not zero. *)
RatioChecks(b, c, t) ==
  LET latency == "p95_latency_ms"  cost == "estimated_cost_usd"
  IN  (IF t.increase = NotSet THEN {}
       ELSE {Check(<<"increase">>, ~Comparable(b[latency], c[latency]),
                   ~IncreaseAbove(b[latency], c[latency], t.increase))})
      \cup
      (IF t.reduction = NotSet THEN {}
       ELSE {Check(<<"reduction">>, ~Comparable(b[cost], c[cost]),
                   ~ReductionBelow(b[cost], c[cost], t.reduction))})

(* The mean of what the cases of one risk level say of a field.             *)
MeanOf(cases, S, field) ==
  LET said == {i \in S : Known(cases[i].fields[field])}
  IN  [num |-> RunningSum([i \in DOMAIN cases |->
                             IF i \in said THEN cases[i].fields[field].num ELSE 0],
                          Len(cases)),
       den |-> Cardinality(said)]

(* << >> where thresholds.risk_specific has nothing for the risk level.     *)
RiskChecks(cases, risk, minimum) ==
  LET S == {i \in DOMAIN cases : cases[i].risk = risk}
  IN  IF minimum = << >> THEN {}
      ELSE IF S = {} THEN {Check(<<risk, "sample">>, TRUE, FALSE)}
      ELSE UNION {Minimum(<<risk, f>>, MeanOf(cases, S, f), minimum[f]) :
                    f \in DOMAIN minimum}

Checks(baseline, candidate, t) ==
  LET b == baseline.metrics  c == candidate.metrics
      few == candidate.sample < t.sample
  IN  {Check(<<"sample">>, few, TRUE),
       Check(<<"dataset">>, FALSE, baseline.dataset = candidate.dataset)}
      \cup (UNION {Minimum(<<m>>, c[m], t.minimum[m]) : m \in MinMetrics})
      \cup (UNION {Maximum(<<m>>, c[m], t.maximum[m]) : m \in MaxMetrics})
      \cup (UNION {Maximum(<<"drop", m>>, DropFrom(b[m], c[m]), t.drop[m]) :
                     m \in Dropping})
      \cup RatioChecks(b, c, t)
      \cup (UNION {RiskChecks(candidate.cases, r, t.risk[r]) : r \in Risks})

(* The status of evaluate_gate: a regression outranks missing evidence.     *)
Status(baseline, candidate, t) ==
  LET failed == {c \in Checks(baseline, candidate, t) : ~c.passed}
  IN  IF failed = {} THEN "pass"
      ELSE IF \E c \in failed : ~c.missing THEN "regression"
      ELSE "insufficient_evidence"

ExitCodeOf ==
  [s \in {"pass", "regression", "insufficient_evidence"} |->
     IF s = "pass" THEN SUCCESS
     ELSE IF s = "regression" THEN CONSTRAINTS_FAILED ELSE PARTIAL_RUN]

-----------------------------------------------------------------------------
(* Without --output the verdict is printed. *)
GateInit ==
  /\ Init
  /\ command = "gate"
  /\ profile = "none"
  /\ input \in GateFiles
  /\ \A a \in Artifacts \ {"output"} : destination[a] = Nowhere

(* One artifact for both models, or a file that is no artifact.             *)
GateRefused ==
  /\ command = "gate" /\ stage = "start"
  /\ input.same \/ ~input.baseline.valid \/ ~input.candidate.valid
  /\ End(INVALID_INPUT)

GateEvaluated ==
  /\ command = "gate" /\ stage = "start"
  /\ ~input.same /\ input.baseline.valid /\ input.candidate.valid
  /\ Decided([status |-> Status(input.baseline, input.candidate, input.thresholds)])

GateWrites ==
  /\ command = "gate"
  /\ \/ WriteNext(<< >>)
     \/ WriteRaised
     \/ Written(ExitCodeOf[verdict.status])

-----------------------------------------------------------------------------
HasStatus == command = "gate" /\ verdict # << >>

Standing == [s \in DOMAIN ExitCodeOf |->
               IF s = "pass" THEN 2 ELSE IF s = "regression" THEN 0 ELSE 1]

(* No check of the gate points the wrong way: with one metric of the        *)
(* candidate at its best, and everything else as it was, the gate is no     *)
(* stricter with it.                                                        *)
GateIsMonotone ==
  HasStatus =>
    \A m \in MinMetrics \cup MaxMetrics :
      LET best == IF m \in MinMetrics THEN Exactly(100) ELSE Exactly(0)
          better == [input.candidate EXCEPT !.metrics[m] = best]
      IN  Known(input.candidate.metrics[m]) =>
            Standing[Status(input.baseline, better, input.thresholds)]
              >= Standing[verdict.status]

(* The cases that are left when those of a risk level are left out.         *)
OtherCases(cases, risk) ==
  Only(cases, {i \in DOMAIN cases : cases[i].risk # risk}, Len(cases))

(* A gate that did not pass does not pass either when a metric of one of    *)
(* the artifacts, or all cases of a risk level, are left out.               *)
WithheldEvidenceNeverPasses ==
  HasStatus /\ verdict.status # "pass" =>
    /\ \A m \in MinMetrics \cup MaxMetrics :
         LET Without(artifact) == [artifact EXCEPT !.metrics[m] = Unknown]
         IN  /\ Status(input.baseline, Without(input.candidate),
                       input.thresholds) # "pass"
             /\ Status(Without(input.baseline), input.candidate,
                       input.thresholds) # "pass"
    /\ \A r \in Risks :
         Status(input.baseline,
                [input.candidate EXCEPT !.cases = OtherCases(@, r)],
                input.thresholds) # "pass"
=============================================================================
