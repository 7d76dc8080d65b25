---------------------------- MODULE Percentages ----------------------------
(* The percentages reports/exit_report.py and reports/route_plan.py compare *)
(* with a threshold, multiplied out instead of divided.  A value is a       *)
(* fraction [num, den], the mean of den numbers, None when den is 0.        *)
EXTENDS Integers

Unknown == [num |-> 0, den |-> 0]
Exactly(n) == [num |-> n, den |-> 1]
Known(v) == v.den > 0

(* There is a percentage: neither value is missing, the baseline is not 0.  *)
Comparable(baseline, candidate) ==
  Known(baseline) /\ Known(candidate) /\ baseline.num > 0

(* Both sides of a comparison of candidate / baseline with percent / 100.   *)
Part(baseline, candidate) == 100 * candidate.num * baseline.den
Share(baseline, candidate, percent) == percent * baseline.num * candidate.den

(* quality_retention_pct < percent *)
RetentionBelow(baseline, candidate, percent) ==
  Part(baseline, candidate) < Share(baseline, candidate, percent)

(* cost_reduction_pct < percent *)
ReductionBelow(baseline, candidate, percent) ==
  Part(baseline, candidate) > Share(baseline, candidate, 100 - percent)

(* latency_delta_pct > percent *)
IncreaseAbove(baseline, candidate, percent) ==
  Part(baseline, candidate) > Share(baseline, candidate, 100 + percent)
=============================================================================
