----------------------------- MODULE RoutePlan -----------------------------
(***************************************************************************)
(* `route-plan`: load_route_plan_input, decide_task_route, _summary and    *)
(* build_route_audit_events (reports/route_plan.py) under the command that *)
(* checks the destinations first and writes the artifacts at the end       *)
(* (cli/commands.py).                                                      *)
(***************************************************************************)
EXTENDS Percentages, Sums, ReportCommand

CONSTANTS
  TaskFiles,       \* what the "tasks" of an input file can be
  MinimumSample,   \* RoutingThresholds.minimum_sample_size
  MaxTasks         \* MAX_TASKS

(* What _normalized_terms finds in category, flags and notes, by what       *)
(* decide_task_route does about it.                                         *)
Terms == {"explicit", "category", "review"}
RiskLevels == {"low", "medium", "high", "unknown"}

Measures == [score : [num : Nat, den : 0 .. 1], latency : [num : Nat, den : 0 .. 1],
             cost : [num : Nat, den : 0 .. 1]]

(* TaskRoutingInput; `valid` is whether model_validate accepts it, a policy *)
(* pass rate in percent or Unknown.                                         *)
Task ==
  [id : STRING, valid : BOOLEAN, risk : RiskLevels, terms : SUBSET Terms,
   failed : BOOLEAN, baseline : Measures, candidate : Measures,
   policy : [num : 0 .. 100, den : 0 .. 1], sample : Nat, review : BOOLEAN]

ASSUME TaskFilesAssumption ==
  \A tasks \in TaskFiles : tasks \in Seq(Task)
ASSUME RouteOptionsAssumption == MinimumSample \in Nat \ {0} /\ MaxTasks \in Nat

Routes == {"candidate", "baseline", "review", "blocked"}

-----------------------------------------------------------------------------
(* load_route_plan_input, and the empty list build_model_routing_plan       *)
(* refuses.                                                                 *)
Loads(tasks) ==
  /\ Len(tasks) \in 1 .. MaxTasks
  /\ \A i \in DOMAIN tasks : tasks[i].valid
  /\ \A i, j \in DOMAIN tasks : tasks[i].id = tasks[j].id => i = j

QualityKnown(t) == Comparable(t.baseline.score, t.candidate.score)
LatencyKnown(t) == Comparable(t.baseline.latency, t.candidate.latency)
CostKnown(t) == Comparable(t.baseline.cost, t.candidate.cost)

QualityBelow(t, percent) ==
  QualityKnown(t) /\ RetentionBelow(t.baseline.score, t.candidate.score, percent)
PolicyFails(t) == Known(t.policy) /\ t.policy.num < 100
TooSlow(t) ==
  LatencyKnown(t) /\ IncreaseAbove(t.baseline.latency, t.candidate.latency, MaxIncrease)

(* A regulated profile is one of the blocked categories. *)
Blocked(t, risk) ==
  \/ "explicit" \in t.terms
  \/ "category" \in t.terms \/ risk = "regulated"
  \/ ~QualityKnown(t) /\ ~LatencyKnown(t) /\ ~CostKnown(t)

NeedsReview(t, risk) ==
  \/ t.risk = "high" \/ risk = "high"
  \/ "review" \in t.terms
  \/ t.risk = "unknown"
  \/ ~QualityKnown(t) \/ QualityBelow(t, MinRetention + 10)
  \/ CostKnown(t) /\ ReductionBelow(t.baseline.cost, t.candidate.cost, MinReduction)
  \/ ~CostKnown(t) /\ t.risk # "low"
  \/ t.sample < MinimumSample
  \/ t.review

(* Mutant: a failure flag is looked at before the policy pass rate. *)
RouteFailuresFirst(t, risk) ==
  IF Blocked(t, risk) THEN "blocked"
  ELSE IF t.failed \/ QualityBelow(t, MinRetention) \/ TooSlow(t) THEN "baseline"
  ELSE IF PolicyFails(t)
       THEN IF t.risk \in {"high", "unknown"} THEN "blocked" ELSE "baseline"
  ELSE IF NeedsReview(t, risk) THEN "review" ELSE "candidate"

(* decide_task_route *)
Route(t, risk) ==
  IF Blocked(t, risk) THEN "blocked"
  ELSE IF PolicyFails(t)
       THEN IF t.risk \in {"high", "unknown"} THEN "blocked" ELSE "baseline"
  ELSE IF QualityBelow(t, MinRetention) \/ t.failed \/ TooSlow(t) THEN "baseline"
  ELSE IF NeedsReview(t, risk) THEN "review" ELSE "candidate"

(* Mutant: a task under review already runs on the candidate. *)
RouteCostOfReviewed(t, route) ==
  IF route \in {"candidate", "review"} THEN t.candidate.cost ELSE t.baseline.cost

(* What _summary charges a task with: the baseline model stands in for      *)
(* reviewed and blocked tasks.                                              *)
RouteCost(t, route) == IF route = "candidate" THEN t.candidate.cost ELSE t.baseline.cost

(* Unknown as soon as one cost is. *)
SumOfCosts(costs) ==
  IF \E i \in DOMAIN costs : ~Known(costs[i]) THEN Unknown
  ELSE Exactly(RunningSum([i \in DOMAIN costs |-> costs[i].num], Len(costs)))

Plan(tasks, risk) ==
  LET route == [i \in DOMAIN tasks |-> Route(tasks[i], risk)]
  IN  [routes  |-> route,
       counts  |-> [r \in Routes |-> Cardinality({i \in DOMAIN tasks : route[i] = r})],
       baseline_total |-> SumOfCosts([i \in DOMAIN tasks |-> tasks[i].baseline.cost]),
       candidate_only |-> SumOfCosts([i \in DOMAIN tasks |-> tasks[i].candidate.cost]),
       blended |-> SumOfCosts([i \in DOMAIN tasks |-> RouteCost(tasks[i], route[i])])]

(* The event_specs of build_route_audit_events. *)
RouteEvents ==
  <<<<"started">>, <<"input_loaded">>, <<"thresholds_evaluated">>>>
  \o [i \in DOMAIN input |-> <<"task", input[i].id, verdict.routes[i]>>]
  \o <<<<"plan_generated", verdict.counts>>>>
  \o (IF destination["aimeter"] # Nowhere THEN <<<<"exported">>>> ELSE << >>)

-----------------------------------------------------------------------------
Given == {a \in Artifacts : destination[a] # Nowhere}

SameFile(p, q) == p = q \/ (FileOf[p] = FileOf[q] /\ FileOf[p] \in Existing)

(* Mutant: paths are compared, and not the files they lead to. *)
PathsCollide ==
  \/ \E a \in Given : destination[a] = InputPath
  \/ \E a, b \in Given : a # b /\ destination[a] = destination[b]

(* A destination is the input or another destination. *)
Collides ==
  \/ \E a \in Given : SameFile(destination[a], InputPath)
  \/ \E a, b \in Given : a # b /\ SameFile(destination[a], destination[b])

RoutePlanInit ==
  /\ Init
  /\ command = "route-plan"
  /\ input \in TaskFiles
  /\ profile # "none" /\ destination["output"] # Nowhere

RoutePlanRefused ==
  /\ command = "route-plan" /\ stage = "start"
  /\ Collides \/ profile = "unlisted" \/ ~Loads(input)
  /\ End(INVALID_INPUT)

RoutePlanned ==
  /\ command = "route-plan" /\ stage = "start"
  /\ ~Collides /\ profile # "unlisted" /\ Loads(input)
  /\ Decided(Plan(input, profile))

RoutePlanWrites ==
  /\ command = "route-plan"
  /\ \/ WriteNext(RouteEvents)
     \/ WriteRaised
     \/ Written(SUCCESS)

-----------------------------------------------------------------------------
HasPlan == command = "route-plan" /\ verdict # << >>

Rank == [blocked |-> 0, baseline |-> 1, review |-> 2, candidate |-> 3]
RiskRank == [low |-> 3, medium |-> 2, high |-> 1, unknown |-> 0]

(* Of two values that are both known, the second is larger or equal; or     *)
(* they are the same.                                                       *)
Below(v, w) == v = w \/ (Known(v) /\ Known(w) /\ v.num <= w.num)

(* t is nowhere worse for the candidate than u: with the same baseline, it  *)
(* scored no lower, was no slower and no dearer, passed the policy no less  *)
(* often, on no fewer samples, at no higher risk, with no term and no flag  *)
(* of its own.                                                              *)
NoWorse(t, u) ==
  /\ t.baseline = u.baseline
  /\ Below(u.candidate.score, t.candidate.score)
  /\ Below(t.candidate.latency, u.candidate.latency)
  /\ Below(t.candidate.cost, u.candidate.cost)
  /\ Below(u.policy, t.policy)
  /\ u.sample <= t.sample
  /\ RiskRank[u.risk] <= RiskRank[t.risk]
  /\ t.terms \subseteq u.terms
  /\ t.failed => u.failed
  /\ t.review => u.review

(* No gate of decide_task_route works backwards: a task on which the        *)
(* candidate did no worse, at no higher risk, gets a route that trusts the  *)
(* candidate no less, whatever the order the rules are tried in.            *)
BetterTaskRoutesNoWorse ==
  HasPlan =>
    \A i, j \in DOMAIN input :
      NoWorse(input[i], input[j]) =>
        Rank[verdict.routes[i]] >= Rank[verdict.routes[j]]

(* Routing never costs more than staying: when every baseline cost is known *)
(* and not zero, the blended cost is at most the baseline's, or unknown.    *)
BlendedNeverDearer ==
  /\ HasPlan
  /\ \A i \in DOMAIN input :
       Known(input[i].baseline.cost) /\ input[i].baseline.cost.num > 0
  /\ Known(verdict.blended)
  => verdict.blended.num <= verdict.baseline_total.num

(* The command never writes over its input, and when it succeeds every file *)
(* that was asked for holds the artifact it was asked for, also where two   *)
(* paths are names of one file.                                             *)
DestinationsAreKept ==
  command = "route-plan" =>
    /\ disk[FileOf[InputPath]] = "input"
    /\ exit = SUCCESS => \A a \in Given : disk[FileOf[destination[a]]] = a
=============================================================================
