---------------------------- MODULE EvidenceProofs ----------------------------
(***************************************************************************)
(* Proofs about Evidence, for any input files, paths and links between     *)
(* them, thresholds, rows, labels and workflows.                           *)
(***************************************************************************)
EXTENDS Evidence, SumsProofs, SequenceTheorems, TLAPS

-----------------------------------------------------------------------------
(* What is done with other evidence leaves the report commands alone. *)
ReportsStart == ReportsInit \/ NoReports

LEMMA ReportsRun == EvidenceSpec => ReportsStart /\ [][Next]_vars
<1>1. EvidenceInit => ReportsStart
  BY DEF EvidenceInit, ReportsStart
<1>2. [EvidenceNext]_<<subject, vars, rowVars, files, traceVars>> => [Next]_vars
  BY DEF EvidenceNext, NoMoreEvidence
<1> QED BY <1>1, <1>2, PTL DEF EvidenceSpec

-----------------------------------------------------------------------------
(* The percentages. *)

Fraction == [num : Nat, den : 0 .. 1]

LEMMA TwoKnown ==
  ASSUME NEW v \in Fraction, NEW w \in Fraction, Below(v, w), v # w
  PROVE  v.den = 1 /\ w.den = 1 /\ v.num <= w.num
BY DEF Below, Known, Fraction

(* More is no lower share, and no smaller an increase; less is no smaller  *)
(* a reduction.                                                            *)
LEMMA MoreIsNoLess ==
  ASSUME NEW b \in Fraction, NEW v \in Fraction, NEW w \in Fraction,
         Below(v, w), NEW percent \in Int
  PROVE  /\ RetentionBelow(b, w, percent) => RetentionBelow(b, v, percent)
         /\ IncreaseAbove(b, v, percent) => IncreaseAbove(b, w, percent)
         /\ ReductionBelow(b, v, percent) => ReductionBelow(b, w, percent)
<1>1. CASE v = w
  BY <1>1
<1>2. CASE v # w
  <2>1. /\ v.den = 1 /\ w.den = 1 /\ v.num <= w.num
        /\ v.num \in Nat /\ w.num \in Nat /\ b.num \in Nat /\ b.den \in 0 .. 1
    BY <1>2, TwoKnown DEF Fraction
  <2>2. ASSUME NEW share \in Int
        PROVE  Share(b, v, share) = Share(b, w, share) /\ Share(b, v, share) \in Int
    BY <2>1 DEF Share
  <2>3. /\ Part(b, v) <= Part(b, w)
        /\ Part(b, v) \in Int /\ Part(b, w) \in Int
    <3>1. CASE b.den = 0
      BY <2>1, <3>1 DEF Part
    <3>2. CASE b.den = 1
      BY <2>1, <3>2 DEF Part
    <3> QED BY <2>1, <3>1, <3>2
  <2>4. /\ 100 + percent \in Int /\ 100 - percent \in Int
    OBVIOUS
  <2> QED BY <2>2, <2>3, <2>4 DEF RetentionBelow, IncreaseAbove, ReductionBelow
<1> QED BY <1>1, <1>2

LEMMA BelowIsKnown ==
  ASSUME NEW v, NEW w, Below(v, w) PROVE Known(v) <=> Known(w)
BY DEF Below

-----------------------------------------------------------------------------
(* decide_task_route, rule by rule: what stops the better task stops the   *)
(* other one.                                                              *)
LEMMA TaskMeasures ==
  ASSUME NEW t \in Task
  PROVE  /\ t.baseline.score \in Fraction /\ t.candidate.score \in Fraction
         /\ t.baseline.latency \in Fraction /\ t.candidate.latency \in Fraction
         /\ t.baseline.cost \in Fraction /\ t.candidate.cost \in Fraction
         /\ t.risk \in RiskLevels /\ t.sample \in Nat
         /\ t.policy.num \in 0 .. 100 /\ t.policy.den \in 0 .. 1
BY DEF Task, Measures, Fraction

LEMMA SameMeasuresKnown ==
  ASSUME NEW t, NEW u, NoWorse(t, u)
  PROVE  /\ QualityKnown(t) <=> QualityKnown(u)
         /\ LatencyKnown(t) <=> LatencyKnown(u)
         /\ CostKnown(t) <=> CostKnown(u)
BY BelowIsKnown
DEF NoWorse, QualityKnown, LatencyKnown, CostKnown, Comparable

LEMMA BlockedBoth ==
  ASSUME NEW t, NEW u, NoWorse(t, u), NEW risk, Blocked(t, risk)
  PROVE  Blocked(u, risk)
BY SameMeasuresKnown DEF Blocked, NoWorse

LEMMA PolicyFailsBoth ==
  ASSUME NEW t \in Task, NEW u \in Task, NoWorse(t, u), PolicyFails(t)
  PROVE  /\ PolicyFails(u)
         /\ t.risk \in {"high", "unknown"} => u.risk \in {"high", "unknown"}
<1>1. PolicyFails(u)
  BY TaskMeasures DEF NoWorse, Below, PolicyFails
<1>2. t.risk \in {"high", "unknown"} => u.risk \in {"high", "unknown"}
  BY TaskMeasures DEF NoWorse, RiskLevels, RiskRank
<1> QED BY <1>1, <1>2

LEMMA BelowBoth ==
  ASSUME NEW t \in Task, NEW u \in Task, NoWorse(t, u), NEW percent \in Int,
         QualityBelow(t, percent)
  PROVE  QualityBelow(u, percent)
BY TaskMeasures, SameMeasuresKnown, MoreIsNoLess DEF NoWorse, QualityBelow

LEMMA SlowBoth ==
  ASSUME NEW t \in Task, NEW u \in Task, NoWorse(t, u), TooSlow(t)
  PROVE  TooSlow(u)
BY TaskMeasures, SameMeasuresKnown, MoreIsNoLess, ThresholdsAssumption
DEF NoWorse, TooSlow

LEMMA ReviewBoth ==
  ASSUME NEW t \in Task, NEW u \in Task, NoWorse(t, u), NEW risk,
         NeedsReview(t, risk)
  PROVE  NeedsReview(u, risk) \/ u.risk = "unknown"
<1>1. /\ MinRetention \in Nat /\ MinReduction \in Nat
      /\ MinRetention + 10 \in Int
  BY ThresholdsAssumption
<1>2. /\ t.risk = "high" => u.risk \in {"high", "unknown"}
      /\ t.risk = "unknown" => u.risk = "unknown"
      /\ t.risk # "low" => u.risk # "low"
  BY TaskMeasures DEF NoWorse, RiskLevels, RiskRank
<1>3. QualityBelow(t, MinRetention + 10) => QualityBelow(u, MinRetention + 10)
  BY <1>1, BelowBoth
<1>4. ReductionBelow(t.baseline.cost, t.candidate.cost, MinReduction) =>
        ReductionBelow(u.baseline.cost, u.candidate.cost, MinReduction)
  BY <1>1, TaskMeasures, MoreIsNoLess DEF NoWorse
<1>5. t.sample < MinimumSample => u.sample < MinimumSample
  BY TaskMeasures, RouteOptionsAssumption DEF NoWorse
<1> QED BY <1>2, <1>3, <1>4, <1>5, SameMeasuresKnown DEF NeedsReview, NoWorse

(* A task on which the candidate did no worse gets a route that trusts it  *)
(* no less: whatever the two tasks, thresholds and profile are.            *)
LEMMA RouteIsMonotone ==
  ASSUME NEW t \in Task, NEW u \in Task, NoWorse(t, u), NEW risk
  PROVE  Rank[Route(t, risk)] >= Rank[Route(u, risk)]
<1>1. MinRetention \in Int
  BY ThresholdsAssumption
<1>2. /\ Blocked(t, risk) => Blocked(u, risk)
      /\ PolicyFails(t) =>
           /\ PolicyFails(u)
           /\ t.risk \in {"high", "unknown"} => u.risk \in {"high", "unknown"}
      /\ QualityBelow(t, MinRetention) => QualityBelow(u, MinRetention)
      /\ TooSlow(t) => TooSlow(u)
      /\ t.failed => u.failed
      /\ NeedsReview(t, risk) => NeedsReview(u, risk)
  <2>1. u.risk = "unknown" => NeedsReview(u, risk)
    BY DEF NeedsReview
  <2>2. t.failed => u.failed
    BY DEF NoWorse
  <2> QED BY <1>1, <2>1, <2>2, BlockedBoth, PolicyFailsBoth, BelowBoth,
             SlowBoth, ReviewBoth
<1>3. /\ Rank["blocked"] = 0 /\ Rank["baseline"] = 1
      /\ Rank["review"] = 2 /\ Rank["candidate"] = 3
  BY DEF Rank
<1>4. Route(t, risk) = "blocked" => Route(u, risk) = "blocked"
  BY <1>2 DEF Route
<1>5. Route(t, risk) = "baseline" => Route(u, risk) \in {"blocked", "baseline"}
  BY <1>2 DEF Route
<1>6. Route(t, risk) = "review" => Route(u, risk) # "candidate"
  BY <1>2 DEF Route
<1>7. /\ Route(t, risk) \in {"blocked", "baseline", "review", "candidate"}
      /\ Route(u, risk) \in {"blocked", "baseline", "review", "candidate"}
  BY DEF Route
<1> QED BY <1>3, <1>4, <1>5, <1>6, <1>7

-----------------------------------------------------------------------------
(* The invariant of a route-plan command. *)

Disk == {FileOf[p] : p \in DOMAIN FileOf}
OutputFile(a) == FileOf[destination[a]]

(* What the command was called with, and the plan it has decided on.       *)
Planned ==
  /\ input \in TaskFiles
  /\ destination \in [Artifacts -> DOMAIN FileOf \cup {Nowhere}]
  /\ stage = "start" => verdict = << >> /\ pending = Given
  /\ verdict \in {<< >>, Plan(input, profile)}

(* Nothing is written before the destinations are known to be apart; what  *)
(* was asked for is written or still to be written.                        *)
WrittenSoFar ==
  /\ DOMAIN disk = Disk
  /\ disk[FileOf[InputPath]] = "input"
  /\ pending \subseteq Given
  /\ stage = "write" => ~Collides
  /\ \A a \in Given \ pending : disk[OutputFile(a)] = a
  /\ exit = SUCCESS => pending = {}

PlanInv == command = "route-plan" => Planned /\ WrittenSoFar

(* Paths that do not collide are names of different files.                 *)
LEMMA SameFileIs ==
  ASSUME NEW p \in DOMAIN FileOf, NEW q \in DOMAIN FileOf, ~SameFile(p, q)
  PROVE  FileOf[p] # FileOf[q]
BY PathsAssumption DEF SameFile

LEMMA OutputsAreApart ==
  ASSUME Planned, ~Collides, NEW a \in Given
  PROVE  /\ OutputFile(a) \in Disk
         /\ OutputFile(a) # FileOf[InputPath]
         /\ \A b \in Given \ {a} : OutputFile(b) # OutputFile(a)
<1>1. \A b \in Given : destination[b] \in DOMAIN FileOf
  BY DEF Given, Planned
<1>2. InputPath \in DOMAIN FileOf
  BY PathsAssumption
<1>3. /\ ~SameFile(destination[a], InputPath)
      /\ \A b \in Given \ {a} : ~SameFile(destination[b], destination[a])
  BY DEF Collides
<1> QED BY <1>1, <1>2, <1>3, SameFileIs DEF OutputFile, Disk

LEMMA InitPlans == ReportsStart => PlanInv
<1> SUFFICES ASSUME ReportsStart, command = "route-plan"
             PROVE  Planned /\ WrittenSoFar
  BY DEF PlanInv
<1>1. RoutePlanInit
  BY DEF ReportsStart, NoReports, ReportsInit, ExitReportInit, GateInit
<1>2. PICK i \in Invocations : destination = i.destination
  BY <1>1 DEF RoutePlanInit, Init
<1>3. destination \in [Artifacts -> DOMAIN FileOf \cup {Nowhere}]
  BY <1>2, InvocationsAssumption
<1>4. pending = Given /\ stage = "start" /\ verdict = << >> /\ exit = -1
  BY <1>1 DEF RoutePlanInit, Init, Given
<1>5. Planned
  BY <1>1, <1>3, <1>4 DEF RoutePlanInit, Planned
<1>6. disk = [f \in Disk |-> IF f = FileOf[InputPath] THEN "input"
                             ELSE IF f \in Existing THEN "other" ELSE "none"]
  BY <1>1 DEF RoutePlanInit, Init, Disk
<1>7. FileOf[InputPath] \in Disk
  BY PathsAssumption DEF Disk
<1>8. WrittenSoFar
  BY <1>4, <1>6, <1>7 DEF WrittenSoFar, SUCCESS
<1> QED BY <1>5, <1>8

(* One artifact is written: over no other one, and not over the input.     *)
LEMMA WritingPlans ==
  ASSUME PlanInv, command = "route-plan", NEW bodies, WriteNext(bodies)
  PROVE  Planned' /\ WrittenSoFar'
<1>1. Planned /\ WrittenSoFar /\ stage = "write" /\ ~Collides
  BY DEF PlanInv, WriteNext, WrittenSoFar
<1>2. PICK a \in Artifacts :
        /\ IsNext(a)
        /\ disk' = [disk EXCEPT ![OutputFile(a)] = a]
        /\ pending' = pending \ {a}
  BY DEF WriteNext, OutputFile
<1>3. UNCHANGED <<options, stage, verdict, exit>>
  BY DEF WriteNext
<1>4. UNCHANGED <<command, profile, destination, input>>
  BY <1>3 DEF options
<1>5. a \in pending /\ a \in Given
  BY <1>1, <1>2 DEF IsNext, WrittenSoFar
<1>6. Planned'
  BY <1>1, <1>3, <1>4 DEF Planned
<1>7. Given' = Given /\ (Collides <=> Collides')
  BY <1>4 DEF Given, Collides, SameFile
<1>8. /\ OutputFile(a) \in Disk /\ OutputFile(a) # FileOf[InputPath]
      /\ \A b \in Given \ {a} : OutputFile(b) # OutputFile(a)
  BY <1>1, <1>5, OutputsAreApart
<1>9. /\ DOMAIN disk' = Disk /\ disk'[FileOf[InputPath]] = "input"
      /\ disk'[OutputFile(a)] = a
  BY <1>1, <1>2, <1>8, PathsAssumption DEF WrittenSoFar, Disk
<1>10. \A b \in Given \ pending : disk'[OutputFile(b)] = b
  <2>1. \A b \in Given \ pending : disk[OutputFile(b)] = b /\ b # a
    BY <1>1, <1>5 DEF WrittenSoFar
  <2>2. \A b \in Given : OutputFile(b) \in Disk
    BY <1>1, OutputsAreApart
  <2> QED BY <1>1, <1>2, <1>8, <2>1, <2>2 DEF WrittenSoFar
<1>11. \A b : OutputFile(b)' = OutputFile(b)
  BY <1>4 DEF OutputFile
<1>12. WrittenSoFar'
  <2>1. \A b \in Given' \ pending' : disk'[OutputFile(b)'] = b
    BY <1>2, <1>7, <1>9, <1>10, <1>11
  <2>2. pending' \subseteq Given'
    BY <1>1, <1>2, <1>7 DEF WrittenSoFar
  <2>3. exit' = SUCCESS => pending' = {}
    BY <1>1, <1>2, <1>3, <1>5 DEF WrittenSoFar
  <2> QED BY <1>1, <1>3, <1>7, <1>9, <2>1, <2>2, <2>3 DEF WrittenSoFar
<1> QED BY <1>6, <1>12

(* A command that ends has written everything when it says so.             *)
LEMMA EndingPlans ==
  ASSUME PlanInv, command = "route-plan", NEW code, End(code),
         code = SUCCESS => pending = {}
  PROVE  Planned' /\ WrittenSoFar'
<1>1. Planned /\ WrittenSoFar
  BY DEF PlanInv
<1>2. /\ stage' = "ended" /\ exit' = code
      /\ UNCHANGED <<command, profile, destination, input, verdict, pending,
                     disk>>
  BY DEF End, options
<1>3. Given' = Given /\ \A b : OutputFile(b)' = OutputFile(b)
  BY <1>2 DEF Given, OutputFile
<1>4. Planned'
  BY <1>1, <1>2 DEF Planned
<1>5. WrittenSoFar'
  BY <1>1, <1>2, <1>3 DEF WrittenSoFar
<1> QED BY <1>4, <1>5

LEMMA DecidingPlans ==
  ASSUME PlanInv, RoutePlanned
  PROVE  Planned' /\ WrittenSoFar'
<1>1. Planned /\ WrittenSoFar /\ ~Collides
  BY DEF PlanInv, RoutePlanned
<1>2. /\ stage' = "write" /\ verdict' = Plan(input, profile)
      /\ UNCHANGED <<command, profile, destination, input, pending, disk, exit>>
  BY DEF RoutePlanned, Decided, options
<1>3. /\ Given' = Given /\ \A b : OutputFile(b)' = OutputFile(b)
      /\ Collides <=> Collides'
  BY <1>2 DEF Given, OutputFile, Collides, SameFile
<1>4. Plan(input', profile') = Plan(input, profile)
  BY <1>2
<1>5. Planned'
  BY <1>1, <1>2, <1>4 DEF Planned
<1>6. WrittenSoFar'
  BY <1>1, <1>2, <1>3 DEF WrittenSoFar
<1> QED BY <1>5, <1>6

LEMMA PlanInvariant == EvidenceSpec => []PlanInv
<1>1. ReportsStart => PlanInv
  BY InitPlans
<1>2. PlanInv /\ [Next]_vars => PlanInv'
  <2> SUFFICES ASSUME PlanInv, [Next]_vars, command' = "route-plan"
               PROVE  Planned' /\ WrittenSoFar'
    BY DEF PlanInv
  <2>1. command' = command
    <3>1. ASSUME NEW bodies, NEW code,
                 \/ End(code) \/ Decided(bodies) \/ WriteNext(bodies)
                 \/ WriteRaised \/ Written(code) \/ UNCHANGED vars
          PROVE  UNCHANGED options
      BY <3>1 DEF End, Decided, WriteNext, WriteRaised, Written, vars
    <3>2. UNCHANGED options
      BY <3>1 DEF Next, RoutePlanRefused, RoutePlanned, RoutePlanWrites,
        ExitReportRefused, ExitReported, ExitReportWrites,
        GateRefused, GateEvaluated, GateWrites, Ended
    <3> QED BY <3>2 DEF options
  <2>2. \/ RoutePlanRefused \/ RoutePlanned \/ RoutePlanWrites
        \/ UNCHANGED vars
    BY <2>1 DEF Next, ExitReportRefused, ExitReported, ExitReportWrites,
      GateRefused, GateEvaluated, GateWrites, Ended
  <2>3. CASE RoutePlanRefused
    BY <2>1, <2>3, EndingPlans DEF RoutePlanRefused, SUCCESS, INVALID_INPUT
  <2>4. CASE RoutePlanned
    BY <2>4, DecidingPlans
  <2>5. CASE RoutePlanWrites
    <3>1. CASE WriteNext(RouteEvents)
      BY <2>1, <3>1, WritingPlans
    <3>2. CASE WriteRaised
      BY <2>1, <3>2, EndingPlans DEF WriteRaised, SUCCESS, INTERNAL_ERROR
    <3>3. CASE Written(SUCCESS)
      BY <2>1, <3>3, EndingPlans DEF Written
    <3> QED BY <2>5, <3>1, <3>2, <3>3 DEF RoutePlanWrites
  <2>6. CASE UNCHANGED vars
    <3>1. Planned /\ WrittenSoFar
      BY <2>1 DEF PlanInv
    <3>2. UNCHANGED <<command, profile, destination, input, stage, verdict,
                      pending, disk, exit>>
      BY <2>6 DEF vars, options
    <3>3. /\ Given' = Given /\ \A b : OutputFile(b)' = OutputFile(b)
          /\ Collides <=> Collides'
      BY <3>2 DEF Given, OutputFile, Collides, SameFile
    <3>4. Planned'
      BY <3>1, <3>2, <3>3 DEF Planned
    <3>5. WrittenSoFar'
      BY <3>1, <3>2, <3>3 DEF WrittenSoFar
    <3> QED BY <3>4, <3>5
  <2> QED BY <2>2, <2>3, <2>4, <2>5, <2>6
<1> QED BY <1>1, <1>2, ReportsRun, PTL

(* route-plan never writes over its input, and when it succeeds every file *)
(* that was asked for holds its own artifact: for any paths and any hard   *)
(* links between them, any files that exist, and whatever write fails.     *)
THEOREM DestinationsAreApart == EvidenceSpec => []DestinationsAreKept
<1>1. PlanInv => DestinationsAreKept
  <2> SUFFICES ASSUME PlanInv, command = "route-plan"
               PROVE  /\ disk[FileOf[InputPath]] = "input"
                      /\ exit = SUCCESS =>
                           \A a \in Given : disk[OutputFile(a)] = a
    BY DEF DestinationsAreKept, OutputFile
  <2> QED BY DEF PlanInv, WrittenSoFar
<1> QED BY <1>1, PlanInvariant, PTL

(* No rule of decide_task_route works backwards: for any two tasks of any  *)
(* file, any thresholds and any profile, the one on which the candidate    *)
(* did no worse gets a route that trusts the candidate no less.            *)
THEOREM BetterTasksRouteNoWorse == EvidenceSpec => []BetterTaskRoutesNoWorse
<1>1. PlanInv => BetterTaskRoutesNoWorse
  <2> SUFFICES ASSUME PlanInv, HasPlan, NEW i \in DOMAIN input,
                      NEW j \in DOMAIN input, NoWorse(input[i], input[j])
               PROVE  Rank[verdict.routes[i]] >= Rank[verdict.routes[j]]
    BY DEF BetterTaskRoutesNoWorse
  <2>1. input \in TaskFiles /\ verdict = Plan(input, profile)
    BY DEF PlanInv, Planned, HasPlan
  <2>2. input[i] \in Task /\ input[j] \in Task
    BY <2>1, TaskFilesAssumption
  <2>3. verdict.routes = [k \in DOMAIN input |-> Route(input[k], profile)]
    BY <2>1 DEF Plan
  <2> QED BY <2>2, <2>3, RouteIsMonotone
<1> QED BY <1>1, PlanInvariant, PTL

-----------------------------------------------------------------------------
(* What a plan costs. *)
Prices(costs) == [i \in DOMAIN costs |-> costs[i].num]

LEMMA SumOfCostsIs ==
  ASSUME NEW costs, Known(SumOfCosts(costs))
  PROVE  /\ \A i \in DOMAIN costs : Known(costs[i])
         /\ SumOfCosts(costs).num = RunningSum(Prices(costs), Len(costs))
<1>1. ~Known(Unknown)
  BY DEF Known, Unknown
<1>2. \A i \in DOMAIN costs : Known(costs[i])
  BY <1>1 DEF SumOfCosts
<1>3. SumOfCosts(costs) = Exactly(RunningSum(Prices(costs), Len(costs)))
  BY <1>2 DEF SumOfCosts, Prices
<1> QED BY <1>2, <1>3 DEF Exactly

LEMMA KnownSum ==
  ASSUME NEW costs, \A i \in DOMAIN costs : Known(costs[i])
  PROVE  SumOfCosts(costs).num = RunningSum(Prices(costs), Len(costs))
<1>1. SumOfCosts(costs) = Exactly(RunningSum(Prices(costs), Len(costs)))
  BY DEF SumOfCosts, Prices
<1> QED BY <1>1 DEF Exactly

(* A task goes to the candidate only when that is known to be no dearer.   *)
LEMMA CandidateIsCheaper ==
  ASSUME NEW t \in Task, NEW risk, Route(t, risk) = "candidate",
         Known(t.baseline.cost), t.baseline.cost.num > 0,
         Known(t.candidate.cost)
  PROVE  t.candidate.cost.num <= t.baseline.cost.num
<1>1. ~NeedsReview(t, risk)
  BY DEF Route
<1>2. CostKnown(t)
  BY DEF CostKnown, Comparable
<1>3. ~ReductionBelow(t.baseline.cost, t.candidate.cost, MinReduction)
  BY <1>1, <1>2 DEF NeedsReview
<1> DEFINE b == t.baseline.cost
           c == t.candidate.cost
<1>4. /\ b.num \in Nat /\ c.num \in Nat /\ b.den = 1 /\ c.den = 1
  BY TaskMeasures DEF Fraction, Known
<1>5. MinReduction \in Nat
  BY ThresholdsAssumption
<1>6. 100 * c.num <= (100 - MinReduction) * b.num
  BY <1>3, <1>4, <1>5 DEF ReductionBelow, Part, Share
<1>7. (100 - MinReduction) * b.num <= 100 * b.num
  BY <1>4, <1>5
<1> QED BY <1>4, <1>5, <1>6, <1>7

LEMMA RoutedIsNoDearer ==
  ASSUME NEW tasks \in Seq(Task), NEW risk,
         \A i \in DOMAIN tasks :
           Known(tasks[i].baseline.cost) /\ tasks[i].baseline.cost.num > 0,
         Known(Plan(tasks, risk).blended)
  PROVE  Plan(tasks, risk).blended.num <= Plan(tasks, risk).baseline_total.num
<1> DEFINE route == [i \in DOMAIN tasks |-> Route(tasks[i], risk)]
           mixed == [i \in DOMAIN tasks |-> RouteCost(tasks[i], route[i])]
           stay == [i \in DOMAIN tasks |-> tasks[i].baseline.cost]
           n == Len(tasks)
<1>1. /\ Plan(tasks, risk).blended = SumOfCosts(mixed)
      /\ Plan(tasks, risk).baseline_total = SumOfCosts(stay)
  BY DEF Plan
<1>2. /\ n \in Nat /\ DOMAIN tasks = 1 .. n
      /\ DOMAIN mixed = 1 .. n /\ Len(mixed) = n
      /\ DOMAIN stay = 1 .. n /\ Len(stay) = n
  <2>1. n \in Nat /\ DOMAIN tasks = 1 .. n
    BY LenProperties
  <2>2. /\ mixed = [i \in 1 .. n |-> mixed[i]]
        /\ stay = [i \in 1 .. n |-> stay[i]]
    BY <2>1
  <2> HIDE DEF mixed, stay, n
  <2> QED BY <2>1, <2>2, FunctionList
<1>3. /\ \A i \in 1 .. n : Known(mixed[i])
      /\ SumOfCosts(mixed).num = RunningSum(Prices(mixed), n)
  BY <1>1, <1>2, SumOfCostsIs
<1>4. SumOfCosts(stay).num = RunningSum(Prices(stay), n)
  <2>1. \A i \in DOMAIN stay : Known(stay[i])
    BY <1>2
  <2> QED BY <1>2, <2>1, KnownSum
<1>5. ASSUME NEW i \in 1 .. n
      PROVE  /\ Prices(mixed)[i] \in Int /\ Prices(stay)[i] \in Int
             /\ Prices(mixed)[i] <= Prices(stay)[i]
  <2>1. tasks[i] \in Task
    BY <1>2
  <2>2. /\ tasks[i].baseline.cost.num \in Nat /\ tasks[i].candidate.cost.num \in Nat
    BY <2>1, TaskMeasures DEF Fraction
  <2>3. /\ Prices(mixed)[i] = RouteCost(tasks[i], Route(tasks[i], risk)).num
        /\ Prices(stay)[i] = tasks[i].baseline.cost.num
        /\ mixed[i] = RouteCost(tasks[i], Route(tasks[i], risk))
    BY <1>2 DEF Prices
  <2>4. CASE Route(tasks[i], risk) = "candidate"
    <3>1. mixed[i] = tasks[i].candidate.cost
      BY <2>3, <2>4 DEF RouteCost
    <3>2. Known(tasks[i].candidate.cost)
      BY <1>3, <3>1
    <3>3. tasks[i].candidate.cost.num <= tasks[i].baseline.cost.num
      BY <1>2, <2>1, <2>4, <3>2, CandidateIsCheaper
    <3> QED BY <2>2, <2>3, <3>1, <3>3
  <2>5. CASE Route(tasks[i], risk) # "candidate"
    BY <2>2, <2>3, <2>5 DEF RouteCost
  <2> QED BY <2>4, <2>5
<1> HIDE DEF mixed, stay, n
<1>6. RunningSum(Prices(mixed), n) <= RunningSum(Prices(stay), n)
  BY <1>2, <1>5, SumOfLess
<1> QED BY <1>1, <1>3, <1>4, <1>6

(* Routing never costs more than staying: for any tasks with known, non-zero*)
(* baseline costs, any thresholds and profile, the blended cost that        *)
(* _summary reports is at most that of the baseline, or unknown.            *)
THEOREM RoutingIsNoDearer == EvidenceSpec => []BlendedNeverDearer
<1>1. PlanInv => BlendedNeverDearer
  <2> SUFFICES ASSUME PlanInv, HasPlan,
                      \A i \in DOMAIN input :
                        Known(input[i].baseline.cost) /\ input[i].baseline.cost.num > 0,
                      Known(verdict.blended)
               PROVE  verdict.blended.num <= verdict.baseline_total.num
    BY DEF BlendedNeverDearer
  <2>1. input \in TaskFiles /\ verdict = Plan(input, profile)
    BY DEF PlanInv, Planned, HasPlan
  <2>2. input \in Seq(Task)
    BY <2>1, TaskFilesAssumption
  <2> QED BY <2>1, <2>2, RoutedIsNoDearer
<1> QED BY <1>1, PlanInvariant, PTL

-----------------------------------------------------------------------------
(* What exit-report and gate have decided is about their input. *)
ReportOn(file_, risk) ==
  LET summary == [m \in ModelRoles |-> Summary(file_, m)]
  IN  [summary |-> summary,
       decision |-> Decision(summary["baseline"], summary["candidate"], risk)]
StatusOf(f) == [status |-> Status(f.baseline, f.candidate, f.thresholds)]

JudgedInv ==
  /\ command = "exit-report" =>
       input \in ExitFiles /\ verdict \in {<< >>, ReportOn(input, profile)}
  /\ command = "gate" =>
       input \in GateFiles /\ verdict \in {<< >>, StatusOf(input)}

LEMMA OptionsAreKept == [Next]_vars => UNCHANGED options
<1> SUFFICES ASSUME [Next]_vars PROVE UNCHANGED options
  OBVIOUS
<1>1. ASSUME NEW bodies, NEW code,
             \/ End(code) \/ Decided(bodies) \/ WriteNext(bodies)
             \/ WriteRaised \/ Written(code) \/ UNCHANGED vars
      PROVE  UNCHANGED options
  BY <1>1 DEF End, Decided, WriteNext, WriteRaised, Written, vars
<1> QED BY <1>1 DEF Next, RoutePlanRefused, RoutePlanned, RoutePlanWrites,
      ExitReportRefused, ExitReported, ExitReportWrites,
      GateRefused, GateEvaluated, GateWrites, Ended

(* Only three steps decide. *)
LEMMA OnlyDecisionsDecide ==
  ASSUME [Next]_vars
  PROVE  \/ UNCHANGED verdict
         \/ RoutePlanned \/ ExitReported \/ GateEvaluated
<1>1. ASSUME NEW bodies, NEW code,
             \/ End(code) \/ WriteNext(bodies) \/ WriteRaised \/ Written(code)
             \/ UNCHANGED vars
      PROVE  UNCHANGED verdict
  BY <1>1 DEF End, WriteNext, WriteRaised, Written, vars
<1> QED BY <1>1 DEF Next, RoutePlanRefused, RoutePlanWrites,
      ExitReportRefused, ExitReportWrites, GateRefused, GateWrites, Ended

LEMMA JudgedInvariant == EvidenceSpec => []JudgedInv
<1>1. ReportsStart => JudgedInv
  BY DEF ReportsStart, ReportsInit, NoReports, RoutePlanInit, ExitReportInit,
     GateInit, Init, JudgedInv
<1>2. JudgedInv /\ [Next]_vars => JudgedInv'
  <2> SUFFICES ASSUME JudgedInv, [Next]_vars PROVE JudgedInv'
    OBVIOUS
  <2>1. UNCHANGED <<command, input, profile>>
    BY OptionsAreKept DEF options
  <2>2. /\ ReportOn(input, profile)' = ReportOn(input, profile)
        /\ StatusOf(input)' = StatusOf(input)
    BY <2>1
  <2>3. CASE UNCHANGED verdict
    BY <2>1, <2>2, <2>3 DEF JudgedInv
  <2>4. CASE RoutePlanned
    BY <2>1, <2>4 DEF JudgedInv, RoutePlanned
  <2>5. CASE ExitReported
    <3>1. verdict' = ReportOn(input, profile) /\ command = "exit-report"
      BY <2>5 DEF ExitReported, Decided, ReportOn
    <3> QED BY <2>1, <2>2, <3>1 DEF JudgedInv
  <2>6. CASE GateEvaluated
    <3>1. verdict' = StatusOf(input) /\ command = "gate"
      BY <2>6 DEF GateEvaluated, Decided, StatusOf
    <3> QED BY <2>1, <2>2, <3>1 DEF JudgedInv
  <2> QED BY <2>3, <2>4, <2>5, <2>6, OnlyDecisionsDecide
<1> QED BY <1>1, <1>2, ReportsRun, PTL

(* The decision a file gets. *)
LEMMA DecisionIs ==
  ASSUME JudgedInv, HasReport
  PROVE  input \in ExitFiles /\ verdict.decision = DecisionOn(input)
<1>1. input \in ExitFiles /\ verdict = ReportOn(input, profile)
  BY DEF JudgedInv, HasReport
<1>2. verdict.decision = Decision(Summary(input, "baseline"),
                                  Summary(input, "candidate"), profile)
  <2>1. "baseline" \in ModelRoles /\ "candidate" \in ModelRoles
    BY DEF ModelRoles
  <2> QED BY <1>1, <2>1 DEF ReportOn
<1> QED BY <1>1, <1>2 DEF DecisionOn

-----------------------------------------------------------------------------
(* A row more. *)
Measured == {"score", "latency", "cost"}

LEMMA RowMeasures ==
  ASSUME NEW row \in Row, NEW field \in Measured
  PROVE  row[field].num \in Nat /\ row[field].den \in 0 .. 1
BY DEF Row, Measured

(* A failed call that left nothing changes no mean and no cost.            *)
LEMMA FailureLeavesNothing ==
  ASSUME NEW rows \in Seq(Row), NEW m \in ModelRoles, NEW field \in Measured
  PROVE  LET more == Append(rows, FailedRow)
         IN  /\ Having(more, m, field) = Having(rows, m, field)
             /\ Total(more, Having(rows, m, field), field)
                  = Total(rows, Having(rows, m, field), field)
             /\ Having(rows, m, field) \subseteq DOMAIN rows
<1> DEFINE more == Append(rows, FailedRow)
           n == Len(rows)
           S == Having(rows, m, field)
           f == [i \in DOMAIN rows |-> IF i \in S THEN rows[i][field].num ELSE 0]
           g == [i \in DOMAIN more |-> IF i \in S THEN more[i][field].num ELSE 0]
<1>1. IsList(rows)
  BY ListOf
<1>2. /\ n \in Nat /\ DOMAIN rows = 1 .. n /\ Len(more) = n + 1
      /\ DOMAIN more = 1 .. n + 1
      /\ \A i \in 1 .. n : more[i] = rows[i]
      /\ more[n + 1] = FailedRow
  <2>1. n \in Nat /\ DOMAIN rows = 1 .. n
    BY <1>1, Lists
  <2> QED BY <1>1, <2>1, OneMore
<1> HIDE DEF more, n
<1>3. FailedRow[field] = Unknown /\ ~Known(Unknown)
  BY DEF FailedRow, Measured, Known, Unknown
<1>4. Having(more, m, field) = S
  BY <1>2, <1>3 DEF Having, Of
<1>5. S \subseteq 1 .. n
  BY <1>2 DEF Having, Of
<1> HIDE DEF S
<1>6. /\ Total(rows, S, field) = RunningSum(f, n)
      /\ Total(more, S, field) = RunningSum(g, n + 1)
  BY <1>2 DEF Total, n
<1>7. /\ g[n + 1] = 0
      /\ \A i \in 1 .. n : g[i] = f[i] /\ f[i] \in Nat
  <2>1. n + 1 \notin S
    BY <1>2, <1>5
  <2>2. \A i \in 1 .. n : rows[i] \in Row
    BY <1>2
  <2> QED BY <1>2, <2>1, <2>2, RowMeasures
<1> HIDE DEF f, g
<1>8. /\ RunningSum(g, n + 1) = RunningSum(g, n) + g[n + 1]
      /\ RunningSum(g, n) = RunningSum(f, n)
      /\ RunningSum(f, n) \in Nat
  BY <1>2, <1>7, SumOfMore, SumOfSame, SumNat
<1> QED BY <1>2, <1>4, <1>5, <1>6, <1>7, <1>8 DEF S, more

(* It is one more sample, and one more failure, of the candidate alone.    *)
LEMMA FailureCounts ==
  ASSUME NEW rows \in Seq(Row), NEW m \in ModelRoles
  PROVE  LET more == Append(rows, FailedRow)
             one == IF m = "candidate" THEN 1 ELSE 0
         IN  /\ Cardinality(Of(rows, m)) \in Nat
             /\ Failures(rows, m) \in Nat
             /\ Cardinality(Of(more, m)) = Cardinality(Of(rows, m)) + one
             /\ Failures(more, m) = Failures(rows, m) + one
<1> DEFINE more == Append(rows, FailedRow)
           n == Len(rows)
           old == {i \in Of(rows, m) : rows[i].failed}
           new == {i \in Of(more, m) : more[i].failed}
<1>1. IsList(rows)
  BY ListOf
<1>2. /\ n \in Nat /\ DOMAIN rows = 1 .. n
      /\ DOMAIN more = 1 .. n \cup {n + 1}
      /\ \A i \in 1 .. n : more[i] = rows[i]
      /\ more[n + 1] = FailedRow
  <2>1. n \in Nat /\ DOMAIN rows = 1 .. n
    BY <1>1, Lists
  <2> QED BY <1>1, <2>1, OneMore
<1> HIDE DEF more, n
<1>3. FailedRow.model = "candidate" /\ FailedRow.failed = TRUE
  BY DEF FailedRow
<1>4. /\ Of(rows, m) \in SUBSET (1 .. n) /\ old \in SUBSET (1 .. n)
      /\ Of(more, m) = IF m = "candidate" THEN Of(rows, m) \cup {n + 1}
                                          ELSE Of(rows, m)
      /\ new = IF m = "candidate" THEN old \cup {n + 1} ELSE old
  <2>1. Of(rows, m) \in SUBSET (1 .. n) /\ old \in SUBSET (1 .. n)
    BY <1>2 DEF Of
  <2>2. Of(more, m) = IF m = "candidate" THEN Of(rows, m) \cup {n + 1}
                                         ELSE Of(rows, m)
    BY <1>2, <1>3 DEF Of
  <2>3. new = IF m = "candidate" THEN old \cup {n + 1} ELSE old
    BY <1>2, <1>3, <2>1, <2>2
  <2> QED BY <2>1, <2>2, <2>3
<1>5. n + 1 \notin Of(rows, m) /\ n + 1 \notin old
  BY <1>2, <1>4
<1>6. Failures(rows, m) = Cardinality(old) /\ Failures(more, m) = Cardinality(new)
  BY DEF Failures
<1> HIDE DEF old, new
<1>7. /\ Cardinality(Of(rows, m)) \in Nat /\ Cardinality(old) \in Nat
      /\ m # "candidate" => Of(more, m) = Of(rows, m) /\ new = old
      /\ m = "candidate" =>
           /\ Cardinality(Of(more, m)) = Cardinality(Of(rows, m)) + 1
           /\ Cardinality(new) = Cardinality(old) + 1
  <2>1. Cardinality(Of(rows, m)) \in Nat /\ Cardinality(old) \in Nat
    BY <1>2, <1>4, PickedOneMore
  <2>2. CASE m = "candidate"
    <3>1. Of(more, m) = Of(rows, m) \cup {n + 1} /\ new = old \cup {n + 1}
      BY <1>4, <2>2
    <3>2. Of(more, m) # Of(rows, m) /\ new # old
      BY <1>5, <3>1
    <3>3. Cardinality(Of(more, m)) = Cardinality(Of(rows, m)) + 1
      BY <1>2, <1>4, <3>1, <3>2, PickedOneMore
    <3>4. Cardinality(new) = Cardinality(old) + 1
      BY <1>2, <1>4, <3>1, <3>2, PickedOneMore
    <3> QED BY <2>1, <2>2, <3>3, <3>4
  <2>3. CASE m # "candidate"
    BY <1>4, <2>1, <2>3
  <2> QED BY <2>2, <2>3
<1> QED BY <1>6, <1>7 DEF more

(* What another failed call makes of a file, and of its summaries.         *)
WithFailure(file_) == [file_ EXCEPT !.rows = Append(@, FailedRow)]

LEMMA FailureSummaries ==
  ASSUME NEW file_ \in ExitFiles, NEW m \in ModelRoles
  PROVE  LET s == Summary(file_, m)
             t == Summary(WithFailure(file_), m)
             one == IF m = "candidate" THEN 1 ELSE 0
         IN  /\ t.score = s.score /\ t.latency = s.latency /\ t.cost = s.cost
             /\ s.samples \in Nat /\ s.failures \in Nat
             /\ t.samples = s.samples + one /\ t.failures = s.failures + one
<1> DEFINE rows == file_.rows
           more == Append(rows, FailedRow)
           one == IF m = "candidate" THEN 1 ELSE 0
<1>1. rows \in Seq(Row) /\ DOMAIN file_ = {"kind", "rows"}
  BY ExitFilesAssumption
<1>2. WithFailure(file_).rows = more /\ WithFailure(file_).kind = file_.kind
  BY <1>1 DEF WithFailure
<1>3. /\ Having(more, m, "score") = Having(rows, m, "score")
      /\ Having(more, m, "latency") = Having(rows, m, "latency")
      /\ Having(more, m, "cost") = Having(rows, m, "cost")
      /\ Total(more, Having(rows, m, "score"), "score")
           = Total(rows, Having(rows, m, "score"), "score")
      /\ Total(more, Having(rows, m, "latency"), "latency")
           = Total(rows, Having(rows, m, "latency"), "latency")
      /\ Total(more, Having(rows, m, "cost"), "cost")
           = Total(rows, Having(rows, m, "cost"), "cost")
  <2>1. "score" \in Measured /\ "latency" \in Measured /\ "cost" \in Measured
    BY DEF Measured
  <2> QED BY <1>1, <2>1, FailureLeavesNothing
<1>4. /\ Cardinality(Of(rows, m)) \in Nat /\ Failures(rows, m) \in Nat
      /\ Cardinality(Of(more, m)) = Cardinality(Of(rows, m)) + one
      /\ Failures(more, m) = Failures(rows, m) + one
  BY <1>1, FailureCounts
<1>5. /\ RunFailures(rows, m) = Failures(rows, m)
      /\ RunFailures(more, m) = Failures(more, m)
  BY DEF RunFailures, Failures
<1>6. /\ Mean(more, m, "score") = Mean(rows, m, "score")
      /\ Mean(more, m, "latency") = Mean(rows, m, "latency")
  BY <1>3 DEF Mean
<1> HIDE DEF rows, more, one
<1>7. CASE file_.kind = "run"
  <2>1. /\ Summary(file_, m) = SummaryOfRun(rows, m)
        /\ Summary(WithFailure(file_), m) = SummaryOfRun(more, m)
    BY <1>2, <1>7 DEF Summary, rows
  <2>2. Having(rows, m, "score") = Having(rows, m, "cost") =>
          Total(more, Having(rows, m, "score"), "cost")
            = Total(rows, Having(rows, m, "score"), "cost")
    BY <1>3
  <2> QED BY <1>3, <1>4, <1>5, <1>6, <2>1, <2>2 DEF SummaryOfRun, one
<1>8. CASE file_.kind # "run"
  <2>1. /\ Summary(file_, m) = SummaryOfRows(rows, m)
        /\ Summary(WithFailure(file_), m) = SummaryOfRows(more, m)
    BY <1>2, <1>8 DEF Summary, rows
  <2> QED BY <1>3, <1>4, <1>5, <1>6, <2>1 DEF SummaryOfRows, one
<1> QED BY <1>7, <1>8

(* decide_exit: a failure more is no better for the candidate.             *)
LEMMA DecisionAfterFailure ==
  ASSUME NEW b, NEW s, NEW t, NEW risk,
         s.samples \in Nat, s.failures \in Nat,
         t.score = s.score, t.latency = s.latency, t.cost = s.cost,
         t.samples = s.samples + 1, t.failures = s.failures + 1
  PROVE  Favour[Decision(b, t, risk)] <= Favour[Decision(b, s, risk)]
<1> DEFINE unknown(c) ==
             \/ b.samples < MIN_EVIDENCE_SAMPLES
             \/ c.samples < MIN_EVIDENCE_SAMPLES
             \/ ~Comparable(b.score, c.score)
             \/ ~Comparable(b.cost, c.cost)
           weak(percent) == ReductionBelow(b.cost, s.cost, percent)
           timed == Comparable(b.latency, s.latency)
           worse == \/ RetentionBelow(b.score, s.score, MinRetention)
                    \/ timed /\ IncreaseAbove(b.latency, s.latency, MaxIncrease)
                    \/ weak(MinReduction) /\ weak(0)
           doubtful == risk \in {"high", "regulated"} \/ ~timed \/ weak(MinReduction)
           Judged(c) == IF unknown(c) THEN "insufficient"
                        ELSE IF worse \/ FailsOften(c) THEN "not_recommended"
                        ELSE IF doubtful THEN "human_review" ELSE "acceptable"
<1>1. Decision(b, s, risk) = Judged(s) /\ Decision(b, t, risk) = Judged(t)
  BY DEF Decision
<1>2. /\ Favour["acceptable"] = 2 /\ Favour["human_review"] = 1
      /\ Favour["not_recommended"] = 0 /\ Favour["insufficient"] = 0
  BY DEF Favour, Decisions
<1>3. FailsOften(s) => FailsOften(t)
  BY DEF FailsOften, MAX_FAILURE_RATE
<1>4. unknown(s) /\ ~unknown(t) => FailsOften(t)
  BY DEF FailsOften, MAX_FAILURE_RATE, MIN_EVIDENCE_SAMPLES
<1> HIDE DEF worse, doubtful, unknown
<1>5. Judged(t) \in {"human_review", "acceptable"} => Judged(s) = Judged(t)
  BY <1>3, <1>4
<1>6. /\ Judged(s) \in {"insufficient", "not_recommended", "human_review", "acceptable"}
      /\ Judged(t) \in {"insufficient", "not_recommended", "human_review", "acceptable"}
  OBVIOUS
<1> DEFINE before == Judged(s)
           after == Judged(t)
<1> HIDE DEF Judged
<1>7. /\ after \in {"human_review", "acceptable"} => before = after
      /\ before \in {"insufficient", "not_recommended", "human_review", "acceptable"}
      /\ after \in {"insufficient", "not_recommended", "human_review", "acceptable"}
  BY <1>5, <1>6
<1> HIDE DEF before, after
<1>8. Favour[after] <= Favour[before]
  <2>1. CASE after \in {"human_review", "acceptable"}
    BY <1>2, <1>7, <2>1
  <2>2. CASE after \in {"insufficient", "not_recommended"}
    BY <1>2, <1>7, <2>2
  <2> QED BY <1>7, <2>1, <2>2
<1> QED BY <1>1, <1>8 DEF before, after

(* Another failed call of the candidate never makes the decision of an     *)
(* exit report more favourable, although it is one more sample: for any    *)
(* rows or run, and any thresholds.                                        *)
THEOREM FailuresNeverHelp == EvidenceSpec => []FailureNeverHelps
<1>1. JudgedInv => FailureNeverHelps
  <2> SUFFICES ASSUME JudgedInv, HasReport
               PROVE  Favour[DecisionOn(WithFailure(input))]
                        <= Favour[verdict.decision]
    BY DEF FailureNeverHelps, WithFailure
  <2>1. input \in ExitFiles /\ verdict.decision = DecisionOn(input)
    BY DecisionIs
  <2> DEFINE b == Summary(input, "baseline")
             d == Summary(WithFailure(input), "baseline")
             s == Summary(input, "candidate")
             t == Summary(WithFailure(input), "candidate")
  <2>2. /\ DecisionOn(input) = Decision(b, s, profile)
        /\ DecisionOn(WithFailure(input)) = Decision(d, t, profile)
    BY DEF DecisionOn
  <2>3. "baseline" \in ModelRoles /\ "candidate" \in ModelRoles
    BY DEF ModelRoles
  <2>4. /\ d.score = b.score /\ d.latency = b.latency /\ d.cost = b.cost
        /\ b.samples \in Nat /\ d.samples = b.samples
    BY <2>1, <2>3, FailureSummaries
  <2>5. /\ s.samples \in Nat /\ s.failures \in Nat
        /\ t.score = s.score /\ t.latency = s.latency /\ t.cost = s.cost
        /\ t.samples = s.samples + 1 /\ t.failures = s.failures + 1
    BY <2>1, <2>3, FailureSummaries
  <2> HIDE DEF b, d, s, t
  <2>6. Decision(d, t, profile) = Decision(b, t, profile)
    BY <2>4 DEF Decision
  <2> QED BY <2>1, <2>2, <2>5, <2>6, DecisionAfterFailure
<1> QED BY <1>1, JudgedInvariant, PTL

-----------------------------------------------------------------------------
(* A run whose scored results are the priced ones is added up in one way.  *)
LEMMA BothLoadersSummarise ==
  ASSUME NEW rows \in Seq(Row), NEW m \in ModelRoles,
         \A i \in DOMAIN rows : RunRow(rows[i]),
         \A i \in DOMAIN rows : Known(rows[i].score) = Known(rows[i].cost)
  PROVE  \/ SummaryOfRun(rows, m) = SummaryOfRows(rows, m)
         \/ SummaryOfRun(rows, m).cost = Unknown /\ SummaryOfRows(rows, m).cost = Unknown
<1> DEFINE S == Having(rows, m, "score")
<1>1. Having(rows, m, "cost") = S /\ Having(rows, m, "latency") = S
  BY DEF Having, Of, RunRow
<1>2. RunFailures(rows, m) = Failures(rows, m)
  BY DEF RunFailures, Failures
<1> HIDE DEF S
<1>3. CASE S = {}
  BY <1>1, <1>3 DEF SummaryOfRun, SummaryOfRows, S
<1>4. CASE S # {}
  <2>1. SummaryOfRun(rows, m) = SummaryOfRows(rows, m)
    BY <1>1, <1>2, <1>4 DEF SummaryOfRun, SummaryOfRows, S
  <2> QED BY <2>1
<1> QED BY <1>3, <1>4

(* A stored run gets the decision its results would get as rows, when the  *)
(* results with a score are those with a price: for any results.           *)
THEOREM LoadersAgree == EvidenceSpec => []RunAndRowsAgree
<1>1. JudgedInv => RunAndRowsAgree
  <2> DEFINE asRows == [input EXCEPT !.kind = "rows"]
             b == Summary(input, "baseline")
             c == Summary(input, "candidate")
             d == Summary(asRows, "baseline")
             e == Summary(asRows, "candidate")
  <2> SUFFICES ASSUME JudgedInv, HasReport,
                      \A i \in DOMAIN input.rows :
                        Known(input.rows[i].score) = Known(input.rows[i].cost)
               PROVE  verdict.decision = DecisionOn(asRows)
    BY DEF RunAndRowsAgree
  <2>1. input \in ExitFiles /\ verdict.decision = DecisionOn(input)
    BY DecisionIs
  <2>2. /\ input.rows \in Seq(Row) /\ DOMAIN input = {"kind", "rows"}
        /\ input.kind = "run" => \A i \in DOMAIN input.rows : RunRow(input.rows[i])
    BY <2>1, ExitFilesAssumption
  <2>3. asRows.rows = input.rows /\ asRows.kind = "rows"
    BY <2>2
  <2>4. /\ DecisionOn(input) = Decision(b, c, profile)
        /\ DecisionOn(asRows) = Decision(d, e, profile)
    BY DEF DecisionOn
  <2>5. /\ b = d \/ (b.cost = Unknown /\ d.cost = Unknown)
        /\ c = e \/ (c.cost = Unknown /\ e.cost = Unknown)
    <3>0. "baseline" \in ModelRoles /\ "candidate" \in ModelRoles
      BY DEF ModelRoles
    <3>1. CASE input.kind = "run"
      <4>1. /\ b = SummaryOfRun(input.rows, "baseline")
            /\ c = SummaryOfRun(input.rows, "candidate")
            /\ d = SummaryOfRows(input.rows, "baseline")
            /\ e = SummaryOfRows(input.rows, "candidate")
        BY <2>3, <3>1 DEF Summary
      <4> QED BY <2>2, <3>0, <3>1, <4>1, BothLoadersSummarise
    <3>2. CASE input.kind # "run"
      <4>1. b = d /\ c = e
        BY <2>3, <3>2 DEF Summary
      <4> QED BY <4>1
    <3> QED BY <3>1, <3>2
  <2>6. ASSUME NEW x, NEW y, NEW risk, x.cost = Unknown \/ y.cost = Unknown
        PROVE  Decision(x, y, risk) = "insufficient"
    <3>1. ~Known(Unknown)
      BY DEF Known, Unknown
    <3>2. ~Comparable(x.cost, y.cost)
      BY <2>6, <3>1 DEF Comparable
    <3> QED BY <3>2 DEF Decision
  <2> HIDE DEF b, c, d, e, asRows
  <2>7. Decision(b, c, profile) = Decision(d, e, profile)
    BY <2>5, <2>6
  <2> QED BY <2>1, <2>4, <2>7
<1> QED BY <1>1, JudgedInvariant, PTL

-----------------------------------------------------------------------------
(* The gate. Another set of checks follows one when each of its checks     *)
(* misses what a check of the other one misses, and passes if that does.   *)
Follows(old, new) ==
  \A d \in new : \E c \in old : c.missing = d.missing /\ (c.passed => d.passed)

Verdict(checks) ==
  LET failed == {c \in checks : ~c.passed}
  IN  IF failed = {} THEN "pass"
      ELSE IF \E c \in failed : ~c.missing THEN "regression"
      ELSE "insufficient_evidence"

LEMMA StatusIs ==
  ASSUME NEW b, NEW c, NEW t PROVE Status(b, c, t) = Verdict(Checks(b, c, t))
BY DEF Status, Verdict

LEMMA FollowingIsNoWorse ==
  ASSUME NEW old, NEW new, Follows(old, new)
  PROVE  Standing[Verdict(new)] >= Standing[Verdict(old)]
<1> DEFINE before == Verdict(old)
           after == Verdict(new)
<1>1. /\ Standing["pass"] = 2 /\ Standing["regression"] = 0
      /\ Standing["insufficient_evidence"] = 1
  BY DEF Standing, ExitCodeOf
<1>2. before = "pass" => after = "pass"
  BY DEF Follows, Verdict
<1>3. after = "regression" => before = "regression"
  BY DEF Follows, Verdict
<1>4. /\ before \in {"pass", "regression", "insufficient_evidence"}
      /\ after \in {"pass", "regression", "insufficient_evidence"}
  BY DEF Verdict
<1> HIDE DEF before, after
<1>5. Standing[after] >= Standing[before]
  BY <1>1, <1>2, <1>3, <1>4
<1> QED BY <1>5 DEF before, after

(* The checks of a gate, one kind after the other. *)
LEMMA KindsOfChecks ==
  ASSUME NEW b, NEW c, NEW t, NEW check
  PROVE  check \in Checks(b, c, t) <=>
           \/ check = Check(<<"sample">>, c.sample < t.sample, TRUE)
           \/ check = Check(<<"dataset">>, FALSE, b.dataset = c.dataset)
           \/ \E m \in MinMetrics :
                check \in Minimum(<<m>>, c.metrics[m], t.minimum[m])
           \/ \E m \in MaxMetrics :
                check \in Maximum(<<m>>, c.metrics[m], t.maximum[m])
           \/ \E m \in Dropping :
                check \in Maximum(<<"drop", m>>,
                                  DropFrom(b.metrics[m], c.metrics[m]), t.drop[m])
           \/ check \in RatioChecks(b.metrics, c.metrics, t)
           \/ \E r \in Risks : check \in RiskChecks(c.cases, r, t.risk[r])
BY DEF Checks

LEMMA CheckIs ==
  ASSUME NEW name, NEW missing, NEW holds
  PROVE  /\ Check(name, missing, holds).missing = missing
         /\ Check(name, missing, holds).passed <=> (~missing /\ holds)
BY DEF Check

(* A value that is no worse passes what the other one passes.              *)
LEMMA MinimumFollows ==
  ASSUME NEW v \in Value, NEW w \in Value, Below(v, w),
         NEW name, NEW threshold \in Threshold
  PROVE  Follows(Minimum(name, v, threshold), Minimum(name, w, threshold))
<1>1. v.den \in 0 .. 1 /\ w.den \in 0 .. 1 /\ v.num \in Nat /\ w.num \in Nat
  BY DEF Value
<1>2. Known(v) <=> Known(w)
  BY DEF Below
<1>3. /\ v.den = w.den
      /\ Known(v) => v.num <= w.num
  BY <1>1 DEF Below, Known
<1>4. CASE threshold = NotSet
  BY <1>4 DEF Minimum, Follows
<1>5. CASE threshold # NotSet
  <2> DEFINE c == Check(name, ~Known(v), v.num >= threshold * v.den)
             d == Check(name, ~Known(w), w.num >= threshold * w.den)
  <2>1. /\ Minimum(name, v, threshold) = {c}
        /\ Minimum(name, w, threshold) = {d}
    BY <1>5 DEF Minimum
  <2>2. c.missing = ~Known(v) /\ d.missing = ~Known(w)
    BY DEF Check
  <2>3. c.passed <=> Known(v) /\ v.num >= threshold * v.den
    BY DEF Check
  <2>4. d.passed <=> Known(w) /\ w.num >= threshold * w.den
    BY DEF Check
  <2> HIDE DEF c, d
  <2>5. threshold \in Nat
    BY <1>5 DEF Threshold, NotSet
  <2>6. threshold * v.den \in Nat /\ threshold * w.den = threshold * v.den
    BY <1>1, <1>3, <2>5
  <2>7. c.missing = d.missing
    BY <1>2, <2>2
  <2>8. c.passed => d.passed
    BY <1>1, <1>2, <1>3, <2>3, <2>4, <2>6
  <2> QED BY <2>1, <2>7, <2>8 DEF Follows
<1> QED BY <1>4, <1>5

LEMMA MaximumFollows ==
  ASSUME NEW v, NEW w, v.num \in Int, w.num \in Int, v.den = w.den,
         Known(v) => w.num <= v.num, v.den \in 0 .. 1,
         NEW name, NEW threshold \in Threshold
  PROVE  Follows(Maximum(name, v, threshold), Maximum(name, w, threshold))
<1>1. CASE threshold = NotSet
  BY <1>1 DEF Maximum, Follows
<1>2. CASE threshold # NotSet
  <2> DEFINE c == Check(name, ~Known(v), v.num <= threshold * v.den)
             d == Check(name, ~Known(w), w.num <= threshold * w.den)
  <2>1. /\ Maximum(name, v, threshold) = {c}
        /\ Maximum(name, w, threshold) = {d}
    BY <1>2 DEF Maximum
  <2>2. c.missing = ~Known(v) /\ d.missing = ~Known(w)
    BY DEF Check
  <2>3. c.passed <=> Known(v) /\ v.num <= threshold * v.den
    BY DEF Check
  <2>4. d.passed <=> Known(w) /\ w.num <= threshold * w.den
    BY DEF Check
  <2> HIDE DEF c, d
  <2>5. threshold \in Nat
    BY <1>2 DEF Threshold, NotSet
  <2>6. threshold * v.den \in Nat /\ threshold * w.den = threshold * v.den
    BY <2>5
  <2>7. Known(v) <=> Known(w)
    BY DEF Known
  <2>8. c.missing = d.missing
    BY <2>2, <2>7
  <2>9. c.passed => d.passed
    BY <2>3, <2>4, <2>6, <2>7
  <2> QED BY <2>1, <2>8, <2>9 DEF Follows
<1> QED BY <1>1, <1>2

LEMMA SameFollows == ASSUME NEW checks PROVE Follows(checks, checks)
BY DEF Follows

LEMMA RatiosFollow ==
  ASSUME NEW b, NEW c, NEW d, NEW t \in Thresholds,
         \A m \in MaxMetrics :
           b[m] \in Value /\ c[m] \in Value /\ d[m] \in Value /\ Below(d[m], c[m])
  PROVE  Follows(RatioChecks(b, c, t), RatioChecks(b, d, t))
<1> DEFINE latency == "p95_latency_ms"
           cost == "estimated_cost_usd"
           slower(x) == Check(<<"increase">>, ~Comparable(b[latency], x[latency]),
                              ~IncreaseAbove(b[latency], x[latency], t.increase))
           dearer(x) == Check(<<"reduction">>, ~Comparable(b[cost], x[cost]),
                              ~ReductionBelow(b[cost], x[cost], t.reduction))
           timed(x) == IF t.increase = NotSet THEN {} ELSE {slower(x)}
           priced(x) == IF t.reduction = NotSet THEN {} ELSE {dearer(x)}
<1>1. /\ b[latency] \in Fraction /\ c[latency] \in Fraction /\ d[latency] \in Fraction
      /\ b[cost] \in Fraction /\ c[cost] \in Fraction /\ d[cost] \in Fraction
      /\ Below(d[latency], c[latency]) /\ Below(d[cost], c[cost])
  BY MetricsAssumption DEF Value, Fraction
<1>2. /\ RatioChecks(b, c, t) = timed(c) \cup priced(c)
      /\ RatioChecks(b, d, t) = timed(d) \cup priced(d)
  BY DEF RatioChecks
<1>3. /\ Comparable(b[latency], c[latency]) <=> Comparable(b[latency], d[latency])
      /\ Comparable(b[cost], c[cost]) <=> Comparable(b[cost], d[cost])
  BY <1>1, BelowIsKnown DEF Comparable
<1>4. t.increase \in Threshold /\ t.reduction \in Threshold
  BY DEF Thresholds
<1>5. t.increase # NotSet =>
        (IncreaseAbove(b[latency], d[latency], t.increase) =>
           IncreaseAbove(b[latency], c[latency], t.increase))
  BY <1>1, <1>4, MoreIsNoLess DEF Threshold
<1>6. t.reduction # NotSet =>
        (ReductionBelow(b[cost], d[cost], t.reduction) =>
           ReductionBelow(b[cost], c[cost], t.reduction))
  BY <1>1, <1>4, MoreIsNoLess DEF Threshold
<1>7. \A x : /\ slower(x).missing = ~Comparable(b[latency], x[latency])
             /\ dearer(x).missing = ~Comparable(b[cost], x[cost])
  BY DEF Check
<1>8. \A x : slower(x).passed <=>
               /\ Comparable(b[latency], x[latency])
               /\ ~IncreaseAbove(b[latency], x[latency], t.increase)
  BY DEF Check
<1>9. \A x : dearer(x).passed <=>
               /\ Comparable(b[cost], x[cost])
               /\ ~ReductionBelow(b[cost], x[cost], t.reduction)
  BY DEF Check
<1> HIDE DEF slower, dearer, latency, cost
<1>10. Follows(timed(c), timed(d))
  <2>1. CASE t.increase = NotSet
    BY <2>1 DEF Follows
  <2>2. CASE t.increase # NotSet
    <3>1. slower(c).missing = slower(d).missing
      BY <1>3, <1>7
    <3>2. slower(c).passed => slower(d).passed
      BY <1>3, <1>5, <1>8, <2>2
    <3> QED BY <2>2, <3>1, <3>2 DEF Follows
  <2> QED BY <2>1, <2>2
<1>11. Follows(priced(c), priced(d))
  <2>1. CASE t.reduction = NotSet
    BY <2>1 DEF Follows
  <2>2. CASE t.reduction # NotSet
    <3>1. dearer(c).missing = dearer(d).missing
      BY <1>3, <1>7
    <3>2. dearer(c).passed => dearer(d).passed
      BY <1>3, <1>6, <1>9, <2>2
    <3> QED BY <2>2, <3>1, <3>2 DEF Follows
  <2> QED BY <2>1, <2>2
<1> HIDE DEF timed, priced
<1> QED BY <1>2, <1>10, <1>11 DEF Follows

(* The artifact fields an evaluation looks at. *)
LEMMA ArtifactFacts ==
  ASSUME NEW a \in Artifact
  PROVE  /\ {"sample", "dataset", "metrics", "cases"} \subseteq DOMAIN a
         /\ a.metrics \in [MinMetrics \cup MaxMetrics -> Value]
         /\ \A m \in MinMetrics : a.metrics[m] \in Rate
         /\ a.sample \in Nat
         /\ a.cases \in Seq([risk : Risks, fields : [CaseFields -> Value]])
BY DEF Artifact

LEMMA ThresholdFacts ==
  ASSUME NEW t \in Thresholds
  PROVE  /\ \A m \in MinMetrics : t.minimum[m] \in Threshold
         /\ \A m \in MaxMetrics : t.maximum[m] \in Threshold
         /\ \A m \in Dropping : t.drop[m] \in Threshold
         /\ t.sample \in Nat
BY DEF Thresholds

(* Metric by metric no worse, and otherwise the same. *)
NoWorseArtifact(c, d) ==
  /\ d.sample = c.sample /\ d.dataset = c.dataset /\ d.cases = c.cases
  /\ \A m \in MinMetrics \cup MaxMetrics :
       c.metrics[m] \in Value /\ d.metrics[m] \in Value
  /\ \A m \in MinMetrics : Below(c.metrics[m], d.metrics[m])
  /\ \A m \in MaxMetrics : Below(d.metrics[m], c.metrics[m])

LEMMA GateFollows ==
  ASSUME NEW b \in Artifact, NEW c, NEW d, NoWorseArtifact(c, d),
         NEW t \in Thresholds
  PROVE  Follows(Checks(b, c, t), Checks(b, d, t))
<1> SUFFICES ASSUME NEW check \in Checks(b, d, t)
             PROVE  \E old \in Checks(b, c, t) :
                      old.missing = check.missing /\ (old.passed => check.passed)
  BY DEF Follows
<1>1. /\ \A m \in MinMetrics \cup MaxMetrics :
           /\ b.metrics[m] \in Value
           /\ c.metrics[m] \in Value /\ d.metrics[m] \in Value
      /\ \A m \in MinMetrics : Below(c.metrics[m], d.metrics[m])
      /\ \A m \in MaxMetrics : Below(d.metrics[m], c.metrics[m])
      /\ d.sample = c.sample /\ d.dataset = c.dataset /\ d.cases = c.cases
  BY ArtifactFacts DEF NoWorseArtifact
<1>2. CASE \/ check = Check(<<"sample">>, d.sample < t.sample, TRUE)
           \/ check = Check(<<"dataset">>, FALSE, b.dataset = d.dataset)
           \/ \E r \in Risks : check \in RiskChecks(d.cases, r, t.risk[r])
  <2>1. check \in Checks(b, c, t)
    BY <1>1, <1>2, KindsOfChecks
  <2> QED BY <2>1
<1>3. CASE \E m \in MinMetrics :
             check \in Minimum(<<m>>, d.metrics[m], t.minimum[m])
  <2>1. PICK m \in MinMetrics :
          check \in Minimum(<<m>>, d.metrics[m], t.minimum[m])
    BY <1>3
  <2>2. Follows(Minimum(<<m>>, c.metrics[m], t.minimum[m]),
                Minimum(<<m>>, d.metrics[m], t.minimum[m]))
    BY <1>1, ThresholdFacts, MinimumFollows
  <2>3. PICK old \in Minimum(<<m>>, c.metrics[m], t.minimum[m]) :
          old.missing = check.missing /\ (old.passed => check.passed)
    BY <2>1, <2>2 DEF Follows
  <2>4. old \in Checks(b, c, t)
    BY KindsOfChecks
  <2> QED BY <2>3, <2>4
<1>4. CASE \E m \in MaxMetrics :
             check \in Maximum(<<m>>, d.metrics[m], t.maximum[m])
  <2>1. PICK m \in MaxMetrics :
          check \in Maximum(<<m>>, d.metrics[m], t.maximum[m])
    BY <1>4
  <2> DEFINE v == c.metrics[m]
             w == d.metrics[m]
  <2>2. /\ v.num \in Nat /\ w.num \in Nat /\ v.den = w.den
        /\ Known(v) => w.num <= v.num
        /\ v.den \in 0 .. 1
    BY <1>1 DEF Value, Below, Known
  <2> HIDE DEF v, w
  <2>3. Follows(Maximum(<<m>>, v, t.maximum[m]), Maximum(<<m>>, w, t.maximum[m]))
    BY <2>2, ThresholdFacts, MaximumFollows
  <2>4. PICK old \in Maximum(<<m>>, v, t.maximum[m]) :
          old.missing = check.missing /\ (old.passed => check.passed)
    BY <2>1, <2>3 DEF Follows, w
  <2>5. old \in Checks(b, c, t)
    BY KindsOfChecks DEF v
  <2> QED BY <2>4, <2>5
<1>5. CASE \E m \in Dropping :
             check \in Maximum(<<"drop", m>>,
                               DropFrom(b.metrics[m], d.metrics[m]), t.drop[m])
  <2>1. PICK m \in Dropping :
          check \in Maximum(<<"drop", m>>,
                            DropFrom(b.metrics[m], d.metrics[m]), t.drop[m])
    BY <1>5
  <2> DEFINE v == DropFrom(b.metrics[m], c.metrics[m])
             w == DropFrom(b.metrics[m], d.metrics[m])
  <2>0. m \in MinMetrics
    BY DEF Dropping
  <2>2. /\ v.num \in Int /\ w.num \in Int /\ v.den = w.den
        /\ Known(v) => w.num <= v.num
        /\ v.den \in 0 .. 1
    BY <1>1, <2>0 DEF Value, Below, Known, DropFrom, Exactly, Unknown
  <2> HIDE DEF v, w
  <2>3. Follows(Maximum(<<"drop", m>>, v, t.drop[m]),
                Maximum(<<"drop", m>>, w, t.drop[m]))
    BY <2>2, ThresholdFacts, MaximumFollows
  <2>4. PICK old \in Maximum(<<"drop", m>>, v, t.drop[m]) :
          old.missing = check.missing /\ (old.passed => check.passed)
    BY <2>1, <2>3 DEF Follows, w
  <2>5. old \in Checks(b, c, t)
    BY KindsOfChecks DEF v
  <2> QED BY <2>4, <2>5
<1>6. CASE check \in RatioChecks(b.metrics, d.metrics, t)
  <2>1. Follows(RatioChecks(b.metrics, c.metrics, t),
                RatioChecks(b.metrics, d.metrics, t))
    BY <1>1, RatiosFollow
  <2>2. PICK old \in RatioChecks(b.metrics, c.metrics, t) :
          old.missing = check.missing /\ (old.passed => check.passed)
    BY <1>6, <2>1 DEF Follows
  <2>3. old \in Checks(b, c, t)
    BY KindsOfChecks
  <2> QED BY <2>2, <2>3
<1> QED BY <1>2, <1>3, <1>4, <1>5, <1>6, KindsOfChecks

LEMMA EvaluatedIs ==
  ASSUME JudgedInv, HasStatus
  PROVE  /\ input \in GateFiles
         /\ input.baseline \in Artifact /\ input.candidate \in Artifact
         /\ input.thresholds \in Thresholds
         /\ verdict.status = Verdict(Checks(input.baseline, input.candidate,
                                            input.thresholds))
<1>1. input \in GateFiles /\ verdict = StatusOf(input)
  BY DEF JudgedInv, HasStatus
<1>2. verdict.status = Status(input.baseline, input.candidate, input.thresholds)
  BY <1>1 DEF StatusOf
<1> QED BY <1>1, <1>2, GateFilesAssumption, StatusIs

(* No check of a gate points the wrong way: for any artifacts and any      *)
(* thresholds, a candidate one of whose metrics is at its best, and that   *)
(* is otherwise as it was, meets no stricter gate.                         *)
THEOREM GatesAreMonotone == EvidenceSpec => []GateIsMonotone
<1>1. JudgedInv => GateIsMonotone
  <2> SUFFICES ASSUME JudgedInv, HasStatus,
                      NEW m \in MinMetrics \cup MaxMetrics,
                      Known(input.candidate.metrics[m])
               PROVE  LET best == IF m \in MinMetrics THEN Exactly(100) ELSE Exactly(0)
                          better == [input.candidate EXCEPT !.metrics[m] = best]
                      IN  Standing[Status(input.baseline, better, input.thresholds)]
                            >= Standing[verdict.status]
    BY DEF GateIsMonotone
  <2> DEFINE b == input.baseline
             c == input.candidate
             t == input.thresholds
             best == IF m \in MinMetrics THEN Exactly(100) ELSE Exactly(0)
             better == [c EXCEPT !.metrics[m] = best]
  <2>1. /\ b \in Artifact /\ c \in Artifact /\ t \in Thresholds
        /\ verdict.status = Verdict(Checks(b, c, t))
    BY EvaluatedIs
  <2> HIDE DEF b, c, t
  <2>2. /\ DOMAIN better = DOMAIN c
        /\ better.metrics = [c.metrics EXCEPT ![m] = best]
        /\ better.sample = c.sample /\ better.dataset = c.dataset
        /\ better.cases = c.cases
    BY <2>1, ArtifactFacts
  <2>3. c.metrics \in [MinMetrics \cup MaxMetrics -> Value]
    BY <2>1, ArtifactFacts
  <2>4. best \in Value /\ Known(best)
    BY DEF Value, Exactly, Known
  <2>5. m \in MinMetrics => Below(c.metrics[m], best)
    <3>1. Known(c.metrics[m])
      BY DEF c
    <3>2. m \in MinMetrics => c.metrics[m].num \in 0 .. 100
      BY <2>1, ArtifactFacts DEF Rate
    <3>3. m \in MinMetrics => best.num = 100 /\ best.den = 1
      BY DEF Exactly
    <3> QED BY <3>1, <3>2, <3>3 DEF Below, Known
  <2>6. m \in MaxMetrics => Below(best, c.metrics[m])
    BY <2>3, MetricsAssumption DEF Value, Exactly, Below, Known, c
  <2> HIDE DEF best, better
  <2>7. NoWorseArtifact(c, better)
    <3>1. \A n \in MinMetrics \cup MaxMetrics :
            better.metrics[n] = IF n = m THEN best ELSE c.metrics[n]
      BY <2>2, <2>3
    <3>2. \A n : Below(c.metrics[n], c.metrics[n])
      BY DEF Below
    <3> QED BY <2>2, <2>3, <2>4, <2>5, <2>6, <3>1, <3>2 DEF NoWorseArtifact
  <2>8. Follows(Checks(b, c, t), Checks(b, better, t))
    BY <2>1, <2>7, GateFollows
  <2>9. Standing[Verdict(Checks(b, better, t))] >= Standing[Verdict(Checks(b, c, t))]
    BY <2>8, FollowingIsNoWorse
  <2> QED BY <2>1, <2>9, StatusIs DEF b, c, t, best, better
<1> QED BY <1>1, JudgedInvariant, PTL

-----------------------------------------------------------------------------
(* Evidence that is withheld. *)
Fails(checks) == \E c \in checks : ~c.passed

LEMMA NotPassed ==
  ASSUME NEW b, NEW c, NEW t
  PROVE  (Status(b, c, t) # "pass") <=> Fails(Checks(b, c, t))
<1>1. Status(b, c, t) = Verdict(Checks(b, c, t))
  BY StatusIs
<1>2. ASSUME NEW checks PROVE (Verdict(checks) # "pass") <=> Fails(checks)
  BY DEF Verdict, Fails
<1> QED BY <1>1, <1>2

(* Each metric is what it was, or is missing. *)
Withheld(old, new) ==
  \A m \in MinMetrics \cup MaxMetrics : new[m] = old[m] \/ ~Known(new[m])

LEMMA MissingFails ==
  ASSUME NEW name, NEW old, NEW new, NEW threshold,
         new = old \/ ~Known(new)
  PROVE  /\ Fails(Minimum(name, old, threshold)) => Fails(Minimum(name, new, threshold))
         /\ Fails(Maximum(name, old, threshold)) => Fails(Maximum(name, new, threshold))
<1>1. CASE new = old
  BY <1>1
<1>2. CASE threshold = NotSet
  BY <1>2 DEF Minimum, Maximum, Fails
<1>3. CASE ~Known(new) /\ threshold # NotSet
  BY <1>3 DEF Minimum, Maximum, Fails, Check
<1> QED BY <1>1, <1>2, <1>3

LEMMA MissingRatiosFail ==
  ASSUME NEW b, NEW c, NEW d, NEW e, Withheld(b, d), Withheld(c, e), NEW t,
         Fails(RatioChecks(b, c, t))
  PROVE  Fails(RatioChecks(d, e, t))
<1> DEFINE latency == "p95_latency_ms"
           cost == "estimated_cost_usd"
           slower(x, y) ==
             Check(<<"increase">>, ~Comparable(x[latency], y[latency]),
                   ~IncreaseAbove(x[latency], y[latency], t.increase))
           dearer(x, y) ==
             Check(<<"reduction">>, ~Comparable(x[cost], y[cost]),
                   ~ReductionBelow(x[cost], y[cost], t.reduction))
<1>1. \A x, y, check :
        check \in RatioChecks(x, y, t) <=>
          \/ t.increase # NotSet /\ check = slower(x, y)
          \/ t.reduction # NotSet /\ check = dearer(x, y)
  BY DEF RatioChecks
<1>2. \A x, y : /\ ~Comparable(x[latency], y[latency]) => ~slower(x, y).passed
                /\ ~Comparable(x[cost], y[cost]) => ~dearer(x, y).passed
  BY DEF Check
<1>3. /\ d[latency] = b[latency] \/ ~Known(d[latency])
      /\ e[latency] = c[latency] \/ ~Known(e[latency])
      /\ d[cost] = b[cost] \/ ~Known(d[cost])
      /\ e[cost] = c[cost] \/ ~Known(e[cost])
  BY MetricsAssumption DEF Withheld
<1>4. /\ Comparable(d[latency], e[latency]) =>
           d[latency] = b[latency] /\ e[latency] = c[latency]
      /\ Comparable(d[cost], e[cost]) => d[cost] = b[cost] /\ e[cost] = c[cost]
  BY <1>3 DEF Comparable
<1>5. /\ Comparable(d[latency], e[latency]) => slower(d, e) = slower(b, c)
      /\ Comparable(d[cost], e[cost]) => dearer(d, e) = dearer(b, c)
  BY <1>4
<1> HIDE DEF latency, cost, slower, dearer
<1>6. PICK check \in RatioChecks(b, c, t) : ~check.passed
  BY DEF Fails
<1>7. \E other \in RatioChecks(d, e, t) : ~other.passed
  BY <1>1, <1>2, <1>5, <1>6
<1> QED BY <1>7 DEF Fails

(* What an artifact with metrics left out fails for.                       *)
LEMMA WithheldMetricsFail ==
  ASSUME NEW b, NEW c, NEW d, NEW e, NEW t,
         d.dataset = b.dataset, e.dataset = c.dataset,
         e.sample = c.sample, e.cases = c.cases,
         Withheld(b.metrics, d.metrics), Withheld(c.metrics, e.metrics),
         Fails(Checks(b, c, t))
  PROVE  Fails(Checks(d, e, t))
<1>1. PICK check \in Checks(b, c, t) : ~check.passed
  BY DEF Fails
<1> SUFFICES \E other \in Checks(d, e, t) : ~other.passed
  BY DEF Fails
<1>2. CASE \/ check = Check(<<"sample">>, c.sample < t.sample, TRUE)
           \/ check = Check(<<"dataset">>, FALSE, b.dataset = c.dataset)
           \/ \E r \in Risks : check \in RiskChecks(c.cases, r, t.risk[r])
  <2>1. check \in Checks(d, e, t)
    BY <1>2, KindsOfChecks
  <2> QED BY <1>1, <2>1
<1>3. CASE \E m \in MinMetrics : check \in Minimum(<<m>>, c.metrics[m], t.minimum[m])
  <2>1. PICK m \in MinMetrics : check \in Minimum(<<m>>, c.metrics[m], t.minimum[m])
    BY <1>3
  <2>2. e.metrics[m] = c.metrics[m] \/ ~Known(e.metrics[m])
    BY DEF Withheld
  <2>3. Fails(Minimum(<<m>>, e.metrics[m], t.minimum[m]))
    BY <1>1, <2>1, <2>2, MissingFails DEF Fails
  <2>4. PICK other \in Minimum(<<m>>, e.metrics[m], t.minimum[m]) : ~other.passed
    BY <2>3 DEF Fails
  <2>5. other \in Checks(d, e, t)
    BY KindsOfChecks
  <2> QED BY <2>4, <2>5
<1>4. CASE \E m \in MaxMetrics : check \in Maximum(<<m>>, c.metrics[m], t.maximum[m])
  <2>1. PICK m \in MaxMetrics : check \in Maximum(<<m>>, c.metrics[m], t.maximum[m])
    BY <1>4
  <2>2. e.metrics[m] = c.metrics[m] \/ ~Known(e.metrics[m])
    BY DEF Withheld
  <2>3. Fails(Maximum(<<m>>, e.metrics[m], t.maximum[m]))
    BY <1>1, <2>1, <2>2, MissingFails DEF Fails
  <2>4. PICK other \in Maximum(<<m>>, e.metrics[m], t.maximum[m]) : ~other.passed
    BY <2>3 DEF Fails
  <2>5. other \in Checks(d, e, t)
    BY KindsOfChecks
  <2> QED BY <2>4, <2>5
<1>5. CASE \E m \in Dropping :
             check \in Maximum(<<"drop", m>>,
                               DropFrom(b.metrics[m], c.metrics[m]), t.drop[m])
  <2>1. PICK m \in Dropping :
               check \in Maximum(<<"drop", m>>,
                                 DropFrom(b.metrics[m], c.metrics[m]), t.drop[m])
    BY <1>5
  <2> DEFINE old == DropFrom(b.metrics[m], c.metrics[m])
             new == DropFrom(d.metrics[m], e.metrics[m])
  <2>2. /\ d.metrics[m] = b.metrics[m] \/ ~Known(d.metrics[m])
        /\ e.metrics[m] = c.metrics[m] \/ ~Known(e.metrics[m])
    BY DEF Withheld, Dropping
  <2>3. new = old \/ ~Known(new)
    BY <2>2 DEF DropFrom, Known, Unknown
  <2>4. Fails(Maximum(<<"drop", m>>, old, t.drop[m]))
    BY <1>1, <2>1 DEF Fails
  <2> HIDE DEF old, new
  <2>5. Fails(Maximum(<<"drop", m>>, new, t.drop[m]))
    BY <2>3, <2>4, MissingFails
  <2>6. PICK other \in Maximum(<<"drop", m>>, new, t.drop[m]) : ~other.passed
    BY <2>5 DEF Fails
  <2>7. other \in Checks(d, e, t)
    BY KindsOfChecks DEF new
  <2> QED BY <2>6, <2>7
<1>6. CASE check \in RatioChecks(b.metrics, c.metrics, t)
  <2>1. Fails(RatioChecks(d.metrics, e.metrics, t))
    BY <1>1, <1>6, MissingRatiosFail DEF Fails
  <2>2. PICK other \in RatioChecks(d.metrics, e.metrics, t) : ~other.passed
    BY <2>1 DEF Fails
  <2>3. other \in Checks(d, e, t)
    BY KindsOfChecks
  <2> QED BY <2>2, <2>3
<1> QED BY <1>1, <1>2, <1>3, <1>4, <1>5, <1>6, KindsOfChecks

-----------------------------------------------------------------------------
(* The cases of a risk level that say something of a field: how many there *)
(* are among the first n, and what they add up to.                         *)
Says(case, risk, field) == case.risk = risk /\ Known(case.fields[field])

Shares(cases, risk, field) ==
  [i \in DOMAIN cases |->
     IF Says(cases[i], risk, field) THEN cases[i].fields[field].num ELSE 0]

Tally(cases, risk, field, n) ==
  [num |-> RunningSum(Shares(cases, risk, field), n),
   den |-> Cardinality({i \in 1 .. n : Says(cases[i], risk, field)})]

LEMMA MeanIsTally ==
  ASSUME NEW cases, IsList(cases), NEW risk, NEW field
  PROVE  MeanOf(cases, {i \in DOMAIN cases : cases[i].risk = risk}, field)
           = Tally(cases, risk, field, Len(cases))
<1> DEFINE S == {i \in DOMAIN cases : cases[i].risk = risk}
           said == {i \in S : Known(cases[i].fields[field])}
<1>1. said = {i \in 1 .. Len(cases) : Says(cases[i], risk, field)}
  BY Lists DEF Says
<1>2. [i \in DOMAIN cases |->
         IF i \in said THEN cases[i].fields[field].num ELSE 0]
        = Shares(cases, risk, field)
  BY DEF Says, Shares
<1> QED BY <1>1, <1>2 DEF MeanOf, Tally

LEMMA TallyOfNone ==
  ASSUME NEW cases, NEW risk, NEW field
  PROVE  Tally(cases, risk, field, 0) = [num |-> 0, den |-> 0]
<1>1. {i \in 1 .. 0 : Says(cases[i], risk, field)} = {}
  OBVIOUS
<1>2. Cardinality({}) = 0
  BY FS_EmptySet
<1> QED BY <1>1, <1>2, SumOfNone DEF Tally

(* Two lists begin with the same n cases. *)
Alike(cases, others, n) ==
  /\ 1 .. n \subseteq DOMAIN cases /\ 1 .. n \subseteq DOMAIN others
  /\ \A i \in 1 .. n : cases[i] = others[i]

LEMMA TallyOfSame ==
  ASSUME NEW cases, NEW others, NEW n \in Nat, NEW risk, NEW field,
         Alike(cases, others, n)
  PROVE  Tally(cases, risk, field, n) = Tally(others, risk, field, n)
<1>1. \A i \in 1 .. n :
        Shares(cases, risk, field)[i] = Shares(others, risk, field)[i]
  BY DEF Shares, Alike
<1>2. RunningSum(Shares(cases, risk, field), n)
        = RunningSum(Shares(others, risk, field), n)
  BY <1>1, SumOfSame
<1>3. {i \in 1 .. n : Says(cases[i], risk, field)}
        = {i \in 1 .. n : Says(others[i], risk, field)}
  BY DEF Alike
<1> QED BY <1>2, <1>3 DEF Tally

(* What one case more adds to a tally. *)
WithCase(tally, case, risk, field) ==
  IF Says(case, risk, field)
  THEN [num |-> tally.num + case.fields[field].num, den |-> tally.den + 1]
  ELSE tally

LEMMA TallyOfMore ==
  ASSUME NEW cases, NEW n \in Nat, 1 .. n + 1 \subseteq DOMAIN cases,
         NEW risk, NEW field,
         \A i \in 1 .. n + 1 : cases[i].fields[field].num \in Nat
  PROVE  Tally(cases, risk, field, n + 1)
           = WithCase(Tally(cases, risk, field, n), cases[n + 1], risk, field)
<1> DEFINE share == Shares(cases, risk, field)
           old == {i \in 1 .. n : Says(cases[i], risk, field)}
           new == {i \in 1 .. n + 1 : Says(cases[i], risk, field)}
           more == Says(cases[n + 1], risk, field)
<1>1. \A i \in 1 .. n + 1 : share[i] \in Nat
  BY DEF Shares
<1>2. share[n + 1] = IF more THEN cases[n + 1].fields[field].num ELSE 0
  BY DEF Shares
<1>3. old \in SUBSET (1 .. n) /\ new = IF more THEN old \cup {n + 1} ELSE old
  <2>1. 1 .. n + 1 = (1 .. n) \cup {n + 1}
    OBVIOUS
  <2> QED BY <2>1
<1>4. n + 1 \notin old
  OBVIOUS
<1> HIDE DEF share, old, new, more
<1>5. /\ Cardinality(old) \in Nat
      /\ Cardinality(new) = IF more THEN Cardinality(old) + 1 ELSE Cardinality(old)
  BY <1>3, <1>4, PickedOneMore
<1>6. RunningSum(share, n + 1) = RunningSum(share, n) + share[n + 1]
  BY SumOfMore
<1>7. RunningSum(share, n) \in Nat
  BY <1>1, SumNat
<1>8. /\ Tally(cases, risk, field, n) =
           [num |-> RunningSum(share, n), den |-> Cardinality(old)]
      /\ Tally(cases, risk, field, n + 1) =
           [num |-> RunningSum(share, n + 1), den |-> Cardinality(new)]
  BY DEF Tally, share, old, new
<1>9. CASE more
  BY <1>2, <1>5, <1>6, <1>8, <1>9 DEF WithCase, more
<1>10. CASE ~more
  BY <1>2, <1>5, <1>6, <1>7, <1>8, <1>10 DEF WithCase, more
<1> QED BY <1>9, <1>10

(* What is kept of the first cases says of another risk level what they do, *)
(* and nothing of the one that is left out.                                 *)
KeptIs(list, cases, risk, other, field, n) ==
  /\ IsList(list)
  /\ \A i \in DOMAIN list : list[i].risk # risk
  /\ \A i \in DOMAIN list : list[i].fields[field].num \in Nat
  /\ (\E i \in DOMAIN list : list[i].risk = other)
       <=> (\E i \in 1 .. n : cases[i].risk = other)
  /\ Tally(list, other, field, Len(list)) = Tally(cases, other, field, n)

LEMMA KeptOneMore ==
  ASSUME NEW list, NEW cases, IsList(cases), NEW risk, NEW other, other # risk,
         NEW field, \A i \in DOMAIN cases : cases[i].fields[field].num \in Nat,
         NEW n \in Nat, n + 1 \in DOMAIN cases,
         KeptIs(list, cases, risk, other, field, n)
  PROVE  KeptIs(IF cases[n + 1].risk = risk THEN list ELSE Append(list, cases[n + 1]),
                cases, risk, other, field, n + 1)
<1> DEFINE case == cases[n + 1]
           longer == Append(list, case)
<1>1. DOMAIN cases = 1 .. Len(cases) /\ Len(cases) \in Nat
  BY Lists
<1>2. 1 .. n + 1 \subseteq DOMAIN cases /\ 1 .. n + 1 = (1 .. n) \cup {n + 1}
  BY <1>1
<1>3. \A i \in 1 .. n + 1 : cases[i].fields[field].num \in Nat
  BY <1>2
<1>4. Tally(cases, other, field, n + 1)
        = WithCase(Tally(cases, other, field, n), case, other, field)
  BY <1>2, <1>3, TallyOfMore
<1>5. (\E i \in 1 .. n + 1 : cases[i].risk = other)
        <=> (\E i \in 1 .. n : cases[i].risk = other) \/ case.risk = other
  BY <1>2
<1>6. CASE case.risk = risk
  <2>1. WithCase(Tally(cases, other, field, n), case, other, field)
          = Tally(cases, other, field, n)
    BY <1>6 DEF WithCase, Says
  <2> QED BY <1>4, <1>5, <1>6, <2>1 DEF KeptIs
<1>7. CASE case.risk # risk
  <2>1. /\ IsList(list) /\ IsList(longer) /\ Len(longer) = Len(list) + 1
        /\ DOMAIN longer = DOMAIN list \cup {Len(list) + 1}
        /\ \A i \in DOMAIN list : longer[i] = list[i]
        /\ longer[Len(list) + 1] = case
    BY OneMore DEF KeptIs
  <2>2. Len(list) \in Nat /\ DOMAIN list = 1 .. Len(list)
    BY <2>1, Lists
  <2>3. case.fields[field].num \in Nat
    OBVIOUS
  <2> HIDE DEF longer, case
  <2>4. \A i \in DOMAIN longer : longer[i].fields[field].num \in Nat
    BY <2>1, <2>3 DEF KeptIs
  <2>5. \A i \in DOMAIN longer : longer[i].risk # risk
    BY <1>7, <2>1 DEF KeptIs
  <2>6. (\E i \in DOMAIN longer : longer[i].risk = other)
          <=> (\E i \in 1 .. n : cases[i].risk = other) \/ case.risk = other
    BY <2>1 DEF KeptIs
  <2>7. Tally(longer, other, field, Len(longer))
          = WithCase(Tally(longer, other, field, Len(list)), case, other, field)
    <3>1. 1 .. Len(list) + 1 = DOMAIN longer
      BY <2>1, <2>2
    <3> QED BY <2>1, <2>2, <2>4, <3>1, TallyOfMore
  <2>8. Tally(longer, other, field, Len(list)) = Tally(list, other, field, Len(list))
    <3>1. Alike(longer, list, Len(list))
      BY <2>1, <2>2 DEF Alike
    <3> QED BY <2>2, <3>1, TallyOfSame
  <2>9. Tally(longer, other, field, Len(longer)) = Tally(cases, other, field, n + 1)
    BY <1>4, <2>7, <2>8 DEF KeptIs
  <2>10. KeptIs(longer, cases, risk, other, field, n + 1)
    BY <1>5, <2>1, <2>4, <2>5, <2>6, <2>9 DEF KeptIs
  <2> QED BY <1>7, <2>10 DEF longer, case
<1> QED BY <1>6, <1>7

LEMMA KeptAre ==
  ASSUME NEW cases, IsList(cases), NEW risk, NEW other, other # risk,
         NEW field, \A i \in DOMAIN cases : cases[i].fields[field].num \in Nat
  PROVE  KeptIs(OtherCases(cases, risk), cases, risk, other, field, Len(cases))
<1> DEFINE S == {i \in DOMAIN cases : cases[i].risk # risk}
           kept(n) == Only(cases, S, n)
           Right(n) == KeptIs(kept(n), cases, risk, other, field, n)
           Bad == {n \in 0 .. Len(cases) : ~Right(n)}
<1>1. OtherCases(cases, risk) = kept(Len(cases))
  BY DEF OtherCases
<1>2. Len(cases) \in Nat /\ DOMAIN cases = 1 .. Len(cases)
  BY Lists
<1> HIDE DEF kept
<1>3. SUFFICES ASSUME Bad # {} PROVE FALSE
  BY <1>1, <1>2
<1>4. Bad \subseteq Nat
  BY <1>2
<1>5. PICK n \in Bad : \A i \in Bad : n <= i
  BY <1>3, <1>4, LeastNatural
<1>6. CASE n = 0
  <2>1. IsList(<< >>) /\ Len(<< >>) = 0 /\ DOMAIN << >> = {}
    BY NoElements
  <2>2. \A i : i \notin 1 .. 0
    OBVIOUS
  <2>3. KeptIs(<< >>, cases, risk, other, field, 0)
    BY <2>1, <2>2, TallyOfNone DEF KeptIs
  <2>4. kept(0) = << >>
    BY OnlyOfNone DEF kept
  <2> QED BY <1>5, <1>6, <2>3, <2>4
<1>7. CASE n # 0
  <2> DEFINE m == n - 1
  <2>1. m \in Nat /\ m + 1 = n /\ m + 1 \in DOMAIN cases /\ m \in 0 .. Len(cases)
    BY <1>2, <1>5, <1>7
  <2>2. m \notin Bad
    BY <1>5, <2>1
  <2>3. Right(m)
    BY <2>1, <2>2
  <2> HIDE DEF m
  <2>4. kept(m + 1) = IF cases[m + 1].risk = risk THEN kept(m)
                      ELSE Append(kept(m), cases[m + 1])
    BY <2>1, OnlyOfMore DEF kept
  <2>5. KeptIs(kept(m + 1), cases, risk, other, field, m + 1)
    BY <2>1, <2>3, <2>4, KeptOneMore
  <2> QED BY <1>5, <2>1, <2>5
<1> QED BY <1>6, <1>7

(* What an artifact without the cases of a risk level fails for.           *)
LEMMA WithheldCasesFail ==
  ASSUME NEW c \in Artifact, NEW t \in Thresholds,
         NEW risk \in Risks, NEW r \in Risks,
         Fails(RiskChecks(c.cases, r, t.risk[r]))
  PROVE  Fails(RiskChecks(OtherCases(c.cases, risk), r, t.risk[r]))
<1> DEFINE cases == c.cases
           left == OtherCases(cases, risk)
           minimum == t.risk[r]
           S == {i \in DOMAIN cases : cases[i].risk = r}
           T == {i \in DOMAIN left : left[i].risk = r}
<1>1. /\ IsList(cases)
      /\ \A i \in DOMAIN cases : cases[i].fields \in [CaseFields -> Value]
  <2> DEFINE Case == [risk : Risks, fields : [CaseFields -> Value]]
  <2>1. cases \in Seq(Case)
    BY ArtifactFacts
  <2> HIDE DEF cases, Case
  <2>2. \A i \in DOMAIN cases : cases[i] \in Case
    BY <2>1
  <2> QED BY <2>1, <2>2, ListOf DEF Case
<1>2. \A field \in CaseFields, i \in DOMAIN cases : cases[i].fields[field].num \in Nat
  BY <1>1 DEF Value
<1>3. minimum \in [CaseFields -> Threshold] \cup {<< >>} /\ minimum # << >>
  <2>1. minimum # << >>
    BY DEF Fails, RiskChecks
  <2> QED BY <2>1 DEF Thresholds
<1>4. DOMAIN minimum = CaseFields
  BY <1>3
<1> HIDE DEF cases, left, minimum, S, T
<1>5. CASE T = {}
  <2>1. Check(<<r, "sample">>, TRUE, FALSE) \in RiskChecks(left, r, minimum)
    BY <1>3, <1>5 DEF RiskChecks, T
  <2> QED BY <2>1, CheckIs DEF Fails, left, minimum, cases
<1>6. CASE T # {}
  <2>1. "quality" \in CaseFields
    BY DEF CaseFields
  <2>2. r # risk
    <3>1. PICK other : other # risk
      OBVIOUS
    <3>2. KeptIs(left, cases, risk, other, "quality", Len(cases))
      BY <1>1, <1>2, <2>1, <3>1, KeptAre DEF left
    <3> QED BY <1>6, <3>2 DEF KeptIs, T
  <2>3. \A field \in CaseFields : KeptIs(left, cases, risk, r, field, Len(cases))
    BY <1>1, <1>2, <2>2, KeptAre DEF left
  <2>4. S # {}
    BY <1>1, <1>6, <2>1, <2>3, Lists DEF KeptIs, S, T
  <2>5. ASSUME NEW field \in CaseFields
        PROVE  MeanOf(left, T, field) = MeanOf(cases, S, field)
    <3>1. IsList(left) /\ Tally(left, r, field, Len(left)) = Tally(cases, r, field, Len(cases))
      BY <2>3 DEF KeptIs
    <3> QED BY <1>1, <3>1, MeanIsTally DEF S, T
  <2>6. RiskChecks(left, r, minimum) = RiskChecks(cases, r, minimum)
    BY <1>3, <1>4, <1>6, <2>4, <2>5 DEF RiskChecks, S, T
  <2> QED BY <2>6 DEF left, minimum, cases
<1> QED BY <1>5, <1>6

(* Where two artifacts have different cases only, the other checks agree.  *)
LEMMA OnlyCasesDiffer ==
  ASSUME NEW b, NEW c, NEW d, NEW t,
         d.sample = c.sample, d.dataset = c.dataset, d.metrics = c.metrics,
         NEW check \in Checks(b, c, t), check \notin Checks(b, d, t)
  PROVE  \E r \in Risks : check \in RiskChecks(c.cases, r, t.risk[r])
<1>1. CASE \/ check = Check(<<"sample">>, c.sample < t.sample, TRUE)
           \/ check = Check(<<"dataset">>, FALSE, b.dataset = c.dataset)
  <2>1. \/ check = Check(<<"sample">>, d.sample < t.sample, TRUE)
        \/ check = Check(<<"dataset">>, FALSE, b.dataset = d.dataset)
    BY <1>1, Zenon
  <2> QED BY <2>1, KindsOfChecks
<1>2. CASE \E m \in MinMetrics : check \in Minimum(<<m>>, c.metrics[m], t.minimum[m])
  BY <1>2, KindsOfChecks
<1>3. CASE \E m \in MaxMetrics : check \in Maximum(<<m>>, c.metrics[m], t.maximum[m])
  BY <1>3, KindsOfChecks
<1>4. CASE \E m \in Dropping :
             check \in Maximum(<<"drop", m>>,
                               DropFrom(b.metrics[m], c.metrics[m]), t.drop[m])
  <2>1. PICK m \in Dropping :
               check \in Maximum(<<"drop", m>>,
                                 DropFrom(b.metrics[m], c.metrics[m]), t.drop[m])
    BY <1>4
  <2>2. check \in Maximum(<<"drop", m>>,
                         DropFrom(b.metrics[m], d.metrics[m]), t.drop[m])
    BY <2>1
  <2> QED BY <2>2, KindsOfChecks
<1>5. CASE check \in RatioChecks(b.metrics, c.metrics, t)
  BY <1>5, KindsOfChecks
<1> QED BY <1>1, <1>2, <1>3, <1>4, <1>5, KindsOfChecks

(* A gate that did not pass does not pass with less evidence either: for   *)
(* any artifacts and thresholds, a metric of either artifact that is left  *)
(* out and the cases of a risk level that are left out are never in the    *)
(* candidate's favour.                                                     *)
THEOREM MissingEvidenceIsNoPass == EvidenceSpec => []WithheldEvidenceNeverPasses
<1>1. JudgedInv => WithheldEvidenceNeverPasses
  <2> SUFFICES ASSUME JudgedInv, HasStatus, verdict.status # "pass"
               PROVE  WithheldEvidenceNeverPasses
    BY DEF WithheldEvidenceNeverPasses
  <2> DEFINE b == input.baseline
             c == input.candidate
             t == input.thresholds
             Less(a, m) == [a EXCEPT !.metrics[m] = Unknown]
             Fewer(r) == [c EXCEPT !.cases = OtherCases(@, r)]
  <2>1. /\ b \in Artifact /\ c \in Artifact /\ t \in Thresholds
        /\ Status(b, c, t) # "pass"
    BY EvaluatedIs, StatusIs
  <2> HIDE DEF b, c, t
  <2>2. Fails(Checks(b, c, t))
    BY <2>1, NotPassed
  <2>3. ASSUME NEW m \in MinMetrics \cup MaxMetrics
        PROVE  /\ Status(b, Less(c, m), t) # "pass"
               /\ Status(Less(b, m), c, t) # "pass"
    <3>1. ASSUME NEW a \in Artifact
          PROVE  /\ Less(a, m).sample = a.sample /\ Less(a, m).dataset = a.dataset
                 /\ Less(a, m).cases = a.cases
                 /\ Withheld(a.metrics, Less(a, m).metrics)
      <4>1. Less(a, m).metrics = [a.metrics EXCEPT ![m] = Unknown]
        BY ArtifactFacts
      <4>2. ~Known(Unknown)
        BY DEF Known, Unknown
      <4>3. Withheld(a.metrics, [a.metrics EXCEPT ![m] = Unknown])
        BY <4>2, ArtifactFacts DEF Withheld
      <4> QED BY <4>1, <4>3, ArtifactFacts
    <3>2. \A a : Withheld(a, a)
      BY DEF Withheld
    <3>3. Fails(Checks(b, Less(c, m), t))
      BY <2>1, <2>2, <3>1, <3>2, WithheldMetricsFail
    <3>4. Fails(Checks(Less(b, m), c, t))
      BY <2>1, <2>2, <3>1, <3>2, WithheldMetricsFail
    <3> QED BY <3>3, <3>4, NotPassed
  <2>4. ASSUME NEW risk \in Risks
        PROVE  Status(b, Fewer(risk), t) # "pass"
    <3> DEFINE d == Fewer(risk)
    <3>1. /\ d.sample = c.sample /\ d.dataset = c.dataset /\ d.metrics = c.metrics
          /\ d.cases = OtherCases(c.cases, risk)
      BY <2>1, ArtifactFacts
    <3> HIDE DEF d
    <3>2. PICK check \in Checks(b, c, t) : ~check.passed
      BY <2>2 DEF Fails
    <3>3. CASE \E r \in Risks : check \in RiskChecks(c.cases, r, t.risk[r])
      <4>1. PICK r \in Risks : check \in RiskChecks(c.cases, r, t.risk[r])
        BY <3>3
      <4>2. Fails(RiskChecks(c.cases, r, t.risk[r]))
        BY <3>2, <4>1 DEF Fails
      <4>3. Fails(RiskChecks(d.cases, r, t.risk[r]))
        BY <2>1, <3>1, <4>2, WithheldCasesFail
      <4>4. PICK other \in RiskChecks(d.cases, r, t.risk[r]) : ~other.passed
        BY <4>3 DEF Fails
      <4>5. other \in Checks(b, d, t)
        BY KindsOfChecks
      <4> QED BY <4>4, <4>5, NotPassed DEF Fails, d
    <3>4. CASE ~ \E r \in Risks : check \in RiskChecks(c.cases, r, t.risk[r])
      <4>1. check \in Checks(b, d, t)
        BY <3>1, <3>4, OnlyCasesDiffer
      <4> QED BY <3>2, <4>1, NotPassed DEF Fails, d
    <3> QED BY <3>3, <3>4
  <2> QED BY <2>3, <2>4 DEF WithheldEvidenceNeverPasses, b, c, t
<1> QED BY <1>1, JudgedInvariant, PTL

-----------------------------------------------------------------------------
(* The chain of audit events. *)
ChainsTo(event, bodies, n) ==
  event = [i \in 1 .. n |->
             Event(i, bodies[i], IF i = 1 THEN NoDigest ELSE event[i - 1].digest)]

LEMMA ChainExists ==
  ASSUME NEW bodies, NEW n \in Nat
  PROVE  \E event : ChainsTo(event, bodies, n)
<1> DEFINE Bad == {k \in Nat : ~ \E event : ChainsTo(event, bodies, k)}
<1>1. SUFFICES Bad = {}
  OBVIOUS
<1>2. SUFFICES ASSUME Bad # {} PROVE FALSE
  OBVIOUS
<1>3. PICK k \in Bad : \A other \in Bad : k <= other
  BY <1>2, LeastNatural
<1>4. CASE k = 0
  <2> DEFINE none == [i \in 1 .. 0 |-> NoDigest]
  <2>1. ChainsTo(none, bodies, 0)
    BY DEF ChainsTo
  <2> QED BY <1>3, <1>4, <2>1
<1>5. CASE k # 0
  <2>1. k - 1 \in Nat /\ k - 1 \notin Bad
    BY <1>3, <1>5
  <2>2. PICK event : ChainsTo(event, bodies, k - 1)
    BY <2>1
  <2> DEFINE Before(f, i) == IF i = 1 THEN NoDigest ELSE f[i - 1].digest
             longer == [i \in 1 .. k |->
                          IF i = k THEN Event(k, bodies[k], Before(event, k))
                          ELSE event[i]]
  <2>3. \A i \in 1 .. k - 1 : event[i] = Event(i, bodies[i], Before(event, i))
    BY <2>2 DEF ChainsTo
  <2>4. ASSUME NEW i \in 1 .. k
        PROVE  longer[i] = Event(i, bodies[i], Before(longer, i))
    <3>1. i # 1 => longer[i - 1] = event[i - 1]
      BY <1>3, <1>5
    <3>2. Before(longer, i) = Before(event, i)
      BY <3>1
    <3>3. CASE i = k
      BY <3>2, <3>3
    <3>4. CASE i # k
      <4>1. i \in 1 .. k - 1 /\ longer[i] = event[i]
        BY <1>3, <3>4
      <4> QED BY <2>3, <3>2, <4>1
    <3> QED BY <3>3, <3>4
  <2>5. ChainsTo(longer, bodies, k)
    BY <2>4 DEF ChainsTo
  <2> QED BY <1>3, <2>5
<1> QED BY <1>4, <1>5

(* A list of events, each with the digest of the one before. *)
Chain(log) ==
  /\ IsList(log)
  /\ \A i \in DOMAIN log :
       log[i] = Event(i, log[i].body, IF i = 1 THEN NoDigest ELSE log[i - 1].digest)

LEMMA EventsAreAChain ==
  ASSUME NEW bodies, IsList(bodies), NEW linked, linked
  PROVE  Chain(Events(bodies, linked))
<1> DEFINE event == CHOOSE f : ChainsTo(f, bodies, Len(bodies))
           log == Events(bodies, linked)
<1>1. Len(bodies) \in Nat /\ DOMAIN bodies = 1 .. Len(bodies)
  BY Lists
<1>2. ChainsTo(event, bodies, Len(bodies))
  BY <1>1, ChainExists
<1>3. log = [i \in 1 .. Len(bodies) |-> event[i]]
  BY <1>1 DEF Events, ChainsTo
<1> HIDE DEF event, log
<1>4. \A i \in 1 .. Len(bodies) :
        log[i] = Event(i, bodies[i], IF i = 1 THEN NoDigest ELSE log[i - 1].digest)
  <2>1. \A i \in 1 .. Len(bodies) : log[i] = event[i]
    BY <1>3
  <2>2. \A i \in 1 .. Len(bodies) : i # 1 => log[i - 1] = event[i - 1]
    BY <1>1, <1>3
  <2>3. \A i \in 1 .. Len(bodies) :
          event[i] = Event(i, bodies[i], IF i = 1 THEN NoDigest ELSE event[i - 1].digest)
    BY <1>2 DEF ChainsTo
  <2> QED BY <2>1, <2>2, <2>3
<1>5. \A i, body, previous : Event(i, body, previous).body = body
  BY DEF Event
<1>6. IsList(log) /\ DOMAIN log = 1 .. Len(bodies)
  <2>1. log = [i \in 1 .. Len(bodies) |-> log[i]]
    BY <1>3
  <2> QED BY <1>1, <2>1, FunctionList
<1>7. \A i \in DOMAIN log : log[i].body = bodies[i]
  BY <1>4, <1>5, <1>6
<1> QED BY <1>4, <1>6, <1>7 DEF Chain, log

LEMMA EventIs ==
  ASSUME NEW sequence, NEW body, NEW previous
  PROVE  LET e == Event(sequence, body, previous)
         IN  /\ e.sequence = sequence /\ e.body = body /\ e.previous = previous
             /\ e.digest = <<sequence, body, previous>>
             /\ DOMAIN e = {"sequence", "body", "previous", "digest"}
BY DEF Event, Digest

LEMMA ChainFacts ==
  ASSUME NEW log, Chain(log), NEW i \in DOMAIN log
  PROVE  /\ DOMAIN log[i] = {"sequence", "body", "previous", "digest"}
         /\ log[i].sequence = i
         /\ log[i].previous = IF i = 1 THEN NoDigest ELSE log[i - 1].digest
         /\ log[i].digest = <<i, log[i].body, log[i].previous>>
BY EventIs DEF Chain

LEMMA ChainVerifies == ASSUME NEW log, Chain(log) PROVE Verifies(log)
BY ChainFacts DEF Verifies, Digest

(* An event that is not where its number says. *)
LEMMA MisplacedIsNoticed ==
  ASSUME NEW log, NEW i \in DOMAIN log, log[i].sequence # i
  PROVE  ~Verifies(log)
BY DEF Verifies

LEMMA DroppedIsNoticed ==
  ASSUME NEW log, Chain(log), NEW i \in 1 .. Len(log) - 1
  PROVE  ~Verifies(RemoveAt(log, i))
<1> DEFINE n == Len(log)
           S == ToSet(log)
           before == SubSeq(log, 1, i - 1)
           after == SubSeq(log, i + 1, n)
<1>1. n \in Nat /\ DOMAIN log = 1 .. n /\ \A j \in 1 .. n : log[j] \in S
  BY Lists DEF Chain
<1> HIDE DEF n, S
<1>2. i \in 1 .. n - 1 /\ i - 1 \in Int /\ i + 1 \in Int /\ i + 1 <= n /\ i \in 1 .. n
  BY <1>1 DEF n
<1>3. before \in Seq(S) /\ Len(before) = i - 1
  <2>1. \A j \in 1 .. i - 1 : log[j] \in S
    BY <1>1, <1>2
  <2> QED BY <1>2, <2>1, SubSeqProperties
<1>4. after \in Seq(S) /\ Len(after) = n - i /\ after[1] = log[i + 1]
  <2>1. \A j \in i + 1 .. n : log[j] \in S
    BY <1>1, <1>2
  <2> QED BY <1>1, <1>2, <2>1, SubSeqProperties
<1> HIDE DEF before, after
<1> DEFINE rest == before \o after
<1>5. IsList(before) /\ IsList(after) /\ DOMAIN after = 1 .. n - i
  BY <1>1, <1>2, <1>3, <1>4, ListOf, Lists
<1>6. /\ IsList(rest) /\ Len(rest) = n - 1
      /\ rest[i] = log[i + 1]
  <2>1. 1 \in DOMAIN after /\ Len(before) + 1 = i /\ Len(before) + Len(after) = n - 1
    BY <1>1, <1>2, <1>3, <1>4, <1>5
  <2> QED BY <1>4, <1>5, <2>1, TwoLists
<1> HIDE DEF rest
<1>7. i \in DOMAIN rest
  BY <1>2, <1>6, Lists
<1>8. log[i + 1].sequence = i + 1
  BY <1>1, <1>2, ChainFacts
<1>9. rest[i].sequence # i
  BY <1>2, <1>6, <1>8
<1>10. ~Verifies(rest)
  BY <1>7, <1>9, MisplacedIsNoticed
<1> QED BY <1>10 DEF RemoveAt, before, after, n, rest

LEMMA SwappedIsNoticed ==
  ASSUME NEW log, Chain(log), NEW i \in 1 .. Len(log) - 1
  PROVE  ~Verifies([log EXCEPT ![i] = log[i + 1], ![i + 1] = log[i]])
<1>1. Len(log) \in Nat /\ DOMAIN log = 1 .. Len(log)
  BY Lists DEF Chain
<1>2. i \in DOMAIN log /\ i + 1 \in DOMAIN log
  BY <1>1
<1> DEFINE swapped == [log EXCEPT ![i] = log[i + 1], ![i + 1] = log[i]]
<1>3. i \in DOMAIN swapped /\ swapped[i] = log[i + 1]
  BY <1>2
<1>4. log[i + 1].sequence = i + 1
  BY <1>2, ChainFacts
<1> HIDE DEF swapped
<1>5. swapped[i].sequence # i
  BY <1>3, <1>4
<1> QED BY <1>3, <1>5, MisplacedIsNoticed DEF swapped

LEMMA RewrittenIsNoticed ==
  ASSUME NEW log, Chain(log), NEW i \in 1 .. Len(log) - 1,
         NEW body, body # log[i].body
  PROVE  LET rewritten == Event(log[i].sequence, body, log[i].previous)
         IN  ~Verifies([log EXCEPT ![i] = rewritten,
                                   ![i + 1].previous = rewritten.digest])
<1> DEFINE rewritten == Event(log[i].sequence, body, log[i].previous)
           forged == [log EXCEPT ![i] = rewritten,
                                 ![i + 1].previous = rewritten.digest]
           next == log[i + 1]
<1>1. Len(log) \in Nat /\ DOMAIN log = 1 .. Len(log)
  BY Lists DEF Chain
<1>2. i \in DOMAIN log /\ i + 1 \in DOMAIN log /\ i + 1 # 1 /\ (i + 1) - 1 = i
  BY <1>1
<1>3. i + 1 \in DOMAIN forged
      /\ forged[i + 1] = [next EXCEPT !.previous = rewritten.digest]
  BY <1>2
<1>4. /\ next.sequence = i + 1 /\ next.previous = log[i].digest
      /\ next.digest = <<i + 1, next.body, log[i].digest>>
      /\ DOMAIN next = {"sequence", "body", "previous", "digest"}
  BY <1>2, ChainFacts
<1>5. log[i].digest = <<i, log[i].body, log[i].previous>>
  BY <1>2, ChainFacts
<1>6. rewritten.digest = <<log[i].sequence, body, log[i].previous>>
  BY EventIs
<1> HIDE DEF rewritten, forged, next
<1>7. rewritten.digest # log[i].digest
  BY <1>5, <1>6
<1>8. /\ forged[i + 1].previous = rewritten.digest
      /\ forged[i + 1].digest = next.digest
  BY <1>3, <1>4
<1>9. Digest(forged[i + 1]) # forged[i + 1].digest
  BY <1>4, <1>7, <1>8 DEF Digest
<1> QED BY <1>3, <1>9 DEF Verifies, forged, rewritten

(* What is in the audit file, if there is one, are the events of a list. *)
AuditInv ==
  audit = << >> \/ \E bodies : IsList(bodies) /\ audit = Events(bodies, chained)

LEMMA EventListsAreLists ==
  /\ PlanInv /\ command = "route-plan" => IsList(RouteEvents)
  /\ IsList(ExitEvents)
<1> DEFINE exported == IF destination["aimeter"] # Nowhere THEN <<<<"exported">>>>
                       ELSE << >>
<1>1. \A x, y, z, u, v : /\ IsList(<<x>>) /\ IsList(<<x, y, z>>)
                         /\ IsList(<<x, y, z, u, v>>)
  <2> TAKE x, y, z, u, v
  <2>1. /\ <<x>> \in Seq({x}) /\ <<x, y, z>> \in Seq({x, y, z})
        /\ <<x, y, z, u, v>> \in Seq({x, y, z, u, v})
    OBVIOUS
  <2> QED BY <2>1, ListOf
<1>2. IsList(exported)
  <2>1. IsList(<< >>) /\ IsList(<<<<"exported">>>>)
    BY <1>1, NoElements
  <2> QED BY <2>1
<1> HIDE DEF exported
<1>3. IsList(ExitEvents)
  <2> DEFINE events == <<<<"started">>, <<"comparison_loaded", verdict.summary>>,
                         <<"thresholds_evaluated">>, <<"decision", verdict.decision>>,
                         <<"generated">>>>
  <2>1. IsList(events)
    BY <1>1
  <2> HIDE DEF events
  <2>2. IsList(events \o exported)
    BY <1>2, <2>1, TwoLists
  <2> QED BY <2>2 DEF ExitEvents, events, exported
<1>4. ASSUME PlanInv, command = "route-plan" PROVE IsList(RouteEvents)
  <2> DEFINE first == <<<<"started">>, <<"input_loaded">>, <<"thresholds_evaluated">>>>
             tasks == [i \in DOMAIN input |-> <<"task", input[i].id, verdict.routes[i]>>]
             last == <<<<"plan_generated", verdict.counts>>>>
  <2>1. IsList(first) /\ IsList(last)
    BY <1>1
  <2>2. IsList(tasks)
    <3>1. IsList(input)
      BY <1>4, TaskFilesAssumption, ListOf DEF PlanInv, Planned
    <3>2. Len(input) \in Nat /\ tasks = [i \in 1 .. Len(input) |-> tasks[i]]
      BY <3>1, Lists
    <3> HIDE DEF tasks
    <3> QED BY <3>2, FunctionList
  <2> HIDE DEF first, tasks, last
  <2>3. IsList(first \o tasks)
    BY <2>1, <2>2, TwoLists
  <2>4. IsList((first \o tasks) \o last)
    BY <2>1, <2>3, TwoLists
  <2>5. IsList(((first \o tasks) \o last) \o exported)
    BY <1>2, <2>4, TwoLists
  <2> QED BY <2>5 DEF RouteEvents, first, tasks, last, exported
<1> QED BY <1>3, <1>4

LEMMA AuditInvariant == EvidenceSpec => []AuditInv
<1>1. ReportsStart => AuditInv
  BY DEF ReportsStart, ReportsInit, NoReports, RoutePlanInit, ExitReportInit,
     GateInit, Init, AuditInv
<1>2. PlanInv /\ AuditInv /\ [Next]_vars => AuditInv'
  <2> SUFFICES ASSUME PlanInv, AuditInv, [Next]_vars PROVE AuditInv'
    OBVIOUS
  <2>1. chained' = chained
    BY OptionsAreKept DEF options
  <2>2. CASE UNCHANGED audit
    BY <2>1, <2>2 DEF AuditInv
  <2>3. ASSUME NEW bodies, IsList(bodies), WriteNext(bodies) PROVE AuditInv'
    <3>1. audit' = audit \/ audit' = Events(bodies, chained)
      BY <2>3 DEF WriteNext
    <3> QED BY <2>1, <2>2, <2>3, <3>1 DEF AuditInv
  <2>4. ASSUME NEW v, NEW code,
               End(code) \/ Decided(v) \/ WriteRaised \/ Written(code)
               \/ UNCHANGED vars
        PROVE  UNCHANGED audit
    BY <2>4 DEF End, Decided, WriteRaised, Written, vars
  <2>5. CASE RoutePlanWrites
    <3>1. CASE WriteNext(RouteEvents)
      BY <2>3, <2>5, <3>1, EventListsAreLists DEF RoutePlanWrites
    <3> QED BY <2>2, <2>4, <2>5, <3>1 DEF RoutePlanWrites
  <2>6. CASE ExitReportWrites
    <3>1. CASE WriteNext(ExitEvents)
      BY <2>3, <3>1, EventListsAreLists
    <3> QED BY <2>2, <2>4, <2>6, <3>1 DEF ExitReportWrites
  <2>7. CASE GateWrites
    <3>1. CASE WriteNext(<< >>)
      BY <2>3, <3>1, NoElements
    <3> QED BY <2>2, <2>4, <2>7, <3>1 DEF GateWrites
  <2>8. CASE ~(RoutePlanWrites \/ ExitReportWrites \/ GateWrites)
    BY <2>2, <2>4, <2>8 DEF Next, RoutePlanRefused, RoutePlanned,
      ExitReportRefused, ExitReported, GateRefused, GateEvaluated, Ended
  <2> QED BY <2>5, <2>6, <2>7, <2>8
<1> QED BY <1>1, <1>2, PlanInvariant, ReportsRun, PTL

(* The chain of audit events is one: a reader who recomputes the digests   *)
(* of a file of any length notices any event but the last that was         *)
(* dropped, moved or rewritten.                                            *)
THEOREM ChainsTellTampering == EvidenceSpec => []TamperEvident
<1>1. AuditInv => TamperEvident
  <2> SUFFICES ASSUME AuditInv, audit # << >>, chained
               PROVE  /\ Verifies(audit)
                      /\ \A log \in Tampered(audit, {audit[i].body : i \in DOMAIN audit}) :
                           ~Verifies(log)
    BY DEF TamperEvident
  <2>1. Chain(audit)
    BY EventsAreAChain DEF AuditInv
  <2>2. ASSUME NEW bodies, NEW log \in Tampered(audit, bodies) PROVE ~Verifies(log)
    <3>1. CASE \E i \in 1 .. Len(audit) - 1 : log = RemoveAt(audit, i)
      BY <2>1, <3>1, DroppedIsNoticed
    <3>2. CASE \E i \in 1 .. Len(audit) - 1 :
                 log = [audit EXCEPT ![i] = audit[i + 1], ![i + 1] = audit[i]]
      BY <2>1, <3>2, SwappedIsNoticed
    <3> DEFINE Rewritten(e) == Event(audit[e[1]].sequence, e[2], audit[e[1]].previous)
    <3>3. CASE \E e \in (1 .. Len(audit) - 1) \X bodies :
                 /\ e[2] # audit[e[1]].body
                 /\ log = [audit EXCEPT ![e[1]] = Rewritten(e),
                                        ![e[1] + 1].previous = Rewritten(e).digest]
      <4>1. PICK e \in (1 .. Len(audit) - 1) \X bodies :
                   /\ e[2] # audit[e[1]].body
                   /\ log = [audit EXCEPT ![e[1]] = Rewritten(e),
                                          ![e[1] + 1].previous = Rewritten(e).digest]
        BY <3>3
      <4>2. e[1] \in 1 .. Len(audit) - 1
        OBVIOUS
      <4> QED BY <2>1, <4>1, <4>2, RewrittenIsNoticed
    <3> QED BY <2>2, <3>1, <3>2, <3>3, Zenon DEF Tampered
  <2> QED BY <2>1, <2>2, ChainVerifies
<1> QED BY <1>1, AuditInvariant, PTL

-----------------------------------------------------------------------------
(* Workflows. *)
TracesStart == Traces!Init \/ NoTraces

LEMMA TracesRun == EvidenceSpec => TracesStart /\ [][Traces!Next]_traceVars
<1>1. EvidenceInit => TracesStart
  BY DEF EvidenceInit, TracesStart
<1>2. [EvidenceNext]_<<subject, vars, rowVars, files, traceVars>>
        => [Traces!Next]_traceVars
  BY DEF EvidenceNext, NoMoreEvidence
<1> QED BY <1>1, <1>2, PTL DEF EvidenceSpec

(* What an instance calls by its own name. *)
LEMMA SameOperators ==
  /\ \A S : Traces!Cardinality(S) = Cardinality(S)
  /\ \A numbers, n : Traces!RunningSum(numbers, n) = RunningSum(numbers, n)
  /\ \A list, S, n : Traces!Only(list, S, n) = Only(list, S, n)
<1>1. ASSUME NEW S PROVE Traces!Cardinality(S) = Cardinality(S)
  BY DEF Traces!Cardinality, Cardinality
<1>2. ASSUME NEW numbers, NEW n
      PROVE  Traces!RunningSum(numbers, n) = RunningSum(numbers, n)
  BY DEF Traces!RunningSum, RunningSum
<1>3. ASSUME NEW list, NEW S, NEW n
      PROVE  Traces!Only(list, S, n) = Only(list, S, n)
  BY DEF Traces!Only, Only
<1> QED BY <1>1, <1>2, <1>3

TracesInv ==
  /\ IsList(recorded) /\ \A i \in DOMAIN recorded : recorded[i] \in Steps
  /\ IsList(delivered) /\ \A i \in DOMAIN delivered : delivered[i] \in DOMAIN recorded
  /\ expected \in Seq(STRING)

LEMMA TracesInvariant == EvidenceSpec => []TracesInv
<1>1. TracesStart => TracesInv
  <2>1. IsList(<< >>) /\ DOMAIN << >> = {} /\ << >> \in Seq(STRING)
    BY NoElements
  <2> QED BY <2>1, StepsAssumption DEF TracesStart, Traces!Init, NoTraces, TracesInv
<1>2. TracesInv /\ [Traces!Next]_traceVars => TracesInv'
  <2> SUFFICES ASSUME TracesInv, [Traces!Next]_traceVars PROVE TracesInv'
    OBVIOUS
  <2>1. CASE UNCHANGED traceVars
    BY <2>1 DEF TracesInv, traceVars
  <2>2. ASSUME NEW s \in Steps, Traces!Take(s) PROVE TracesInv'
    <3>1. recorded' = Append(recorded, s) /\ UNCHANGED <<expected, delivered>>
      BY <2>2 DEF Traces!Take
    <3>2. delivered = << >> /\ DOMAIN << >> = {}
      BY <2>2, NoElements DEF Traces!Take
    <3>3. IsList(recorded') /\ \A i \in DOMAIN recorded' : recorded'[i] \in Steps
      BY <3>1, OneMore DEF TracesInv
    <3> QED BY <3>1, <3>2, <3>3 DEF TracesInv
  <2>3. ASSUME NEW i \in DOMAIN recorded, Traces!Deliver(i) PROVE TracesInv'
    <3>1. delivered' = Append(delivered, i) /\ UNCHANGED <<expected, recorded>>
      BY <2>3 DEF Traces!Deliver
    <3>2. /\ IsList(delivered')
          /\ \A j \in DOMAIN delivered' : delivered'[j] \in DOMAIN recorded
      BY <3>1, OneMore DEF TracesInv
    <3> QED BY <3>1, <3>2 DEF TracesInv
  <2> QED BY <2>1, <2>2, <2>3 DEF Traces!Next
<1> QED BY <1>1, <1>2, TracesRun, PTL

(* What a step is. *)
FailsIn(s) == s.kind = "tool_result" /\ s.succeeded = "no"
AnswersIn(s) == s.kind \in {"model_response", "final_answer"} /\ ~s.error

LEMMA PlacesAre ==
  ASSUME NEW steps
  PROVE  /\ Traces!FailedIndexes(steps) = {i \in DOMAIN steps : FailsIn(steps[i])}
         /\ Traces!TimeoutIndexes(steps) = {i \in DOMAIN steps : steps[i].timeout}
         /\ Traces!RecoveredIndexes(steps) =
              {i \in DOMAIN steps :
                 /\ FailsIn(steps[i])
                 /\ \E j \in i + 1 .. Len(steps) : AnswersIn(steps[j])}
         /\ Traces!TimeoutRecovered(steps) <=>
              \E i \in DOMAIN steps :
                /\ steps[i].timeout
                /\ \E j \in i + 1 .. Len(steps) :
                     AnswersIn(steps[j]) /\ steps[j].kind = "final_answer"
<1>1. Traces!FailedIndexes(steps) = {i \in DOMAIN steps : FailsIn(steps[i])}
  BY DEF Traces!FailedIndexes, Traces!Places, FailsIn
<1>2. Traces!TimeoutIndexes(steps) = {i \in DOMAIN steps : steps[i].timeout}
  BY DEF Traces!TimeoutIndexes, Traces!Places
<1>3. Traces!RecoveredIndexes(steps) =
        {i \in Traces!FailedIndexes(steps) :
           \E j \in i + 1 .. Len(steps) : AnswersIn(steps[j])}
  BY DEF Traces!RecoveredIndexes, AnswersIn
<1>4. Traces!TimeoutRecovered(steps) <=>
        \E i \in Traces!TimeoutIndexes(steps) :
          \E j \in i + 1 .. Len(steps) :
            AnswersIn(steps[j]) /\ steps[j].kind = "final_answer"
  BY DEF Traces!TimeoutRecovered, AnswersIn
<1> QED BY <1>1, <1>2, <1>3, <1>4

(* Counting the places of one kind, with one step more.                    *)
LEMMA CountOneMore ==
  ASSUME NEW steps, IsList(steps), NEW old \in SUBSET DOMAIN steps, NEW new,
         new = old \/ new = old \cup {Len(steps) + 1}
  PROVE  /\ Cardinality(old) \in Nat
         /\ Cardinality(new) = IF new = old THEN Cardinality(old)
                               ELSE Cardinality(old) + 1
BY Lists, PickedOneMore

(* What one step more does to the places an evaluation counts.             *)
LEMMA OneStepMore ==
  ASSUME NEW steps, IsList(steps), NEW s
  PROVE  LET longer == Append(steps, s)
             more == {Len(steps) + 1}
         IN  /\ Traces!FailedIndexes(longer) =
                  Traces!FailedIndexes(steps) \cup (IF FailsIn(s) THEN more ELSE {})
             /\ Traces!TimeoutIndexes(longer) =
                  Traces!TimeoutIndexes(steps) \cup (IF s.timeout THEN more ELSE {})
             /\ Traces!RecoveredIndexes(longer) =
                  IF AnswersIn(s) THEN Traces!FailedIndexes(steps)
                  ELSE Traces!RecoveredIndexes(steps)
             /\ Traces!TimeoutRecovered(longer) <=>
                  \/ Traces!TimeoutRecovered(steps)
                  \/ /\ Traces!TimeoutIndexes(steps) # {}
                     /\ AnswersIn(s) /\ s.kind = "final_answer"
<1> DEFINE longer == Append(steps, s)
           n == Len(steps)
<1>1. /\ n \in Nat /\ DOMAIN steps = 1 .. n
      /\ Len(longer) = n + 1 /\ DOMAIN longer = (1 .. n) \cup {n + 1}
      /\ \A i \in 1 .. n : longer[i] = steps[i]
      /\ longer[n + 1] = s
  BY OneMore, Lists
<1>2. /\ Traces!FailedIndexes(steps) = {i \in 1 .. n : FailsIn(steps[i])}
      /\ Traces!TimeoutIndexes(steps) = {i \in 1 .. n : steps[i].timeout}
      /\ Traces!RecoveredIndexes(steps) =
           {i \in 1 .. n : /\ FailsIn(steps[i])
                           /\ \E j \in i + 1 .. n : AnswersIn(steps[j])}
      /\ Traces!TimeoutRecovered(steps) <=>
           \E i \in 1 .. n :
             /\ steps[i].timeout
             /\ \E j \in i + 1 .. n : AnswersIn(steps[j]) /\ steps[j].kind = "final_answer"
  BY <1>1, PlacesAre
<1>3. /\ Traces!FailedIndexes(longer) =
           {i \in (1 .. n) \cup {n + 1} : FailsIn(longer[i])}
      /\ Traces!TimeoutIndexes(longer) =
           {i \in (1 .. n) \cup {n + 1} : longer[i].timeout}
      /\ Traces!RecoveredIndexes(longer) =
           {i \in (1 .. n) \cup {n + 1} :
              /\ FailsIn(longer[i])
              /\ \E j \in i + 1 .. n + 1 : AnswersIn(longer[j])}
      /\ Traces!TimeoutRecovered(longer) <=>
           \E i \in (1 .. n) \cup {n + 1} :
             /\ longer[i].timeout
             /\ \E j \in i + 1 .. n + 1 :
                  AnswersIn(longer[j]) /\ longer[j].kind = "final_answer"
  <2> HIDE DEF longer, n
  <2>1. DOMAIN longer = (1 .. n) \cup {n + 1} /\ Len(longer) = n + 1
    BY <1>1
  <2>2. Traces!FailedIndexes(longer) = {i \in DOMAIN longer : FailsIn(longer[i])}
    BY PlacesAre
  <2>3. Traces!TimeoutIndexes(longer) = {i \in DOMAIN longer : longer[i].timeout}
    BY PlacesAre
  <2>4. Traces!RecoveredIndexes(longer) =
          {i \in DOMAIN longer :
             /\ FailsIn(longer[i])
             /\ \E j \in i + 1 .. Len(longer) : AnswersIn(longer[j])}
    BY PlacesAre
  <2>5. Traces!TimeoutRecovered(longer) <=>
          \E i \in DOMAIN longer :
            /\ longer[i].timeout
            /\ \E j \in i + 1 .. Len(longer) :
                 AnswersIn(longer[j]) /\ longer[j].kind = "final_answer"
    BY PlacesAre
  <2> QED BY <2>1, <2>2, <2>3, <2>4, <2>5
<1> HIDE DEF n, longer
<1>4. Traces!FailedIndexes(longer) =
        Traces!FailedIndexes(steps) \cup (IF FailsIn(s) THEN {n + 1} ELSE {})
  BY <1>1, <1>2, <1>3
<1>5. Traces!TimeoutIndexes(longer) =
        Traces!TimeoutIndexes(steps) \cup (IF s.timeout THEN {n + 1} ELSE {})
  BY <1>1, <1>2, <1>3
<1>6. \A i \in 1 .. n : i + 1 .. n + 1 = (i + 1 .. n) \cup {n + 1}
                        /\ \A j \in i + 1 .. n : j \in 1 .. n
  BY <1>1
<1>7. n + 1 + 1 .. n + 1 = {}
  BY <1>1
<1>8. Traces!RecoveredIndexes(longer) =
        {i \in 1 .. n : /\ FailsIn(steps[i])
                        /\ \/ \E j \in i + 1 .. n : AnswersIn(steps[j])
                           \/ AnswersIn(s)}
  BY <1>1, <1>3, <1>6, <1>7
<1>9. Traces!RecoveredIndexes(longer) =
        IF AnswersIn(s) THEN Traces!FailedIndexes(steps)
        ELSE Traces!RecoveredIndexes(steps)
  BY <1>2, <1>8
<1>10. Traces!TimeoutRecovered(longer) <=>
         \E i \in 1 .. n :
           /\ steps[i].timeout
           /\ \/ \E j \in i + 1 .. n :
                   AnswersIn(steps[j]) /\ steps[j].kind = "final_answer"
              \/ AnswersIn(s) /\ s.kind = "final_answer"
  BY <1>1, <1>3, <1>6, <1>7
<1>11. Traces!TimeoutRecovered(longer) <=>
         \/ Traces!TimeoutRecovered(steps)
         \/ /\ Traces!TimeoutIndexes(steps) # {}
            /\ AnswersIn(s) /\ s.kind = "final_answer"
  BY <1>2, <1>10
<1> QED BY <1>4, <1>5, <1>9, <1>11 DEF n, longer

(* ... and to its policy and its cost.                                     *)
LEMMA PolicyOneMore ==
  ASSUME NEW steps, IsList(steps), NEW s,
         \A i \in DOMAIN steps : steps[i].policy \in {"none", "pass", "fail"},
         s.policy \in {"none", "pass", "fail"}
  PROVE  /\ Traces!PolicyPass(Append(steps, s)) =
              IF s.policy = "none" \/ Traces!PolicyPass(steps) = "fail"
              THEN Traces!PolicyPass(steps) ELSE s.policy
<1> DEFINE longer == Append(steps, s)
           old == {steps[i].policy : i \in DOMAIN steps} \ {"none"}
           new == {longer[i].policy : i \in DOMAIN longer} \ {"none"}
           Strictest(values) == IF values = {} THEN "none"
                                ELSE IF values = {"pass"} THEN "pass" ELSE "fail"
<1>1. /\ DOMAIN longer = DOMAIN steps \cup {Len(steps) + 1}
      /\ \A i \in DOMAIN steps : longer[i] = steps[i]
      /\ longer[Len(steps) + 1] = s
  BY OneMore
<1>2. /\ Traces!PolicyPass(steps) = Strictest(old)
      /\ Traces!PolicyPass(longer) = Strictest(new)
  BY DEF Traces!PolicyPass
<1>3. old \subseteq {"pass", "fail"}
  OBVIOUS
<1> HIDE DEF longer
<1>4. new = old \cup ({s.policy} \ {"none"})
  BY <1>1
<1> HIDE DEF old, new
<1>5. Strictest(new) = IF s.policy = "none" \/ Strictest(old) = "fail"
                       THEN Strictest(old) ELSE s.policy
  <2>1. CASE s.policy = "none"
    BY <1>4, <2>1
  <2>2. CASE s.policy = "pass"
    <3>1. new = old \cup {"pass"}
      BY <1>4, <2>2
    <3>2. old = {} \/ old = {"pass"} \/ "fail" \in old
      BY <1>3
    <3> QED BY <2>2, <3>1, <3>2
  <2>3. CASE s.policy = "fail"
    BY <1>4, <2>3
  <2> QED BY <2>1, <2>2, <2>3
<1> QED BY <1>2, <1>5 DEF longer

Costs(steps) == [i \in DOMAIN steps |-> steps[i].cost]

LEMMA TotalCostIs ==
  ASSUME NEW steps, IsList(steps),
         \A i \in DOMAIN steps : steps[i].cost \in Nat \cup {Traces!NoCost}
  PROVE  /\ Traces!NoCost = -1
         /\ (\E i \in DOMAIN steps : steps[i].cost = Traces!NoCost) =>
              Traces!TotalCost(steps) = Traces!NoCost
         /\ (\A i \in DOMAIN steps : steps[i].cost # Traces!NoCost) =>
              /\ Traces!TotalCost(steps) = RunningSum(Costs(steps), Len(steps))
              /\ Traces!TotalCost(steps) \in Nat
<1>1. Traces!NoCost = -1
  BY DEF Traces!NoCost
<1>2. CASE \E i \in DOMAIN steps : steps[i].cost = Traces!NoCost
  BY <1>1, <1>2 DEF Traces!TotalCost
<1>3. CASE \A i \in DOMAIN steps : steps[i].cost # Traces!NoCost
  <2>1. Traces!TotalCost(steps) = RunningSum(Costs(steps), Len(steps))
    BY <1>3, SameOperators DEF Traces!TotalCost, Costs
  <2>2. DOMAIN steps = 1 .. Len(steps) /\ Len(steps) \in Nat
    BY Lists
  <2>3. \A i \in 1 .. Len(steps) : Costs(steps)[i] \in Nat
    BY <1>3, <2>2 DEF Costs
  <2>4. RunningSum(Costs(steps), Len(steps)) \in Nat
    BY <2>2, <2>3, SumNat
  <2> QED BY <1>1, <1>3, <2>1, <2>4
<1> QED BY <1>2, <1>3

LEMMA CostOneMore ==
  ASSUME NEW steps, IsList(steps), NEW s,
         \A i \in DOMAIN steps : steps[i].cost \in Nat \cup {Traces!NoCost},
         s.cost \in Nat \cup {Traces!NoCost}
  PROVE  Traces!TotalCost(Append(steps, s)) =
           IF Traces!TotalCost(steps) = Traces!NoCost \/ s.cost = Traces!NoCost
           THEN Traces!NoCost ELSE Traces!TotalCost(steps) + s.cost
<1> DEFINE longer == Append(steps, s)
           n == Len(steps)
<1>1. /\ n \in Nat /\ DOMAIN steps = 1 .. n
      /\ IsList(longer) /\ Len(longer) = n + 1 /\ DOMAIN longer = (1 .. n) \cup {n + 1}
      /\ \A i \in 1 .. n : longer[i] = steps[i]
      /\ longer[n + 1] = s
  BY OneMore, Lists
<1> HIDE DEF n, longer
<1>2. \A i \in DOMAIN longer : longer[i].cost \in Nat \cup {Traces!NoCost}
  BY <1>1
<1>3. CASE \E i \in DOMAIN steps : steps[i].cost = Traces!NoCost
  BY <1>1, <1>2, <1>3, TotalCostIs DEF longer
<1>4. CASE s.cost = Traces!NoCost
  BY <1>1, <1>2, <1>4, TotalCostIs DEF longer
<1>5. CASE /\ \A i \in DOMAIN steps : steps[i].cost # Traces!NoCost
           /\ s.cost # Traces!NoCost
  <2>1. \A i \in DOMAIN longer : longer[i].cost # Traces!NoCost
    BY <1>1, <1>5
  <2>2. /\ Traces!TotalCost(steps) = RunningSum(Costs(steps), n)
        /\ Traces!TotalCost(steps) \in Nat /\ Traces!NoCost = -1
    BY <1>5, TotalCostIs DEF n
  <2>3. Traces!TotalCost(longer) = RunningSum(Costs(longer), n + 1)
    BY <1>1, <1>2, <2>1, TotalCostIs
  <2>4. RunningSum(Costs(longer), n + 1)
          = RunningSum(Costs(longer), n) + Costs(longer)[n + 1]
    BY <1>1, SumOfMore
  <2>5. RunningSum(Costs(longer), n) = RunningSum(Costs(steps), n)
    <3>1. \A i \in 1 .. n : Costs(longer)[i] = Costs(steps)[i]
      BY <1>1 DEF Costs
    <3> QED BY <1>1, <3>1, SumOfSame
  <2>6. Costs(longer)[n + 1] = s.cost
    BY <1>1 DEF Costs
  <2> QED BY <1>5, <2>2, <2>3, <2>4, <2>5, <2>6 DEF longer
<1> QED BY <1>3, <1>4, <1>5

LEMMA StepsAre ==
  ASSUME NEW s \in Steps
  PROVE  /\ s.policy \in {"none", "pass", "fail"} /\ s.timeout \in BOOLEAN
         /\ s.cost \in Nat \cup {Traces!NoCost}
  BY StepsAssumption DEF Traces!WorkflowStep

(* A step that a workflow takes is one that the monitor observes. *)
LEMMA TakenIsObserved ==
  ASSUME TracesInv, NEW s \in Steps, recorded' = Append(recorded, s)
  PROVE  Traces!Monitor!Observe(s)
<1> DEFINE steps == recorded
           longer == recorded'
           n == Len(recorded)
<1>1. /\ IsList(steps) /\ longer = Append(steps, s) /\ n \in Nat
      /\ DOMAIN steps = 1 .. n
      /\ \A i \in DOMAIN steps : /\ steps[i].policy \in {"none", "pass", "fail"}
                                 /\ steps[i].cost \in Nat \cup {Traces!NoCost}
      /\ s.policy \in {"none", "pass", "fail"} /\ s.cost \in Nat \cup {Traces!NoCost}
  BY StepsAre, Lists DEF TracesInv
<1>2. /\ Traces!FailedIndexes(longer) =
           Traces!FailedIndexes(steps) \cup (IF FailsIn(s) THEN {n + 1} ELSE {})
      /\ Traces!TimeoutIndexes(longer) =
           Traces!TimeoutIndexes(steps) \cup (IF s.timeout THEN {n + 1} ELSE {})
      /\ Traces!RecoveredIndexes(longer) =
           IF AnswersIn(s) THEN Traces!FailedIndexes(steps)
           ELSE Traces!RecoveredIndexes(steps)
      /\ Traces!TimeoutRecovered(longer) <=>
           \/ Traces!TimeoutRecovered(steps)
           \/ /\ Traces!TimeoutIndexes(steps) # {}
              /\ AnswersIn(s) /\ s.kind = "final_answer"
  BY <1>1, OneStepMore
<1>3. /\ Traces!FailedIndexes(steps) \in SUBSET DOMAIN steps
      /\ Traces!TimeoutIndexes(steps) \in SUBSET DOMAIN steps
      /\ n + 1 \notin DOMAIN steps
  BY <1>1, PlacesAre
<1>4. Traces!PolicyPass(longer) =
        IF s.policy = "none" \/ Traces!PolicyPass(steps) = "fail"
        THEN Traces!PolicyPass(steps) ELSE s.policy
  BY <1>1, PolicyOneMore
<1>5. Traces!TotalCost(longer) =
        IF Traces!TotalCost(steps) = Traces!NoCost \/ s.cost = Traces!NoCost
        THEN Traces!NoCost ELSE Traces!TotalCost(steps) + s.cost
  BY <1>1, CostOneMore
<1> HIDE DEF steps, longer, n
<1>6. Cardinality(Traces!FailedIndexes(longer)) =
        IF FailsIn(s) THEN Cardinality(Traces!FailedIndexes(steps)) + 1
        ELSE Cardinality(Traces!FailedIndexes(steps))
  BY <1>1, <1>2, <1>3, PickedOneMore
<1>7. /\ Cardinality(Traces!TimeoutIndexes(longer)) =
           IF s.timeout THEN Cardinality(Traces!TimeoutIndexes(steps)) + 1
           ELSE Cardinality(Traces!TimeoutIndexes(steps))
      /\ (Traces!TimeoutIndexes(steps) # {}) <=>
           Cardinality(Traces!TimeoutIndexes(steps)) > 0
  <2>1. /\ IsFiniteSet(Traces!TimeoutIndexes(steps))
        /\ Cardinality(Traces!TimeoutIndexes(steps)) \in Nat
    BY <1>1, <1>3, PickedOneMore
  <2>2. (Traces!TimeoutIndexes(steps) # {}) <=>
           Cardinality(Traces!TimeoutIndexes(steps)) > 0
    BY <2>1, FS_EmptySet
  <2> QED BY <1>1, <1>2, <1>3, <2>2, PickedOneMore
<1>8. Cardinality(Traces!RecoveredIndexes(longer)) =
        IF AnswersIn(s) THEN Cardinality(Traces!FailedIndexes(steps))
        ELSE Cardinality(Traces!RecoveredIndexes(steps))
  BY <1>2
<1>9. /\ Traces!Monitor!Answers(s) <=> AnswersIn(s)
      /\ Traces!Monitor!Fails(s) <=> FailsIn(s)
      /\ Traces!Monitor!NoCost = Traces!NoCost
  BY DEF Traces!Monitor!Answers, AnswersIn, Traces!Monitor!Fails, FailsIn,
     Traces!Monitor!NoCost, Traces!NoCost
<1> USE DEF steps, longer
<1>10. (Cardinality(Traces!FailedIndexes(recorded)))' =
         IF Traces!Monitor!Fails(s) THEN Cardinality(Traces!FailedIndexes(recorded)) + 1
         ELSE Cardinality(Traces!FailedIndexes(recorded))
  BY <1>6, <1>9
<1>11. (Cardinality(Traces!RecoveredIndexes(recorded)))' =
         IF Traces!Monitor!Answers(s) THEN Cardinality(Traces!FailedIndexes(recorded))
         ELSE Cardinality(Traces!RecoveredIndexes(recorded))
  BY <1>8, <1>9
<1>12. (Cardinality(Traces!TimeoutIndexes(recorded)))' =
         IF s.timeout THEN Cardinality(Traces!TimeoutIndexes(recorded)) + 1
         ELSE Cardinality(Traces!TimeoutIndexes(recorded))
  BY <1>7
<1>13. Traces!TimeoutRecovered(recorded)' <=>
         \/ Traces!TimeoutRecovered(recorded)
         \/ /\ Cardinality(Traces!TimeoutIndexes(recorded)) > 0
            /\ Traces!Monitor!Answers(s) /\ s.kind = "final_answer"
  BY <1>2, <1>7, <1>9
<1>14. \A some : Traces!TimeoutRecovered(some) \in BOOLEAN
  BY DEF Traces!TimeoutRecovered
<1>15. Traces!TimeoutRecovered(recorded)' =
         (\/ Traces!TimeoutRecovered(recorded)
          \/ /\ Cardinality(Traces!TimeoutIndexes(recorded)) > 0
             /\ Traces!Monitor!Answers(s) /\ s.kind = "final_answer")
  BY <1>13, <1>14
<1> HIDE DEF steps, longer
<1> QED
  BY <1>4, <1>5, <1>9, <1>10, <1>11, <1>12, <1>15, SameOperators
  DEF Traces!Monitor!Observe, steps, longer

(* evaluate_workflow says of a workflow of any length, whatever its steps  *)
(* are, what a monitor that sees each of them once says.                   *)
THEOREM EvaluationIsTheMonitors == EvidenceSpec => ImplementsMonitor
<1>1. TracesStart => Traces!Monitor!Begin
  <2> SUFFICES ASSUME TracesStart PROVE Traces!Monitor!Begin
    OBVIOUS
  <2>1. recorded = << >> /\ DOMAIN recorded = {} /\ Len(recorded) = 0
    BY NoElements DEF TracesStart, Traces!Init, NoTraces
  <2>2. /\ Traces!FailedIndexes(recorded) = {} /\ Traces!RecoveredIndexes(recorded) = {}
        /\ Traces!TimeoutIndexes(recorded) = {} /\ Traces!TimeoutRecovered(recorded) = FALSE
    BY <2>1, PlacesAre
  <2>3. Traces!PolicyPass(recorded) = "none"
    BY <2>1 DEF Traces!PolicyPass
  <2>4. Traces!TotalCost(recorded) = 0
    BY <2>1, SumOfNone, SameOperators DEF Traces!TotalCost
  <2>5. Cardinality({}) = 0
    BY FS_EmptySet
  <2> QED BY <2>2, <2>3, <2>4, <2>5, SameOperators DEF Traces!Monitor!Begin
<1>2. TracesInv /\ [Traces!Next]_traceVars
        => [\E s \in Steps : Traces!Monitor!Observe(s)]_(Traces!Monitor!watched)
  <2> SUFFICES ASSUME TracesInv, [Traces!Next]_traceVars
               PROVE  \/ \E s \in Steps : Traces!Monitor!Observe(s)
                      \/ UNCHANGED Traces!Monitor!watched
    OBVIOUS
  <2>1. CASE UNCHANGED recorded
    BY <2>1 DEF Traces!Monitor!watched
  <2>2. ASSUME NEW s \in Steps, Traces!Take(s)
        PROVE  Traces!Monitor!Observe(s)
    BY <2>2, TakenIsObserved DEF Traces!Take
  <2>3. ASSUME NEW i \in DOMAIN recorded, Traces!Deliver(i)
        PROVE  UNCHANGED recorded
    BY <2>3 DEF Traces!Deliver
  <2> QED BY <2>1, <2>2, <2>3 DEF Traces!Next, traceVars
<1> QED BY <1>1, <1>2, TracesRun, TracesInvariant, PTL
  DEF ImplementsMonitor, Traces!ImplementsMonitor, Traces!Monitor!Watching

-----------------------------------------------------------------------------
(* A trace that is accepted. *)
CallsIn(steps) == {i \in DOMAIN steps : steps[i].kind = "tool_call"}

LEMMA ToolsAre ==
  ASSUME NEW steps, IsList(steps)
  PROVE  /\ Traces!ActualTools(steps) =
              Only([i \in DOMAIN steps |-> steps[i].tool], CallsIn(steps), Len(steps))
         /\ IsList(Traces!ActualTools(steps))
         /\ Len(Traces!ActualTools(steps)) = Cardinality(CallsIn(steps))
<1> DEFINE tools == [i \in DOMAIN steps |-> steps[i].tool]
           S == CallsIn(steps)
           n == Len(steps)
<1>1. Traces!ActualTools(steps) = Only(tools, S, n)
  BY SameOperators DEF Traces!ActualTools, Traces!Places, CallsIn
<1>2. n \in Nat /\ {i \in 1 .. n : i \in S} = S
  BY Lists DEF CallsIn
<1> HIDE DEF tools, n, S
<1>3. IsList(Only(tools, S, n)) /\ Len(Only(tools, S, n)) = Cardinality(S)
  BY <1>2, OnlyCounts
<1> QED BY <1>1, <1>3 DEF tools, n, S

(* Two lists of steps, one of which has some of the steps of the other.     *)
Within(trace, steps, place) ==
  /\ IsList(trace) /\ IsList(steps)
  /\ InOrder(place, Len(trace), Len(steps))
  /\ \A i \in DOMAIN trace : trace[i] = steps[place[i]]

LEMMA WithinFacts ==
  ASSUME NEW trace, NEW steps, NEW place, Within(trace, steps, place)
  PROVE  /\ Len(trace) \in Nat /\ DOMAIN trace = 1 .. Len(trace)
         /\ Len(steps) \in Nat /\ DOMAIN steps = 1 .. Len(steps)
         /\ \A i \in DOMAIN trace : place[i] \in DOMAIN steps
         /\ \A i, j \in DOMAIN trace : i < j => place[i] < place[j]
BY Lists DEF Within, InOrder

(* What is in a place of the trace is in that place of the workflow.        *)
LEMMA NoMoreThanThere ==
  ASSUME NEW trace, NEW steps, NEW place, Within(trace, steps, place),
         NEW A \in SUBSET DOMAIN trace, NEW B \in SUBSET DOMAIN steps,
         Into(place, A, B)
  PROVE  Cardinality(A) <= Cardinality(B)
BY WithinFacts, ChosenCount DEF Within

LEMMA LaterIsLater ==
  ASSUME NEW trace, NEW steps, NEW place, Within(trace, steps, place),
         NEW i \in DOMAIN trace, NEW j \in i + 1 .. Len(trace)
  PROVE  /\ j \in DOMAIN trace /\ trace[j] = steps[place[j]]
         /\ place[j] \in place[i] + 1 .. Len(steps)
<1>1. j \in DOMAIN trace /\ i < j
  BY WithinFacts
<1>2. place[i] < place[j] /\ place[i] \in 1 .. Len(steps) /\ place[j] \in 1 .. Len(steps)
  BY <1>1, WithinFacts
<1> QED BY <1>1, <1>2 DEF Within

LEMMA CountsAreApart ==
  ASSUME NEW trace, NEW steps, NEW place, Within(trace, steps, place)
  PROVE  /\ Cardinality(CallsIn(trace)) <= Cardinality(CallsIn(steps))
         /\ Cardinality(Traces!FailedIndexes(trace))
              <= Cardinality(Traces!FailedIndexes(steps))
         /\ Cardinality(Traces!RecoveredIndexes(trace))
              <= Cardinality(Traces!RecoveredIndexes(steps))
         /\ Cardinality(Traces!TimeoutIndexes(trace))
              <= Cardinality(Traces!TimeoutIndexes(steps))
<1>1. \A i \in DOMAIN trace : place[i] \in DOMAIN steps /\ trace[i] = steps[place[i]]
  BY WithinFacts DEF Within
<1>2. Cardinality(CallsIn(trace)) <= Cardinality(CallsIn(steps))
  <2>1. /\ CallsIn(trace) \in SUBSET DOMAIN trace
        /\ CallsIn(steps) \in SUBSET DOMAIN steps
        /\ Into(place, CallsIn(trace), CallsIn(steps))
    BY <1>1 DEF CallsIn, Into
  <2> QED BY <2>1, NoMoreThanThere
<1>3. Cardinality(Traces!FailedIndexes(trace)) <= Cardinality(Traces!FailedIndexes(steps))
  <2>1. /\ Traces!FailedIndexes(trace) \in SUBSET DOMAIN trace
        /\ Traces!FailedIndexes(steps) \in SUBSET DOMAIN steps
        /\ Into(place, Traces!FailedIndexes(trace), Traces!FailedIndexes(steps))
    BY <1>1, PlacesAre DEF Into
  <2> QED BY <2>1, NoMoreThanThere
<1>4. Cardinality(Traces!TimeoutIndexes(trace)) <= Cardinality(Traces!TimeoutIndexes(steps))
  <2>1. /\ Traces!TimeoutIndexes(trace) \in SUBSET DOMAIN trace
        /\ Traces!TimeoutIndexes(steps) \in SUBSET DOMAIN steps
        /\ Into(place, Traces!TimeoutIndexes(trace), Traces!TimeoutIndexes(steps))
    BY <1>1, PlacesAre DEF Into
  <2> QED BY <2>1, NoMoreThanThere
<1>5. Cardinality(Traces!RecoveredIndexes(trace))
        <= Cardinality(Traces!RecoveredIndexes(steps))
  <2>1. ASSUME NEW i \in Traces!RecoveredIndexes(trace)
        PROVE  place[i] \in Traces!RecoveredIndexes(steps)
    <3>1. i \in DOMAIN trace /\ FailsIn(trace[i])
      BY PlacesAre
    <3>2. PICK j \in i + 1 .. Len(trace) : AnswersIn(trace[j])
      BY PlacesAre
    <3>3. place[j] \in place[i] + 1 .. Len(steps) /\ AnswersIn(steps[place[j]])
      BY <3>1, <3>2, LaterIsLater
    <3>4. place[i] \in DOMAIN steps /\ FailsIn(steps[place[i]])
      BY <1>1, <3>1
    <3> QED BY <3>3, <3>4, PlacesAre
  <2>2. /\ Traces!RecoveredIndexes(trace) \in SUBSET DOMAIN trace
        /\ Traces!RecoveredIndexes(steps) \in SUBSET DOMAIN steps
    BY PlacesAre
  <2>3. Into(place, Traces!RecoveredIndexes(trace), Traces!RecoveredIndexes(steps))
    BY <2>1 DEF Into
  <2> QED BY <2>2, <2>3, NoMoreThanThere
<1> QED BY <1>2, <1>3, <1>4, <1>5

LEMMA InTimeThere ==
  ASSUME NEW trace, NEW steps, NEW place, Within(trace, steps, place),
         Traces!TimeoutRecovered(trace)
  PROVE  Traces!TimeoutRecovered(steps)
<1>1. PICK i \in DOMAIN trace :
             /\ trace[i].timeout
             /\ \E j \in i + 1 .. Len(trace) :
                  AnswersIn(trace[j]) /\ trace[j].kind = "final_answer"
  BY PlacesAre
<1>2. PICK j \in i + 1 .. Len(trace) : AnswersIn(trace[j]) /\ trace[j].kind = "final_answer"
  BY <1>1
<1>3. /\ place[j] \in place[i] + 1 .. Len(steps)
      /\ AnswersIn(steps[place[j]]) /\ steps[place[j]].kind = "final_answer"
  BY <1>2, LaterIsLater
<1>4. place[i] \in DOMAIN steps /\ steps[place[i]].timeout
  BY <1>1, WithinFacts DEF Within
<1> QED BY <1>3, <1>4, PlacesAre

AlikeIn(steps, i) ==
  {j \in DOMAIN steps : Traces!Signature(steps[j]) = Traces!Signature(steps[i])}

LEMMA LoopsAre ==
  ASSUME NEW steps
  PROVE  Traces!LoopDetected(steps) <=>
           \E i \in DOMAIN steps : Cardinality(AlikeIn(steps, i)) >= 3
BY SameOperators DEF Traces!LoopDetected, AlikeIn

LEMMA AlikeCount ==
  ASSUME NEW steps, IsList(steps), NEW i
  PROVE  Cardinality(AlikeIn(steps, i)) \in Nat
<1>1. AlikeIn(steps, i) \in SUBSET (1 .. Len(steps)) /\ Len(steps) \in Nat
  BY Lists DEF AlikeIn
<1> QED BY <1>1, PickedOneMore

LEMMA LoopThere ==
  ASSUME NEW trace, NEW steps, NEW place, Within(trace, steps, place),
         Traces!LoopDetected(trace)
  PROVE  Traces!LoopDetected(steps)
<1>1. PICK i \in DOMAIN trace : Cardinality(AlikeIn(trace, i)) >= 3
  BY LoopsAre
<1>2. \A j \in DOMAIN trace : place[j] \in DOMAIN steps /\ trace[j] = steps[place[j]]
  BY WithinFacts DEF Within
<1>3. /\ AlikeIn(trace, i) \in SUBSET DOMAIN trace
      /\ AlikeIn(steps, place[i]) \in SUBSET DOMAIN steps
      /\ Into(place, AlikeIn(trace, i), AlikeIn(steps, place[i]))
  BY <1>2 DEF AlikeIn, Into
<1>4. Cardinality(AlikeIn(trace, i)) <= Cardinality(AlikeIn(steps, place[i]))
  BY <1>3, NoMoreThanThere
<1>5. Cardinality(AlikeIn(steps, place[i])) >= 3
  BY <1>1, <1>4, AlikeCount DEF Within
<1> QED BY <1>2, <1>5, LoopsAre

LEMMA CostThere ==
  ASSUME NEW trace, NEW steps, NEW place, Within(trace, steps, place),
         \A i \in DOMAIN steps : steps[i].cost \in Nat \cup {Traces!NoCost},
         Traces!TotalCost(steps) # Traces!NoCost
  PROVE  Traces!TotalCost(trace) <= Traces!TotalCost(steps)
<1> DEFINE n == Len(trace)
           m == Len(steps)
<1>1. /\ n \in Nat /\ DOMAIN trace = 1 .. n /\ m \in Nat /\ DOMAIN steps = 1 .. m
      /\ InOrder(place, n, m) /\ IsList(trace) /\ IsList(steps)
      /\ \A i \in 1 .. n : place[i] \in 1 .. m /\ trace[i] = steps[place[i]]
  BY WithinFacts DEF Within
<1>2. \A i \in 1 .. m : steps[i].cost \in Nat
  BY <1>1, TotalCostIs
<1>3. \A i \in DOMAIN trace : trace[i].cost \in Nat
  BY <1>1, <1>2
<1>4. -1 \notin Nat /\ Traces!NoCost = -1
  BY <1>1, TotalCostIs
<1>5. /\ Traces!TotalCost(trace) = RunningSum(Costs(trace), n)
      /\ Traces!TotalCost(steps) = RunningSum(Costs(steps), m)
  <2>1. /\ \A i \in DOMAIN trace : trace[i].cost \in Nat \cup {Traces!NoCost}
        /\ \A i \in DOMAIN trace : trace[i].cost # Traces!NoCost
    BY <1>3, <1>4
  <2>2. \A i \in DOMAIN steps : steps[i].cost # Traces!NoCost
    BY <1>1, <1>2, <1>4
  <2>3. IsList(trace) /\ IsList(steps)
    BY <1>1
  <2> HIDE DEF n, m
  <2>4. Traces!TotalCost(trace) = RunningSum(Costs(trace), Len(trace))
    BY <2>1, <2>3, TotalCostIs
  <2>5. Traces!TotalCost(steps) = RunningSum(Costs(steps), Len(steps))
    BY <2>2, <2>3, TotalCostIs
  <2> QED BY <2>4, <2>5 DEF n, m
<1> HIDE DEF n, m
<1>6. /\ \A i \in 1 .. m : Costs(steps)[i] \in Nat
      /\ \A i \in 1 .. n : Costs(trace)[i] = Costs(steps)[place[i]]
  BY <1>1, <1>2 DEF Costs
<1>7. RunningSum(Costs(trace), n) <= RunningSum(Costs(steps), m)
  BY <1>1, <1>6, SumOfChosen
<1> QED BY <1>5, <1>7

(* A trace that is accepted shows nothing that the workflow did not do, and *)
(* it is the workflow when it has all its steps: for workflows and traces   *)
(* of any length.                                                           *)
THEOREM TracesAreParts == EvidenceSpec => []AcceptedIsAPart
<1>1. TracesInv => AcceptedIsAPart
  <2> SUFFICES ASSUME TracesInv, Traces!Accepted PROVE Traces!AcceptedIsAPart
    BY DEF AcceptedIsAPart, Traces!AcceptedIsAPart
  <2> DEFINE trace == Traces!Trace
             steps == recorded
  <2>1. /\ Len(delivered) \in Nat /\ DOMAIN delivered = 1 .. Len(delivered)
        /\ Len(steps) \in Nat /\ DOMAIN steps = 1 .. Len(steps)
        /\ IsList(steps) /\ \A i \in DOMAIN delivered : delivered[i] \in DOMAIN steps
    BY Lists DEF TracesInv
  <2>2. trace = [i \in 1 .. Len(delivered) |-> recorded[delivered[i]]]
    BY <2>1 DEF Traces!Trace
  <2> HIDE DEF trace
  <2>3. IsList(trace) /\ Len(trace) = Len(delivered) /\ DOMAIN trace = 1 .. Len(trace)
    <3>1. trace = [i \in 1 .. Len(delivered) |-> trace[i]]
      BY <2>2
    <3> QED BY <2>1, <3>1, FunctionList
  <2>4. Within(trace, steps, delivered)
    BY <2>1, <2>2, <2>3 DEF Within, InOrder, Traces!Accepted, Traces!OrderedSteps
  <2>5. \A i \in DOMAIN steps : steps[i].cost \in Nat \cup {Traces!NoCost}
    BY StepsAre DEF TracesInv
  <2>6. /\ Traces!ActualTools(trace) = Traces!ActualTools(trace)
        /\ Len(Traces!ActualTools(trace)) = Cardinality(CallsIn(trace))
        /\ Len(Traces!ActualTools(steps)) = Cardinality(CallsIn(steps))
    BY <2>1, <2>3, ToolsAre
  <2>7. Len(delivered) = Len(recorded) => trace = recorded
    <3> SUFFICES ASSUME Len(delivered) = Len(recorded) PROVE trace = recorded
      OBVIOUS
    <3> DEFINE n == Len(recorded)
    <3>1. InOrder(delivered, n, n) /\ n \in Nat
      BY <2>1, <2>3, <2>4 DEF Within
    <3> HIDE DEF n
    <3>2. \A i \in 1 .. n : delivered[i] = i
      BY <3>1, AllChosen
    <3>3. \A i \in DOMAIN trace : trace[i] = recorded[i]
      BY <2>2, <2>3, <3>2 DEF n
    <3> QED BY <2>1, <2>3, <3>3, SameList
  <2>8. /\ Cardinality(CallsIn(trace)) <= Cardinality(CallsIn(steps))
        /\ Cardinality(Traces!FailedIndexes(trace))
             <= Cardinality(Traces!FailedIndexes(steps))
        /\ Cardinality(Traces!RecoveredIndexes(trace))
             <= Cardinality(Traces!RecoveredIndexes(steps))
        /\ Cardinality(Traces!TimeoutIndexes(trace))
             <= Cardinality(Traces!TimeoutIndexes(steps))
    BY <2>4, CountsAreApart
  <2>9. /\ Traces!TimeoutRecovered(trace) => Traces!TimeoutRecovered(steps)
        /\ Traces!LoopDetected(trace) => Traces!LoopDetected(steps)
    BY <2>4, InTimeThere, LoopThere
  <2>10. Traces!TotalCost(steps) # Traces!NoCost =>
           Traces!TotalCost(trace) <= Traces!TotalCost(steps)
    BY <2>4, <2>5, CostThere
  <2> HIDE DEF steps
  <2>11. \A some : LET told == Traces!WorkflowEvaluation(some, expected)
                   IN  /\ told.calls = Len(Traces!ActualTools(some))
                       /\ told.failures = Cardinality(Traces!FailedIndexes(some))
                       /\ told.recovered = Cardinality(Traces!RecoveredIndexes(some))
                       /\ told.timeouts = Cardinality(Traces!TimeoutIndexes(some))
                       /\ told.inTime = Traces!TimeoutRecovered(some)
                       /\ told.loop = Traces!LoopDetected(some)
                       /\ told.cost = Traces!TotalCost(some)
    BY SameOperators DEF Traces!WorkflowEvaluation
  <2> QED BY <2>6, <2>7, <2>8, <2>9, <2>10, <2>11
    DEF Traces!AcceptedIsAPart, trace, steps
<1> QED BY <1>1, TracesInvariant, PTL

(* A workflow is a part of the workflow with one step more.                 *)
LEMMA GrowsByOne ==
  ASSUME NEW steps, IsList(steps), NEW s
  PROVE  Within(steps, Append(steps, s), [i \in Nat |-> i])
<1> DEFINE place == [i \in Nat |-> i]
           longer == Append(steps, s)
           n == Len(steps)
<1>1. /\ n \in Nat /\ DOMAIN steps = 1 .. n
      /\ IsList(longer) /\ Len(longer) = n + 1
      /\ \A i \in DOMAIN steps : longer[i] = steps[i]
  BY OneMore, Lists
<1> HIDE DEF longer, n
<1>2. \A i \in 1 .. n : place[i] = i /\ i \in 1 .. n + 1
  BY <1>1
<1> HIDE DEF place
<1>3. InOrder(place, n, n + 1)
  BY <1>2 DEF InOrder
<1>4. \A i \in DOMAIN steps : steps[i] = longer[place[i]]
  BY <1>1, <1>2
<1>5. Within(steps, longer, place)
  BY <1>1, <1>3, <1>4 DEF Within, n
<1> QED BY <1>5 DEF place, longer

LEMMA UnnecessaryGrows ==
  ASSUME NEW few, IsList(few), NEW many, IsList(many), Len(few) <= Len(many),
         NEW wanted, IsList(wanted)
  PROVE  Traces!Unnecessary(few, wanted) <= Traces!Unnecessary(many, wanted)
<1> DEFINE f == Len(few)
           m == Len(many)
           w == Len(wanted)
<1>1. f \in Nat /\ m \in Nat /\ w \in Nat /\ f <= m
  BY Lists
<1>2. /\ Traces!Unnecessary(few, wanted) = IF f > w THEN f - w ELSE 0
      /\ Traces!Unnecessary(many, wanted) = IF m > w THEN m - w ELSE 0
  BY DEF Traces!Unnecessary
<1> HIDE DEF f, m, w
<1> QED BY <1>1, <1>2

(* What an evaluation holds against a workflow, it holds against it with    *)
(* one step more.                                                           *)
LEMMA NoStepForgives ==
  ASSUME TracesInv, NEW s \in Steps, recorded' = Append(recorded, s)
  PROVE  Traces!NothingIsForgiven
<1> DEFINE n == Len(recorded)
           place == [i \in Nat |-> i]
<1>1. IsList(recorded) /\ IsList(expected)
  BY ListOf DEF TracesInv
<1>2. /\ IsList(recorded') /\ Len(recorded') = n + 1 /\ n \in Nat
      /\ DOMAIN recorded \subseteq DOMAIN recorded'
      /\ \A i \in DOMAIN recorded : recorded'[i] = recorded[i]
  BY <1>1, OneMore, Lists
<1>3. Within(recorded, recorded', place)
  BY <1>1, GrowsByOne
<1> HIDE DEF place, n
<1>4. Traces!LoopDetected(recorded) => Traces!LoopDetected(recorded')
  BY <1>3, LoopThere
<1>5. Traces!StepLimitExceeded(recorded) => Traces!StepLimitExceeded(recorded')
  BY <1>2, StepsAssumption DEF Traces!StepLimitExceeded, n
<1>6. Traces!HumanReviewed(recorded) => Traces!HumanReviewed(recorded')
  BY <1>2 DEF Traces!HumanReviewed
<1>7. Traces!PolicyPass(recorded) = "fail" => Traces!PolicyPass(recorded') = "fail"
  <2>1. /\ \A i \in DOMAIN recorded : recorded[i].policy \in {"none", "pass", "fail"}
        /\ s.policy \in {"none", "pass", "fail"}
    BY StepsAre DEF TracesInv
  <2> QED BY <1>1, <2>1, PolicyOneMore
<1>8. Traces!Unnecessary(Traces!ActualTools(recorded), expected)
        <= Traces!Unnecessary(Traces!ActualTools(recorded'), expected)
  <2> DEFINE few == Traces!ActualTools(recorded)
             many == Traces!ActualTools(recorded')
  <2>1. /\ IsList(few) /\ Len(few) = Cardinality(CallsIn(recorded))
        /\ IsList(many) /\ Len(many) = Cardinality(CallsIn(recorded'))
    BY <1>1, <1>2, ToolsAre
  <2>2. Cardinality(CallsIn(recorded)) <= Cardinality(CallsIn(recorded'))
    BY <1>3, CountsAreApart
  <2> HIDE DEF few, many
  <2>3. Traces!Unnecessary(few, expected) <= Traces!Unnecessary(many, expected)
    BY <1>1, <2>1, <2>2, UnnecessaryGrows
  <2> QED BY <2>3 DEF few, many
<1> QED BY <1>4, <1>5, <1>6, <1>7, <1>8 DEF Traces!NothingIsForgiven

(* As many places agree as there are in both lists, or fewer.               *)
LEMMA AgreeingPlaces ==
  ASSUME NEW s, IsList(s), NEW t, IsList(t), Len(s) <= Len(t)
  PROVE  LET same == Cardinality({i \in DOMAIN s : s[i] = t[i]})
         IN  /\ same \in Nat /\ same <= Len(s)
             /\ same = Len(t) <=> s = t
<1> DEFINE n == Len(s)
           S == {i \in DOMAIN s : s[i] = t[i]}
<1>1. n \in Nat /\ DOMAIN s = 1 .. n /\ Len(t) \in Nat /\ n <= Len(t)
  BY Lists
<1>2. S \in SUBSET (1 .. n)
  BY <1>1
<1>3. IsFiniteSet(1 .. n) /\ Cardinality(1 .. n) = n
  <2> HIDE DEF n
  <2>1. IsFiniteSet(1 .. n) /\ Cardinality(1 .. n) = IF 1 > n THEN 0 ELSE n - 1 + 1
    BY <1>1, FS_Interval
  <2> QED BY <1>1, <2>1
<1>4. s = t => S = 1 .. n
  BY <1>1
<1>5. n = Len(t) /\ S = 1 .. n => s = t
  <2> SUFFICES ASSUME n = Len(t), S = 1 .. n PROVE s = t
    OBVIOUS
  <2>1. \A i \in DOMAIN s : s[i] = t[i]
    BY <1>1
  <2> QED BY <2>1, SameList
<1>6. s = t => n = Len(t)
  OBVIOUS
<1> HIDE DEF S, n
<1>7. /\ IsFiniteSet(S) /\ Cardinality(S) <= n
      /\ Cardinality(S) = n => S = 1 .. n
  BY <1>2, <1>3, FS_Subset
<1>8. Cardinality(S) \in Nat
  BY <1>7, FS_CardinalityType
<1>9. Cardinality(S) = Len(t) <=> s = t
  BY <1>1, <1>3, <1>4, <1>5, <1>6, <1>7, <1>8
<1> QED BY <1>7, <1>8, <1>9 DEF S, n

LEMMA ScoresAgree ==
  ASSUME NEW actual, IsList(actual), NEW wanted, IsList(wanted)
  PROVE  LET accuracy == Traces!Accuracy(actual, wanted)
         IN  /\ accuracy.num <= accuracy.den
             /\ accuracy.num = accuracy.den <=> Traces!OrderCorrect(actual, wanted)
             /\ Traces!OrderCorrect(actual, wanted) =>
                  Traces!Unnecessary(actual, wanted) = 0
<1> DEFINE a == Len(actual)
           w == Len(wanted)
           accuracy == Traces!Accuracy(actual, wanted)
<1>1. /\ a \in Nat /\ DOMAIN actual = 1 .. a
      /\ w \in Nat /\ DOMAIN wanted = 1 .. w
  BY Lists
<1>2. /\ accuracy.num = Cardinality({i \in DOMAIN actual \cap DOMAIN wanted :
                                       actual[i] = wanted[i]})
      /\ accuracy.den = IF w >= a THEN w ELSE a
  BY SameOperators DEF Traces!Accuracy
<1>3. Traces!OrderCorrect(actual, wanted) => Traces!Unnecessary(actual, wanted) = 0
  BY <1>1 DEF Traces!OrderCorrect, Traces!Unnecessary
<1> HIDE DEF accuracy
<1>4. CASE a <= w
  <2>1. {i \in DOMAIN actual \cap DOMAIN wanted : actual[i] = wanted[i]}
          = {i \in DOMAIN actual : actual[i] = wanted[i]}
    BY <1>1, <1>4
  <2>2. /\ accuracy.num = Cardinality({i \in DOMAIN actual : actual[i] = wanted[i]})
        /\ accuracy.den = w
    BY <1>1, <1>2, <1>4, <2>1
  <2>3. /\ accuracy.num \in Nat /\ accuracy.num <= a
        /\ accuracy.num = w <=> actual = wanted
    BY <1>4, <2>2, AgreeingPlaces
  <2>4. accuracy.num <= w
    BY <1>1, <1>4, <2>3
  <2> QED BY <1>3, <2>2, <2>3, <2>4 DEF Traces!OrderCorrect, accuracy
<1>5. CASE w <= a
  <2>1. {i \in DOMAIN actual \cap DOMAIN wanted : actual[i] = wanted[i]}
          = {i \in DOMAIN wanted : wanted[i] = actual[i]}
    BY <1>1, <1>5
  <2>2. /\ accuracy.num = Cardinality({i \in DOMAIN wanted : wanted[i] = actual[i]})
        /\ accuracy.den = a
    <3>1. accuracy.den = a
      <4> HIDE DEF a, w
      <4> QED BY <1>1, <1>2, <1>5
    <3> QED BY <1>2, <2>1, <3>1
  <2>3. /\ accuracy.num \in Nat /\ accuracy.num <= w
        /\ accuracy.num = a <=> wanted = actual
    BY <1>5, <2>2, AgreeingPlaces
  <2>4. accuracy.num <= a
    BY <1>1, <1>5, <2>3
  <2> QED BY <1>3, <2>2, <2>3, <2>4 DEF Traces!OrderCorrect, accuracy
<1> QED BY <1>1, <1>4, <1>5

(* Whatever steps a workflow takes, and however many: no step takes back a  *)
(* loop, a denial, a review or an excess, and the two scores of the tools   *)
(* agree after each.                                                        *)
THEOREM WorkflowsAreFair == EvidenceSpec => WorkflowsAreJudgedFairly
<1>1. TracesInv /\ TracesInv' /\ [Traces!Next]_traceVars
        => [Traces!Taken => Traces!NothingIsForgiven /\ Traces!ToolScoresAgree']_recorded
  <2> SUFFICES ASSUME TracesInv, TracesInv', [Traces!Next]_traceVars, Traces!Taken
               PROVE  Traces!NothingIsForgiven /\ Traces!ToolScoresAgree'
    OBVIOUS
  <2>1. PICK s \in Steps : Traces!Take(s)
    <3>1. recorded' # recorded
      BY Lists DEF Traces!Taken, TracesInv
    <3> QED BY <3>1 DEF Traces!Next, traceVars, Traces!Deliver
  <2>2. Traces!NothingIsForgiven
    BY <2>1, NoStepForgives DEF Traces!Take
  <2>3. Traces!ToolScoresAgree'
    <3> DEFINE actual == Traces!ActualTools(recorded')
    <3>1. IsList(actual) /\ IsList(expected')
      BY ToolsAre, ListOf DEF TracesInv
    <3> HIDE DEF actual
    <3>2. LET accuracy == Traces!Accuracy(actual, expected')
          IN  /\ accuracy.num <= accuracy.den
              /\ accuracy.num = accuracy.den <=> Traces!OrderCorrect(actual, expected')
              /\ Traces!OrderCorrect(actual, expected') =>
                   Traces!Unnecessary(actual, expected') = 0
      BY <3>1, ScoresAgree
    <3> QED BY <3>2 DEF Traces!ToolScoresAgree, actual
  <2> QED BY <2>2, <2>3
<1> QED BY <1>1, TracesRun, TracesInvariant, PTL
  DEF WorkflowsAreJudgedFairly, Traces!WorkflowsAreJudgedFairly

-----------------------------------------------------------------------------
(* The rows of a result file. *)
RowsStart == Selection!Init \/ NoRows

LEMMA RowsRun == EvidenceSpec => RowsStart /\ [][Selection!Next]_rowVars
<1>1. EvidenceInit => RowsStart
  BY DEF EvidenceInit, RowsStart
<1>2. [EvidenceNext]_<<subject, vars, rowVars, files, traceVars>>
        => [Selection!Next]_rowVars
  BY DEF EvidenceNext, NoMoreEvidence
<1> QED BY <1>1, <1>2, PTL DEF EvidenceSpec

LEMMA SelectionOperators ==
  /\ \A S : Selection!Cardinality(S) = Cardinality(S)
  /\ \A numbers, n : Selection!RunningSum(numbers, n) = RunningSum(numbers, n)
<1>1. ASSUME NEW S PROVE Selection!Cardinality(S) = Cardinality(S)
  BY DEF Selection!Cardinality, Cardinality
<1>2. ASSUME NEW numbers, NEW n
      PROVE  Selection!RunningSum(numbers, n) = RunningSum(numbers, n)
  BY DEF Selection!RunningSum, RunningSum
<1> QED BY <1>1, <1>2

(* A bucket, the rows of it in A, and whether row i is its first.           *)
KeyOf(rows, i) == Selection!Key(rows[i])
InBucket(rows, A, i) == {j \in A : KeyOf(rows, j) = KeyOf(rows, i)}
Leads(rows, i) == \A j \in 1 .. i - 1 : KeyOf(rows, j) # KeyOf(rows, i)

(* The rows of A whose bucket starts in the first k rows.                   *)
SeenBy(rows, A, k) == {j \in A : \E i \in 1 .. k : KeyOf(rows, i) = KeyOf(rows, j)}

(* At the first row of each bucket, how many rows of A the bucket has.      *)
Sized(sizes, rows, A, n) ==
  \A i \in 1 .. n :
    sizes[i] = IF Leads(rows, i) THEN Cardinality(InBucket(rows, A, i)) ELSE 0

(* With each bucket counted at its first row, every row of A counts once.   *)
LEMMA BucketsCountOnce ==
  ASSUME NEW rows, NEW n \in Nat, NEW A \in SUBSET (1 .. n), NEW sizes,
         Sized(sizes, rows, A, n)
  PROVE  RunningSum(sizes, n) = Cardinality(A)
<1> DEFINE Right(k) == RunningSum(sizes, k) = Cardinality(SeenBy(rows, A, k))
           Bad == {k \in 0 .. n : ~Right(k)}
<1>1. Bad = {}
  <2> SUFFICES ASSUME Bad # {} PROVE FALSE
    OBVIOUS
  <2>1. Bad \subseteq Nat
    OBVIOUS
  <2>2. PICK k \in Bad : \A i \in Bad : k <= i
    BY <2>1, LeastNatural
  <2>3. k # 0
    <3>1. SeenBy(rows, A, 0) = {}
      BY DEF SeenBy
    <3> QED BY <2>2, <3>1, SumOfNone, FS_EmptySet
  <2>4. k \in 1 .. n /\ k - 1 \in 0 .. n /\ k - 1 \in Nat /\ (k - 1) + 1 = k
        /\ k - 1 \notin Bad
    BY <2>2, <2>3
  <2>5. RunningSum(sizes, k - 1) = Cardinality(SeenBy(rows, A, k - 1))
    BY <2>4
  <2>6. RunningSum(sizes, k) = RunningSum(sizes, k - 1) + sizes[k]
    BY <2>4, SumOfMore
  <2> DEFINE old == SeenBy(rows, A, k - 1)
             new == SeenBy(rows, A, k)
             added == InBucket(rows, A, k)
  <2>7. 1 .. k = (1 .. k - 1) \cup {k}
    BY <2>4
  <2>8. new = old \cup added
    BY <2>7 DEF SeenBy, InBucket
  <2>9. /\ IsFiniteSet(old) /\ IsFiniteSet(added)
        /\ Cardinality(old) \in Nat /\ Cardinality(added) \in Nat
    <3>1. old \in SUBSET (1 .. n) /\ added \in SUBSET (1 .. n)
      BY DEF SeenBy, InBucket
    <3>2. IsFiniteSet(1 .. n)
      BY FS_Interval
    <3>3. IsFiniteSet(old) /\ IsFiniteSet(added)
      <4> HIDE DEF old, added
      <4> QED BY <3>1, <3>2, FS_Subset
    <3> QED BY <3>3, FS_CardinalityType
  <2>10. CASE Leads(rows, k)
    <3>1. old \cap added = {}
      BY <2>10 DEF Leads, SeenBy, InBucket
    <3>2. sizes[k] = Cardinality(added)
      BY <2>4, <2>10 DEF Sized
    <3> HIDE DEF old, new, added, Bad
    <3>3. Cardinality(new) = Cardinality(old) + Cardinality(added)
      <4>1. Cardinality(old \cap added) = 0
        BY <3>1, FS_EmptySet
      <4>2. Cardinality(old \cup added)
              = Cardinality(old) + Cardinality(added) - Cardinality(old \cap added)
        BY <2>9, FS_Union
      <4> QED BY <2>8, <2>9, <4>1, <4>2
    <3>4. Right(k)
      BY <2>5, <2>6, <3>2, <3>3 DEF old, new
    <3> QED BY <2>2, <3>4 DEF Bad
  <2>11. CASE ~Leads(rows, k)
    <3>1. added \subseteq old
      BY <2>11 DEF Leads, SeenBy, InBucket
    <3>2. sizes[k] = 0
      BY <2>4, <2>11 DEF Sized
    <3>3. new = old
      BY <2>8, <3>1
    <3>4. Right(k)
      <4> HIDE DEF old, new, added, Bad
      <4> QED BY <2>5, <2>6, <2>9, <3>2, <3>3 DEF old, new
    <3> QED BY <2>2, <3>4
  <2> QED BY <2>10, <2>11
<1>2. Right(n)
  BY <1>1
<1>3. SeenBy(rows, A, n) = A
  BY DEF SeenBy
<1> QED BY <1>2, <1>3

LEMMA SummariesAre ==
  ASSUME NEW rows, IsList(rows), NEW i \in DOMAIN rows
  PROVE  /\ i \in Selection!Buckets(rows) <=> Leads(rows, i)
         /\ Selection!Summary(rows, i).samples
              = Cardinality(InBucket(rows, DOMAIN rows, i))
         /\ Selection!Summary(rows, i).failures
              = Cardinality(InBucket(rows, {j \in DOMAIN rows : rows[j].failed}, i))
         /\ Selection!Summary(rows, i).model = Selection!Identity(rows[i])
<1>1. i \in Selection!Buckets(rows) <=> Leads(rows, i)
  BY Zenon DEF Selection!Buckets, Leads, KeyOf
<1>2. Selection!Bucket(rows, i) = InBucket(rows, DOMAIN rows, i)
  BY Zenon DEF Selection!Bucket, InBucket, KeyOf
<1>3. {j \in Selection!Bucket(rows, i) : rows[j].failed}
        = InBucket(rows, {j \in DOMAIN rows : rows[j].failed}, i)
  BY DEF Selection!Bucket, InBucket, KeyOf
<1>4. LET summary == Selection!Summary(rows, i)
      IN  /\ summary.samples = Selection!Cardinality(Selection!Bucket(rows, i))
          /\ summary.failures = Selection!Cardinality(
                                  {j \in Selection!Bucket(rows, i) : rows[j].failed})
          /\ summary.model = Selection!Identity(rows[i])
  BY DEF Selection!Summary
<1> QED BY <1>1, <1>2, <1>3, <1>4, SelectionOperators

FileInv == IsList(file)

LEMMA FileInvariant == EvidenceSpec => []FileInv
<1>1. RowsStart => FileInv
  BY NoElements DEF RowsStart, Selection!Init, NoRows, FileInv
<1>2. FileInv /\ [Selection!Next]_rowVars => FileInv'
  <2> SUFFICES ASSUME FileInv, [Selection!Next]_rowVars PROVE FileInv'
    OBVIOUS
  <2>1. CASE Selection!AppendRow
    <3>1. PICK row \in Rows : file' = Append(file, row)
      BY <2>1 DEF Selection!AppendRow
    <3> QED BY <3>1, OneMore DEF FileInv
  <2>2. CASE UNCHANGED file
    BY <2>2 DEF FileInv
  <2> QED BY <2>1, <2>2 DEF Selection!Next, Selection!BuildReport,
                            Selection!RefuseReport, rowVars
<1> QED BY <1>1, <1>2, RowsRun, PTL

(* Result files of any length, whatever their rows say and how they name    *)
(* their models: no row is lost and none counts twice.                      *)
THEOREM RowsCountOnce == EvidenceSpec => []EveryRowCountsOnce
<1>1. FileInv => EveryRowCountsOnce
  <2> SUFFICES ASSUME IsList(file) PROVE Selection!EveryRowCountsOnce
    BY DEF EveryRowCountsOnce, FileInv
  <2> DEFINE n == Len(file)
             samples == [i \in DOMAIN file |->
                           IF i \in Selection!Buckets(file)
                           THEN Selection!Summary(file, i).samples ELSE 0]
             failures == [i \in DOMAIN file |->
                            IF i \in Selection!Buckets(file)
                            THEN Selection!Summary(file, i).failures ELSE 0]
             failed == {i \in DOMAIN file : file[i].failed}
  <2>1. n \in Nat /\ DOMAIN file = 1 .. n
    BY Lists
  <2>2. Sized(samples, file, 1 .. n, n)
    BY <2>1, SummariesAre DEF Sized
  <2>3. Sized(failures, file, failed, n)
    BY <2>1, SummariesAre DEF Sized
  <2>4. failed \in SUBSET (1 .. n) /\ 1 .. n \in SUBSET (1 .. n)
    BY <2>1
  <2>5. Cardinality(1 .. n) = n
    <3> HIDE DEF n
    <3>1. Cardinality(1 .. n) = IF 1 > n THEN 0 ELSE n - 1 + 1
      BY <2>1, FS_Interval
    <3> QED BY <2>1, <3>1
  <2> HIDE DEF samples, failures, failed, n
  <2>6. RunningSum(samples, n) = n
    BY <2>1, <2>2, <2>4, <2>5, BucketsCountOnce
  <2>7. RunningSum(failures, n) = Cardinality(failed)
    BY <2>1, <2>3, <2>4, BucketsCountOnce
  <2> QED BY <2>6, <2>7, SelectionOperators
    DEF Selection!EveryRowCountsOnce, samples, failures, failed, n
<1> QED BY <1>1, FileInvariant, PTL

LEMMA LeastMatching ==
  ASSUME NEW S, S \subseteq Nat, S # {}
  PROVE  /\ Selection!Min(S) \in S
         /\ \A y \in S : Selection!Min(S) <= y
<1>1. \E x \in S : \A y \in S : x <= y
  BY LeastNatural
<1>2. Selection!Min(S) = CHOOSE x \in S : \A y \in S : x <= y
  BY DEF Selection!Min
<1> QED BY <1>1, <1>2

(* A row more changes no bucket that was there but by being in it.          *)
LEMMA SameBuckets ==
  ASSUME NEW rows, IsList(rows), NEW row, NEW i \in DOMAIN rows
  PROVE  LET more == Append(rows, row)
         IN  /\ i \in Selection!Buckets(more) <=> i \in Selection!Buckets(rows)
             /\ LET old == Selection!Summary(rows, i)
                    new == Selection!Summary(more, i)
                IN  /\ new.model = old.model
                    /\ old.samples \in Nat /\ new.samples \in Nat
                    /\ old.failures \in Nat /\ new.failures \in Nat
                    /\ old.samples <= new.samples /\ old.failures <= new.failures
<1> DEFINE more == Append(rows, row)
           n == Len(rows)
           oldFailed == {j \in DOMAIN rows : rows[j].failed}
           newFailed == {j \in DOMAIN more : more[j].failed}
<1>1. /\ n \in Nat /\ DOMAIN rows = 1 .. n
      /\ IsList(more) /\ DOMAIN more = (1 .. n) \cup {n + 1} /\ Len(more) = n + 1
      /\ \A j \in 1 .. n : more[j] = rows[j]
  BY OneMore, Lists
<1> HIDE DEF more
<1>2. i \in DOMAIN more /\ \A j \in 1 .. i - 1 : j \in 1 .. n
  BY <1>1
<1>3. Leads(more, i) <=> Leads(rows, i)
  BY <1>1, <1>2 DEF Leads, KeyOf
<1>4. /\ InBucket(rows, DOMAIN rows, i) \subseteq InBucket(more, DOMAIN more, i)
      /\ InBucket(rows, oldFailed, i) \subseteq InBucket(more, newFailed, i)
  BY <1>1 DEF InBucket, KeyOf
<1>5. /\ IsFiniteSet(InBucket(more, DOMAIN more, i))
      /\ IsFiniteSet(InBucket(more, newFailed, i))
  <2>1. IsFiniteSet(1 .. n + 1)
    BY <1>1, FS_Interval
  <2>2. /\ InBucket(more, DOMAIN more, i) \in SUBSET (1 .. n + 1)
        /\ InBucket(more, newFailed, i) \in SUBSET (1 .. n + 1)
    BY <1>1 DEF InBucket
  <2> QED BY <2>1, <2>2, FS_Subset
<1> HIDE DEF oldFailed, newFailed, n
<1>6. /\ Cardinality(InBucket(rows, DOMAIN rows, i)) \in Nat
      /\ Cardinality(InBucket(more, DOMAIN more, i)) \in Nat
      /\ Cardinality(InBucket(rows, DOMAIN rows, i))
           <= Cardinality(InBucket(more, DOMAIN more, i))
  BY <1>4, <1>5, FS_Subset, FS_CardinalityType
<1>7. /\ Cardinality(InBucket(rows, oldFailed, i)) \in Nat
      /\ Cardinality(InBucket(more, newFailed, i)) \in Nat
      /\ Cardinality(InBucket(rows, oldFailed, i))
           <= Cardinality(InBucket(more, newFailed, i))
  BY <1>4, <1>5, FS_Subset, FS_CardinalityType
<1> DEFINE old == Selection!Summary(rows, i)
           new == Selection!Summary(more, i)
<1>8. /\ i \in Selection!Buckets(rows) <=> Leads(rows, i)
      /\ old.samples = Cardinality(InBucket(rows, DOMAIN rows, i))
      /\ old.failures = Cardinality(InBucket(rows, oldFailed, i))
      /\ old.model = Selection!Identity(rows[i])
  BY SummariesAre DEF oldFailed
<1>9. /\ i \in Selection!Buckets(more) <=> Leads(more, i)
      /\ new.samples = Cardinality(InBucket(more, DOMAIN more, i))
      /\ new.failures = Cardinality(InBucket(more, newFailed, i))
      /\ new.model = Selection!Identity(more[i])
  BY <1>1, <1>2, SummariesAre DEF newFailed
<1> HIDE DEF old, new
<1>10. i \in Selection!Buckets(more) <=> i \in Selection!Buckets(rows)
  BY <1>3, <1>8, <1>9
<1>11. /\ old.samples \in Nat /\ new.samples \in Nat /\ old.samples <= new.samples
       /\ old.failures \in Nat /\ new.failures \in Nat
       /\ old.failures <= new.failures
  BY <1>6, <1>7, <1>8, <1>9
<1>12. new.model = old.model
  BY <1>1, <1>8, <1>9
<1> QED BY <1>10, <1>11, <1>12 DEF old, new, more

(* Of the buckets that match a name, the first stays the first.             *)
LEMMA SelectionIsKept ==
  ASSUME NEW rows, IsList(rows), NEW row, NEW reference,
         Selection!Matching(rows, reference) # {}
  PROVE  LET more == Append(rows, row)
             old == Selection!Select(rows, reference)
             new == Selection!Select(more, reference)
         IN  /\ Selection!Matching(more, reference) # {}
             /\ new.model = old.model
             /\ old.samples \in Nat /\ new.samples \in Nat
             /\ old.failures \in Nat /\ new.failures \in Nat
             /\ old.samples <= new.samples /\ old.failures <= new.failures
<1> DEFINE more == Append(rows, row)
           n == Len(rows)
           S == Selection!Matching(rows, reference)
           T == Selection!Matching(more, reference)
<1>1. /\ n \in Nat /\ DOMAIN rows = 1 .. n
      /\ DOMAIN more = (1 .. n) \cup {n + 1}
      /\ \A j \in 1 .. n : more[j] = rows[j]
  BY OneMore, Lists
<1>2. \A j \in 1 .. n : j \in Selection!Buckets(more) <=> j \in Selection!Buckets(rows)
  BY <1>1, SameBuckets
<1>3. /\ \A j : j \in S <=> /\ j \in Selection!Buckets(rows)
                            /\ Selection!Matches(Selection!Identity(rows[j]), reference)
      /\ \A j : j \in T <=> /\ j \in Selection!Buckets(more)
                            /\ Selection!Matches(Selection!Identity(more[j]), reference)
  BY Zenon DEF Selection!Matching
<1>4. Selection!Buckets(rows) \subseteq 1 .. n
      /\ Selection!Buckets(more) \subseteq (1 .. n) \cup {n + 1}
  BY <1>1 DEF Selection!Buckets
<1>5. /\ Selection!Select(rows, reference) = Selection!Summary(rows, Selection!Min(S))
      /\ Selection!Select(more, reference) = Selection!Summary(more, Selection!Min(T))
  BY DEF Selection!Select
<1> HIDE DEF S, T, more, n
<1>6. S \subseteq 1 .. n /\ T \subseteq (1 .. n) \cup {n + 1}
  BY <1>3, <1>4
<1>7. \A j \in 1 .. n : j \in S <=> j \in T
  BY <1>1, <1>2, <1>3
<1>8. S # {}
  BY DEF S
<1>9. T # {} /\ S \subseteq Nat /\ T \subseteq Nat
  <2>1. PICK j \in S : TRUE
    BY <1>8
  <2>2. j \in T
    BY <1>6, <1>7, <2>1
  <2>3. 1 .. n \subseteq Nat /\ n + 1 \in Nat
    BY <1>1
  <2> QED BY <1>6, <2>2, <2>3
<1> DEFINE first == Selection!Min(S)
           last == Selection!Min(T)
<1>10. /\ first \in S /\ \A y \in S : first <= y
       /\ last \in T /\ \A y \in T : last <= y
  BY <1>8, <1>9, LeastMatching
<1> HIDE DEF first, last
<1>11. first \in T /\ first \in 1 .. n /\ last <= first
  BY <1>6, <1>7, <1>10
<1>12. last \in 1 .. n
  BY <1>1, <1>6, <1>10, <1>11
<1>13. first = last
  BY <1>1, <1>7, <1>10, <1>11, <1>12
<1> DEFINE old == Selection!Summary(rows, first)
           new == Selection!Summary(more, first)
<1>14. /\ new.model = old.model
       /\ old.samples \in Nat /\ new.samples \in Nat
       /\ old.failures \in Nat /\ new.failures \in Nat
       /\ old.samples <= new.samples /\ old.failures <= new.failures
  BY <1>1, <1>11, SameBuckets DEF more
<1>15. /\ Selection!Select(rows, reference) = old
       /\ Selection!Select(more, reference) = new
  BY <1>5, <1>13 DEF first, last
<1> HIDE DEF old, new
<1> QED BY <1>9, <1>14, <1>15 DEF more, T

(* What is selected has numbers to compare.                                 *)
LEMMA SelectedIs ==
  ASSUME NEW rows, IsList(rows), NEW reference,
         Selection!Matching(rows, reference) # {}
  PROVE  LET old == Selection!Select(rows, reference)
         IN  old.samples \in Nat /\ old.failures \in Nat
BY SelectionIsKept

(* A summary is about what another one is about, on no less evidence.       *)
NoLessThan(new, old) ==
  /\ new.model = old.model
  /\ old.samples \in Nat /\ old.failures \in Nat
  /\ new.samples \in Nat /\ new.failures \in Nat
  /\ old.samples <= new.samples /\ old.failures <= new.failures

(* What a report was about is what the file still says, or it says more.    *)
AboutInv ==
  Selection!Reported =>
    \A m \in Selection!Roles :
      /\ Selection!Matching(file, asked[m]) # {}
      /\ NoLessThan(Selection!Select(file, asked[m]), report[m])

LEMMA AppendingKeeps ==
  ASSUME FileInv, AboutInv, Selection!Reported, Selection!AppendRow,
         NEW m \in Selection!Roles
  PROVE  /\ Selection!Matching(file', asked[m]) # {}
         /\ NoLessThan(Selection!Select(file', asked[m]), report[m])
<1>1. PICK row \in Rows : file' = Append(file, row)
  BY DEF Selection!AppendRow
<1> DEFINE old == Selection!Select(file, asked[m])
           new == Selection!Select(file', asked[m])
<1>2. Selection!Matching(file, asked[m]) # {} /\ NoLessThan(old, report[m])
  BY DEF AboutInv
<1>3. /\ Selection!Matching(file', asked[m]) # {}
      /\ new.model = old.model
      /\ old.samples \in Nat /\ new.samples \in Nat
      /\ old.failures \in Nat /\ new.failures \in Nat
      /\ old.samples <= new.samples /\ old.failures <= new.failures
  BY <1>1, <1>2, SelectionIsKept DEF FileInv
<1> HIDE DEF old, new
<1>4. NoLessThan(new, report[m])
  BY <1>2, <1>3 DEF NoLessThan
<1> QED BY <1>3, <1>4 DEF new

LEMMA BuildingSays ==
  ASSUME FileInv, Selection!BuildReport, NEW m \in Selection!Roles
  PROVE  /\ Selection!Matching(file, asked[m]) # {}
         /\ report'[m] = Selection!Select(file, asked[m])
         /\ NoLessThan(Selection!Select(file, asked[m]), report'[m])
<1>1. Selection!Matching(file, asked[m]) # {}
  BY DEF Selection!BuildReport, Selection!Selectable
<1>2. report'[m] = Selection!Select(file, asked[m])
  BY DEF Selection!BuildReport
<1>3. LET old == Selection!Select(file, asked[m])
      IN  old.samples \in Nat /\ old.failures \in Nat
  BY <1>1, SelectedIs DEF FileInv
<1>4. NoLessThan(Selection!Select(file, asked[m]), report'[m])
  BY <1>2, <1>3 DEF NoLessThan
<1> QED BY <1>1, <1>2, <1>4

LEMMA AboutInvariant == EvidenceSpec => []AboutInv
<1>1. RowsStart => AboutInv
  BY DEF RowsStart, Selection!Init, NoRows, AboutInv, Selection!Reported,
         Selection!NoReport
<1>2. FileInv /\ AboutInv /\ [Selection!Next]_rowVars => AboutInv'
  <2> SUFFICES ASSUME FileInv, AboutInv, [Selection!Next]_rowVars PROVE AboutInv'
    OBVIOUS
  <2>1. CASE UNCHANGED rowVars
    BY <2>1 DEF AboutInv, rowVars, Selection!Reported
  <2>2. CASE Selection!AppendRow
    <3>1. UNCHANGED <<asked, report>>
      BY <2>2 DEF Selection!AppendRow
    <3>2. Selection!Reported' => Selection!Reported
      BY <3>1 DEF Selection!Reported
    <3>3. Selection!Reported =>
            \A m \in Selection!Roles :
              /\ Selection!Matching(file', asked[m]) # {}
              /\ NoLessThan(Selection!Select(file', asked[m]), report[m])
      BY <2>2, AppendingKeeps
    <3> QED BY <3>1, <3>2, <3>3 DEF AboutInv
  <2>3. CASE Selection!BuildReport
    <3>1. UNCHANGED <<file, asked>>
      BY <2>3 DEF Selection!BuildReport
    <3>2. \A m \in Selection!Roles :
            /\ Selection!Matching(file, asked[m]) # {}
            /\ NoLessThan(Selection!Select(file, asked[m]), report'[m])
      BY <2>3, BuildingSays
    <3> QED BY <3>1, <3>2 DEF AboutInv
  <2>4. CASE Selection!RefuseReport
    BY <2>4 DEF Selection!RefuseReport, AboutInv, Selection!Reported
  <2> QED BY <2>1, <2>2, <2>3, <2>4 DEF Selection!Next
<1> QED BY <1>1, <1>2, RowsRun, FileInvariant, PTL

(* However a result file grows, and whatever names its rows and the options *)
(* have in common: a later report is about the same two models, on no less  *)
(* evidence.                                                                *)
THEOREM ReportsStayAboutTheSame == EvidenceSpec => ReportsAreAboutTheSame
<1> DEFINE Again ==
      Selection!Reported /\ report' \notin {Selection!NoReport, Selection!Refused} =>
        \A m \in Selection!Roles :
          /\ report'[m].model = report[m].model
          /\ report'[m].samples >= report[m].samples
          /\ report'[m].failures >= report[m].failures
<1>1. FileInv /\ AboutInv /\ [Selection!Next]_rowVars => [Again]_rowVars
  <2> SUFFICES ASSUME FileInv, AboutInv, Selection!Next, Selection!Reported,
                      report' \notin {Selection!NoReport, Selection!Refused},
                      NEW m \in Selection!Roles
               PROVE  /\ report'[m].model = report[m].model
                      /\ report'[m].samples >= report[m].samples
                      /\ report'[m].failures >= report[m].failures
    OBVIOUS
  <2>1. NoLessThan(Selection!Select(file, asked[m]), report[m])
    BY DEF AboutInv
  <2>2. CASE Selection!AppendRow
    <3>1. report' = report
      BY <2>2 DEF Selection!AppendRow
    <3> QED BY <2>1, <3>1 DEF NoLessThan
  <2>3. CASE Selection!BuildReport
    <3>1. report'[m] = Selection!Select(file, asked[m])
      BY <2>3, BuildingSays
    <3> QED BY <2>1, <3>1 DEF NoLessThan
  <2>4. CASE Selection!RefuseReport
    BY <2>4 DEF Selection!RefuseReport
  <2> QED BY <2>2, <2>3, <2>4 DEF Selection!Next
<1> QED BY <1>1, RowsRun, FileInvariant, AboutInvariant, PTL
  DEF ReportsAreAboutTheSame, Selection!ReportsAreAboutTheSame, rowVars, Selection!vars

-----------------------------------------------------------------------------
(* The labels people give. *)
LEMMA LabelsRun == EvidenceSpec => Labels!Init /\ [][Labels!Next]_files
<1>1. EvidenceInit => Labels!Init
  BY DEF EvidenceInit, NoLabels
<1>2. [EvidenceNext]_<<subject, vars, rowVars, files, traceVars>>
        => [Labels!Next]_files
  BY DEF EvidenceNext, NoMoreEvidence
<1> QED BY <1>1, <1>2, PTL DEF EvidenceSpec

IsFile(records) ==
  IsList(records) /\ \A i \in DOMAIN records : records[i] \in Labels!HumanOutcomeRecord

LabelsInv ==
  /\ files = [side \in Labels!Sides |-> files[side]]
  /\ \A side \in Labels!Sides : IsFile(files[side])

LEMMA RecordIs ==
  ASSUME NEW r \in Labels!HumanOutcomeRecord
  PROVE  /\ r.cost \in Nat \/ r.cost = Labels!NoCost
         /\ Labels!NoCost = -1
         /\ [r EXCEPT !.success = "unknown"] \in Labels!HumanOutcomeRecord
         /\ [r EXCEPT !.cost = Labels!NoCost] \in Labels!HumanOutcomeRecord
BY DEF Labels!HumanOutcomeRecord, Labels!NoCost

LEMMA OneRecordMore ==
  ASSUME NEW records, IsFile(records), NEW r \in Labels!HumanOutcomeRecord
  PROVE  IsFile(Append(records, r))
BY OneMore DEF IsFile

(* What a step does to a file. *)
Changed(old, new) ==
  \E i \in DOMAIN old :
    /\ new = [old EXCEPT ![i] = new[i]]
    /\ new[i] \in {[old[i] EXCEPT !.success = "unknown"],
                   [old[i] EXCEPT !.cost = Labels!NoCost]}

LEMMA ChangedFile ==
  ASSUME NEW old, IsFile(old), NEW new, Changed(old, new)
  PROVE  /\ IsFile(new) /\ Len(new) = Len(old) /\ DOMAIN new = DOMAIN old
         /\ \A i \in DOMAIN old :
              \/ new[i] = old[i]
              \/ new[i] = [old[i] EXCEPT !.success = "unknown"]
              \/ new[i] = [old[i] EXCEPT !.cost = Labels!NoCost]
<1> DEFINE n == Len(old)
<1>1. n \in Nat /\ DOMAIN old = 1 .. n
  BY Lists DEF IsFile
<1> HIDE DEF n
<1>2. PICK i \in DOMAIN old :
             /\ new = [old EXCEPT ![i] = new[i]]
             /\ new[i] \in {[old[i] EXCEPT !.success = "unknown"],
                            [old[i] EXCEPT !.cost = Labels!NoCost]}
  BY DEF Changed
<1>3. DOMAIN new = DOMAIN old /\ new = [j \in 1 .. n |-> new[j]]
  BY <1>1, <1>2
<1>4. IsList(new) /\ Len(new) = n
  BY <1>1, <1>3, FunctionList
<1>5. \A j \in DOMAIN old : j # i => new[j] = old[j]
  BY <1>2
<1>6. \A j \in DOMAIN old : new[j] \in Labels!HumanOutcomeRecord
  <2>1. old[i] \in Labels!HumanOutcomeRecord
    BY DEF IsFile
  <2>2. new[i] \in Labels!HumanOutcomeRecord
    BY <1>2, <2>1, RecordIs
  <2> QED BY <1>5, <2>2 DEF IsFile
<1>7. IsFile(new)
  BY <1>3, <1>4, <1>6 DEF IsFile
<1> QED BY <1>2, <1>3, <1>4, <1>5, <1>7 DEF n

Replaced(list, i, x) == [list EXCEPT ![i] = x]

StepOn(side) ==
  /\ \A other \in Labels!Sides \ {side} : files'[other] = files[other]
  /\ \/ \E r \in Labels!HumanOutcomeRecord :
          files'[side] = Append(files[side], r)
     \/ Changed(files[side], files'[side])

LEMMA StepsOnFiles ==
  ASSUME LabelsInv, Labels!Next
  PROVE  /\ files' = [side \in Labels!Sides |-> files'[side]]
         /\ \E side \in Labels!Sides : StepOn(side)
<1>1. CASE \E side \in Labels!Sides, r \in Records : Labels!Label(side, r)
  <2>1. PICK side \in Labels!Sides, r \in Records : Labels!Label(side, r)
    BY <1>1
  <2>2. files' = [files EXCEPT ![side] = Append(files[side], r)]
    BY <2>1 DEF Labels!Label
  <2>3. r \in Labels!HumanOutcomeRecord
    BY RecordsAssumption
  <2>4. files' = [other \in Labels!Sides |-> files'[other]]
    BY <2>2 DEF LabelsInv
  <2>5. /\ files'[side] = Append(files[side], r)
        /\ \A other \in Labels!Sides \ {side} : files'[other] = files[other]
    BY <2>2 DEF LabelsInv
  <2> QED BY <2>3, <2>4, <2>5 DEF StepOn
<1>2. CASE \E side \in Labels!Sides : \E i \in DOMAIN files[side] :
             Labels!Withhold(side, i)
  <2>0. PICK side \in Labels!Sides :
               \E i \in DOMAIN files[side] : Labels!Withhold(side, i)
    BY <1>2
  <2>1. PICK i \in DOMAIN files[side] : Labels!Withhold(side, i)
    BY <2>0
  <2>2. PICK r \in Labels!Withheld(files[side][i]) :
               files' = [files EXCEPT ![side] = Replaced(files[side], i, r)]
    BY <2>1 DEF Labels!Withhold, Replaced
  <2>3. files' = [other \in Labels!Sides |-> files'[other]]
    BY <2>2 DEF LabelsInv
  <2>4. /\ files'[side] = [files[side] EXCEPT ![i] = r]
        /\ \A other \in Labels!Sides \ {side} : files'[other] = files[other]
    BY <2>2 DEF LabelsInv, Replaced
  <2>5. files'[side][i] = r
    BY <2>4
  <2>6. Changed(files[side], files'[side])
    BY <2>2, <2>4, <2>5 DEF Changed, Labels!Withheld
  <2> QED BY <2>3, <2>4, <2>6 DEF StepOn
<1> QED BY <1>1, <1>2 DEF Labels!Next

LEMMA LabelsInvariant == EvidenceSpec => []LabelsInv
<1>1. Labels!Init => LabelsInv
  BY NoElements DEF Labels!Init, LabelsInv, IsFile
<1>2. LabelsInv /\ [Labels!Next]_files => LabelsInv'
  <2> SUFFICES ASSUME LabelsInv, Labels!Next PROVE LabelsInv'
    BY DEF LabelsInv
  <2>1. PICK side \in Labels!Sides : StepOn(side)
    BY StepsOnFiles
  <2>2. IsFile(files'[side])
    <3>1. IsFile(files[side])
      BY DEF LabelsInv
    <3> DEFINE old == files[side]
               new == files'[side]
    <3>2. (\E r \in Labels!HumanOutcomeRecord : new = Append(old, r)) \/ Changed(old, new)
      BY <2>1 DEF StepOn
    <3> HIDE DEF old, new
    <3>3. ASSUME NEW r \in Labels!HumanOutcomeRecord, new = Append(old, r)
          PROVE  IsFile(new)
      BY <3>1, <3>3, OneRecordMore DEF old
    <3>4. ASSUME Changed(old, new) PROVE IsFile(new)
      BY <3>1, <3>4, ChangedFile DEF old
    <3>5. IsFile(new)
      BY <3>2, <3>3, <3>4
    <3> QED BY <3>5 DEF new
  <2>3. \A other \in Labels!Sides : IsFile(files'[other])
    <3>1. \A other \in Labels!Sides \ {side} : IsFile(files'[other])
      BY <2>1 DEF StepOn, LabelsInv
    <3> QED BY <2>2, <3>1
  <2> QED BY <2>3, StepsOnFiles DEF LabelsInv
<1> QED BY <1>1, <1>2, LabelsRun, PTL

(* What a summary counts. *)
LabelledAs(records, label) == {i \in DOMAIN records : records[i].label = label}
Won(records) == {i \in DOMAIN records : records[i].success = "yes"}
Told(records) == {i \in DOMAIN records : records[i].success # "unknown"}
Unpriced(records) == {i \in DOMAIN records : records[i].cost = Labels!NoCost}
CostsOf(records) ==
  [i \in DOMAIN records |->
     IF records[i].cost = Labels!NoCost THEN 0 ELSE records[i].cost]
Spent(records) == RunningSum(CostsOf(records), Len(records))

LEMMA LabelsOperators ==
  /\ \A S : Labels!Cardinality(S) = Cardinality(S)
  /\ \A numbers, n : Labels!RunningSum(numbers, n) = RunningSum(numbers, n)
  /\ \A list : Labels!Last(list) = list[Len(list)]
<1>1. ASSUME NEW S PROVE Labels!Cardinality(S) = Cardinality(S)
  BY DEF Labels!Cardinality, Cardinality
<1>2. ASSUME NEW numbers, NEW n
      PROVE  Labels!RunningSum(numbers, n) = RunningSum(numbers, n)
  BY DEF Labels!RunningSum, RunningSum
<1>3. ASSUME NEW list PROVE Labels!Last(list) = list[Len(list)]
  BY DEF Labels!Last
<1> QED BY <1>1, <1>2, <1>3

LEMMA OutcomesAre ==
  ASSUME NEW records
  PROVE  LET summary == Labels!OutcomeSummary(records)
         IN  /\ summary.rates =
                  [label \in Labels!RateLabels |->
                     Labels!Rate(Cardinality(LabelledAs(records, label)), Len(records))]
             /\ summary.business =
                  Labels!Rate(Cardinality(Won(records)), Cardinality(Told(records)))
             /\ summary.cost = Labels!CostPerSuccess(records)
             /\ Labels!CostPerSuccess(records) =
                  IF Cardinality(Won(records)) = 0 \/ Unpriced(records) # {}
                  THEN Labels!Missing
                  ELSE [num |-> Spent(records), den |-> Cardinality(Won(records))]
<1>1. \A label : Labels!Labelled(records, label) = Cardinality(LabelledAs(records, label))
  BY LabelsOperators DEF Labels!Labelled, Labels!Count, LabelledAs
<1>2. Labels!Successes(records) = Cardinality(Won(records))
  BY LabelsOperators DEF Labels!Successes, Labels!Count, Won
<1>3. Labels!KnownBusiness(records) = Cardinality(Told(records))
  BY LabelsOperators DEF Labels!KnownBusiness, Labels!Count, Told
<1>4. Labels!SumOfCosts(records) = Spent(records)
  BY LabelsOperators DEF Labels!SumOfCosts, Spent, CostsOf
<1>5. Unpriced(records) # {} <=>
        \E i \in DOMAIN records : records[i].cost = Labels!NoCost
  BY DEF Unpriced
<1>6. Labels!CostPerSuccess(records) =
        IF Cardinality(Won(records)) = 0 \/ Unpriced(records) # {}
        THEN Labels!Missing
        ELSE [num |-> Spent(records), den |-> Cardinality(Won(records))]
  BY <1>2, <1>4, <1>5 DEF Labels!CostPerSuccess
<1>7. Labels!BusinessRate(records) =
        Labels!Rate(Cardinality(Won(records)), Cardinality(Told(records)))
  BY <1>2, <1>3 DEF Labels!BusinessRate
<1>8. [label \in Labels!RateLabels |->
         Labels!Rate(Labels!Labelled(records, label), Len(records))]
      = [label \in Labels!RateLabels |->
           Labels!Rate(Cardinality(LabelledAs(records, label)), Len(records))]
  BY <1>1
<1>9. LET summary == Labels!OutcomeSummary(records)
      IN  /\ summary.rates =
               [label \in Labels!RateLabels |->
                  Labels!Rate(Labels!Labelled(records, label), Len(records))]
          /\ summary.business = Labels!BusinessRate(records)
          /\ summary.cost = Labels!CostPerSuccess(records)
  BY DEF Labels!OutcomeSummary
<1> QED BY <1>6, <1>7, <1>8, <1>9

LEMMA CountsOfFile ==
  ASSUME NEW records, IsFile(records)
  PROVE  /\ Len(records) \in Nat /\ DOMAIN records = 1 .. Len(records)
         /\ \A label : /\ LabelledAs(records, label) \in SUBSET (1 .. Len(records))
                       /\ Cardinality(LabelledAs(records, label)) \in Nat
         /\ /\ Won(records) \in SUBSET (1 .. Len(records))
            /\ Told(records) \in SUBSET (1 .. Len(records))
         /\ Cardinality(Won(records)) \in Nat /\ Cardinality(Told(records)) \in Nat
         /\ \A i \in 1 .. Len(records) : CostsOf(records)[i] \in Nat
         /\ Spent(records) \in Nat
<1> DEFINE n == Len(records)
<1>1. n \in Nat /\ DOMAIN records = 1 .. n
  BY Lists DEF IsFile
<1> HIDE DEF n
<1>2. \A A \in SUBSET (1 .. n) : Cardinality(A) \in Nat
  BY <1>1, PickedOneMore
<1>3. /\ \A label : LabelledAs(records, label) \in SUBSET (1 .. n)
      /\ Won(records) \in SUBSET (1 .. n) /\ Told(records) \in SUBSET (1 .. n)
  BY <1>1 DEF LabelledAs, Won, Told
<1>4. \A i \in 1 .. n : CostsOf(records)[i] \in Nat
  <2> SUFFICES ASSUME NEW i \in 1 .. n PROVE CostsOf(records)[i] \in Nat
    OBVIOUS
  <2>1. records[i] \in Labels!HumanOutcomeRecord
    BY <1>1 DEF IsFile
  <2>2. records[i].cost \in Nat \/ records[i].cost = Labels!NoCost
    BY <2>1, RecordIs
  <2> QED BY <1>1, <2>2 DEF CostsOf
<1>5. Spent(records) \in Nat
  BY <1>1, <1>4, SumNat DEF Spent, n
<1> QED BY <1>1, <1>2, <1>3, <1>4, <1>5 DEF n

(* Numbers that are known or missing, and one that is no more than another  *)
(* where both are known, of the same denominator.                           *)
Quotient(v) == v \in [num : Int, den : Nat]
NoMoreThan(v, w) ==
  Labels!Known(v) /\ Labels!Known(w) => v.den = w.den /\ v.num <= w.num

Rounded(rate, count, n) ==
  /\ rate.den = 10000 /\ rate.num \in Int
  /\ 2 * n * rate.num <= 20000 * count + n
  /\ \A q \in Int : 2 * n * q <= 20000 * count + n => q <= rate.num

LEMMA RateIs ==
  ASSUME NEW count \in Nat, NEW n \in Nat
  PROVE  /\ Quotient(Labels!Rate(count, n))
         /\ Labels!Known(Labels!Rate(count, n)) <=> n # 0
         /\ n # 0 => Rounded(Labels!Rate(count, n), count, n)
<1>1. CASE n = 0
  <2>1. Labels!Rate(count, n) = [num |-> 0, den |-> 0]
    BY <1>1 DEF Labels!Rate, Labels!Missing
  <2> QED BY <1>1, <2>1 DEF Quotient, Labels!Known
<1>2. CASE n # 0
  <2> DEFINE a == 20000 * count + n
             b == 2 * n
             p == a \div b
  <2>1. a \in Int /\ b \in Nat \ {0}
    BY <1>2
  <2>2. Labels!Rate(count, n) = [num |-> p, den |-> 10000]
    BY <1>2 DEF Labels!Rate
  <2> HIDE DEF a, b
  <2>3. p \in Int /\ b * p <= a
    BY <2>1, QuotientIs
  <2>4. \A q \in Int : b * q <= a => q <= p
    BY <2>1, QuotientIsGreatest
  <2> HIDE DEF p
  <2>5. /\ Quotient(Labels!Rate(count, n)) /\ Labels!Known(Labels!Rate(count, n))
        /\ Labels!Rate(count, n).den = 10000 /\ Labels!Rate(count, n).num = p
    BY <2>2, <2>3 DEF Quotient, Labels!Known
  <2>6. Rounded(Labels!Rate(count, n), count, n)
    BY <2>3, <2>4, <2>5 DEF Rounded, a, b
  <2> QED BY <1>2, <2>5, <2>6
<1> QED BY <1>1, <1>2

(* The same count of one more is a rate that is no higher.                  *)
LEMMA RateFalls ==
  ASSUME NEW count \in Nat, NEW n \in Nat, count <= n
  PROVE  NoMoreThan(Labels!Rate(count, n + 1), Labels!Rate(count, n))
<1>1. CASE n = 0
  BY <1>1, RateIs DEF NoMoreThan
<1>2. CASE n # 0
  <2> DEFINE p == Labels!Rate(count, n).num
             q == Labels!Rate(count, n + 1).num
  <2>1. /\ n + 1 \in Nat /\ n + 1 # 0
        /\ Labels!Rate(count, n).den = 10000 /\ Labels!Rate(count, n + 1).den = 10000
        /\ p \in Int /\ q \in Int
        /\ \A r \in Int : 2 * n * r <= 20000 * count + n => r <= p
        /\ 2 * (n + 1) * q <= 20000 * count + (n + 1)
        /\ 0 <= q
    <3> DEFINE m == n + 1
    <3>1. m \in Nat /\ m # 0 /\ 2 * m * 0 <= 20000 * count + m /\ 0 \in Int
      OBVIOUS
    <3>2. /\ Labels!Rate(count, n).den = 10000 /\ p \in Int
          /\ \A r \in Int : 2 * n * r <= 20000 * count + n => r <= p
      <4>1. Rounded(Labels!Rate(count, n), count, n)
        BY <1>2, RateIs
      <4> QED BY <4>1 DEF Rounded
    <3> HIDE DEF m
    <3>3. LET rate == Labels!Rate(count, m)
          IN  /\ rate.den = 10000 /\ rate.num \in Int
              /\ 2 * m * rate.num <= 20000 * count + m
              /\ \A r \in Int : 2 * m * r <= 20000 * count + m => r <= rate.num
      <4>1. Rounded(Labels!Rate(count, m), count, m)
        BY <3>1, RateIs
      <4> QED BY <4>1 DEF Rounded
    <3>4. 0 <= Labels!Rate(count, m).num
      BY <3>1, <3>3
    <3> QED BY <3>1, <3>2, <3>3, <3>4 DEF m
  <2> HIDE DEF p, q
  <2>2. 2 * n * q <= 20000 * count + n
    <3>1. CASE q = 0
      BY <3>1
    <3>2. CASE q >= 1
      <4>1. 2 * (n + 1) * q = 2 * n * q + 2 * q
        BY <2>1
      <4>2. 2 * n * q \in Int
        BY <2>1
      <4> QED BY <2>1, <3>2, <4>1, <4>2
    <3> QED BY <2>1, <3>1, <3>2
  <2>3. q <= p
    BY <2>1, <2>2
  <2> QED BY <2>1, <2>3 DEF NoMoreThan, p, q
<1> QED BY <1>1, <1>2

(* Twice as many of twice as many is the same rate.                         *)
LEMMA RateOfTwice ==
  ASSUME NEW count \in Nat, NEW n \in Nat
  PROVE  Labels!Rate(count + count, n + n) = Labels!Rate(count, n)
<1>1. CASE n = 0
  BY <1>1 DEF Labels!Rate
<1>2. CASE n # 0
  <2> DEFINE a == 20000 * count + n
             b == 2 * n
             p == a \div b
             q == (a + a) \div (b + b)
  <2>1. a \in Int /\ b \in Nat \ {0} /\ a + a \in Int /\ b + b \in Nat \ {0}
    BY <1>2
  <2>2. 20000 * (count + count) + (n + n) = a + a /\ 2 * (n + n) = b + b
    OBVIOUS
  <2>3. Labels!Rate(count, n) = [num |-> p, den |-> 10000]
    BY <1>2 DEF Labels!Rate
  <2>4. Labels!Rate(count + count, n + n) = [num |-> q, den |-> 10000]
    <3> HIDE DEF a, b
    <3>1. n + n # 0
      BY <1>2
    <3> QED BY <2>2, <3>1 DEF Labels!Rate
  <2> HIDE DEF a, b
  <2>5. p \in Int /\ q \in Int /\ b * p <= a /\ (b + b) * q <= a + a
    BY <2>1, QuotientIs
  <2>6. (b + b) * p <= a + a
    <3>1. (b + b) * p = b * p + b * p /\ b * p \in Int
      BY <2>1, <2>5
    <3> QED BY <2>1, <2>5, <3>1
  <2>7. b * q <= a
    <3>1. (b + b) * q = b * q + b * q /\ b * q \in Int
      BY <2>1, <2>5
    <3> QED BY <2>1, <2>5, <3>1
  <2>8. p <= q /\ q <= p
    BY <2>1, <2>5, <2>6, <2>7, QuotientIsGreatest
  <2> HIDE DEF p, q
  <2>9. p = q
    BY <2>5, <2>8
  <2> QED BY <2>3, <2>4, <2>9
<1> QED BY <1>1, <1>2

LEMMA DifferenceIs ==
  ASSUME NEW v, NEW b, Quotient(v), Quotient(b)
  PROVE  LET difference == Labels!Difference(v, b)
         IN  /\ Labels!Known(difference) <=> Labels!Known(v) /\ Labels!Known(b)
             /\ Labels!Known(v) /\ Labels!Known(b) =>
                  IF v.den = b.den
                  THEN difference.num = v.num - b.num /\ difference.den = b.den
                  ELSE /\ difference.num = v.num * b.den - b.num * v.den
                       /\ difference.den = v.den * b.den
<1> DEFINE difference == Labels!Difference(v, b)
<1>1. CASE ~Labels!Known(v) \/ ~Labels!Known(b)
  <2>1. difference = [num |-> 0, den |-> 0]
    BY <1>1 DEF Labels!Difference, Labels!Missing
  <2> QED BY <1>1, <2>1 DEF Labels!Known
<1>2. CASE Labels!Known(v) /\ Labels!Known(b)
  <2>1. v.den \in Nat /\ b.den \in Nat /\ v.den > 0 /\ b.den > 0
    BY <1>2 DEF Quotient, Labels!Known
  <2>2. CASE v.den = b.den
    <3>1. difference = [num |-> v.num - b.num, den |-> b.den]
      BY <1>2, <2>2 DEF Labels!Difference
    <3> QED BY <1>2, <2>1, <2>2, <3>1 DEF Labels!Known
  <2>3. CASE v.den # b.den
    <3>1. difference = [num |-> v.num * b.den - b.num * v.den, den |-> v.den * b.den]
      BY <1>2, <2>3 DEF Labels!Difference
    <3>2. v.den * b.den > 0
      BY <2>1
    <3> QED BY <1>2, <2>3, <3>1, <3>2 DEF Labels!Known
  <2> QED BY <2>2, <2>3
<1> QED BY <1>1, <1>2

LEMMA SameDenominators ==
  ASSUME NEW v, NEW w, v.num \in Int, w.num \in Int, v.den = w.den, w.den \in Nat,
         v.num <= w.num
  PROVE  Labels!AtMost(v, w)
BY TimesKeeps DEF Labels!AtMost

(* A candidate with less has no larger difference to its baseline, ...      *)
LEMMA LessOfCandidate ==
  ASSUME NEW v, NEW w, NEW b, Quotient(v), Quotient(w), Quotient(b), NoMoreThan(v, w)
  PROVE  Labels!AtMost(Labels!Difference(v, b), Labels!Difference(w, b))
<1> DEFINE x == Labels!Difference(v, b)
           y == Labels!Difference(w, b)
<1>1. SUFFICES ASSUME Labels!Known(x), Labels!Known(y) PROVE Labels!AtMost(x, y)
  BY DEF Labels!AtMost
<1>2. Labels!Known(v) /\ Labels!Known(w) /\ Labels!Known(b)
  BY <1>1, DifferenceIs
<1>3. /\ v.num \in Int /\ w.num \in Int /\ b.num \in Int
      /\ v.den = w.den /\ w.den \in Nat /\ b.den \in Nat /\ v.num <= w.num
  BY <1>2 DEF Quotient, NoMoreThan
<1>4. CASE w.den = b.den
  <2>1. /\ x.num = v.num - b.num /\ x.den = b.den
        /\ y.num = w.num - b.num /\ y.den = b.den
    BY <1>2, <1>3, <1>4, DifferenceIs
  <2> HIDE DEF x, y
  <2>2. x.num \in Int /\ y.num \in Int /\ x.num <= y.num
    BY <1>3, <2>1
  <2> QED BY <1>3, <2>1, <2>2, SameDenominators
<1>5. CASE w.den # b.den
  <2>1. /\ x.num = v.num * b.den - b.num * w.den /\ x.den = w.den * b.den
        /\ y.num = w.num * b.den - b.num * w.den /\ y.den = w.den * b.den
    BY <1>2, <1>3, <1>5, DifferenceIs
  <2> HIDE DEF x, y
  <2>2. v.num * b.den <= w.num * b.den
    BY <1>3, TimesKeeps
  <2>3. /\ v.num * b.den \in Int /\ w.num * b.den \in Int /\ b.num * w.den \in Int
        /\ w.den * b.den \in Nat
    BY <1>3
  <2>4. x.num \in Int /\ y.num \in Int /\ x.num <= y.num
    BY <2>1, <2>2, <2>3
  <2> QED BY <2>1, <2>3, <2>4, SameDenominators
<1> QED BY <1>4, <1>5

(* ... and a baseline with less leaves its candidate no smaller one.        *)
LEMMA LessOfBaseline ==
  ASSUME NEW v, NEW w, NEW c, Quotient(v), Quotient(w), Quotient(c), NoMoreThan(v, w)
  PROVE  Labels!AtMost(Labels!Difference(c, w), Labels!Difference(c, v))
<1> DEFINE x == Labels!Difference(c, w)
           y == Labels!Difference(c, v)
<1>1. SUFFICES ASSUME Labels!Known(x), Labels!Known(y) PROVE Labels!AtMost(x, y)
  BY DEF Labels!AtMost
<1>2. Labels!Known(v) /\ Labels!Known(w) /\ Labels!Known(c)
  BY <1>1, DifferenceIs
<1>3. /\ v.num \in Int /\ w.num \in Int /\ c.num \in Int
      /\ v.den = w.den /\ w.den \in Nat /\ c.den \in Nat /\ v.num <= w.num
  BY <1>2 DEF Quotient, NoMoreThan
<1>4. CASE c.den = w.den
  <2>1. /\ x.num = c.num - w.num /\ x.den = w.den
        /\ y.num = c.num - v.num /\ y.den = w.den
    BY <1>2, <1>3, <1>4, DifferenceIs
  <2> HIDE DEF x, y
  <2>2. x.num \in Int /\ y.num \in Int /\ x.num <= y.num
    BY <1>3, <2>1
  <2> QED BY <1>3, <2>1, <2>2, SameDenominators
<1>5. CASE c.den # w.den
  <2>1. /\ x.num = c.num * w.den - w.num * c.den /\ x.den = c.den * w.den
        /\ y.num = c.num * w.den - v.num * c.den /\ y.den = c.den * w.den
    BY <1>2, <1>3, <1>5, DifferenceIs
  <2> HIDE DEF x, y
  <2>2. v.num * c.den <= w.num * c.den
    BY <1>3, TimesKeeps
  <2>3. /\ v.num * c.den \in Int /\ w.num * c.den \in Int /\ c.num * w.den \in Int
        /\ c.den * w.den \in Nat
    BY <1>3
  <2>4. x.num \in Int /\ y.num \in Int /\ x.num <= y.num
    BY <2>1, <2>2, <2>3
  <2> QED BY <2>1, <2>3, <2>4, SameDenominators
<1> QED BY <1>4, <1>5

LEMMA CostIs ==
  ASSUME NEW records, IsFile(records)
  PROVE  LET cost == Labels!CostPerSuccess(records)
         IN  /\ Quotient(cost)
             /\ Labels!Known(cost) <=>
                  Cardinality(Won(records)) # 0 /\ Unpriced(records) = {}
             /\ Labels!Known(cost) =>
                  cost.num = Spent(records) /\ cost.den = Cardinality(Won(records))
<1> DEFINE cost == Labels!CostPerSuccess(records)
           won == Cardinality(Won(records))
<1>1. won \in Nat /\ Spent(records) \in Nat
  BY CountsOfFile
<1>2. cost = IF won = 0 \/ Unpriced(records) # {} THEN Labels!Missing
             ELSE [num |-> Spent(records), den |-> won]
  BY OutcomesAre
<1> HIDE DEF cost, won
<1>3. CASE won = 0 \/ Unpriced(records) # {}
  <2>1. cost = [num |-> 0, den |-> 0]
    BY <1>2, <1>3 DEF Labels!Missing
  <2> QED BY <1>3, <2>1 DEF Quotient, Labels!Known, cost, won
<1>4. CASE won # 0 /\ Unpriced(records) = {}
  <2>1. cost = [num |-> Spent(records), den |-> won]
    BY <1>2, <1>4
  <2>2. Quotient(cost) /\ Labels!Known(cost)
    BY <1>1, <1>4, <2>1 DEF Quotient, Labels!Known
  <2> QED BY <1>4, <2>1, <2>2 DEF cost, won
<1> QED BY <1>3, <1>4

LEMMA SummaryIs ==
  ASSUME NEW records, IsFile(records)
  PROVE  LET summary == Labels!OutcomeSummary(records)
         IN  /\ Quotient(summary.rates["accepted"])
             /\ Quotient(summary.business) /\ Quotient(summary.cost)
<1> DEFINE summary == Labels!OutcomeSummary(records)
<1>1. summary.rates["accepted"] =
        Labels!Rate(Cardinality(LabelledAs(records, "accepted")), Len(records))
  BY OutcomesAre DEF Labels!RateLabels
<1>2. /\ summary.business =
           Labels!Rate(Cardinality(Won(records)), Cardinality(Told(records)))
      /\ summary.cost = Labels!CostPerSuccess(records)
  BY OutcomesAre
<1>3. /\ Len(records) \in Nat /\ Cardinality(LabelledAs(records, "accepted")) \in Nat
      /\ Cardinality(Won(records)) \in Nat /\ Cardinality(Told(records)) \in Nat
  BY CountsOfFile
<1> HIDE DEF summary
<1>4. Quotient(summary.rates["accepted"])
  BY <1>1, <1>3, RateIs
<1>5. Quotient(summary.business)
  BY <1>2, <1>3, RateIs
<1>6. Quotient(summary.cost)
  BY <1>2, CostIs
<1> QED BY <1>4, <1>5, <1>6 DEF summary

(* A failure more: the rates are no higher, the cost of a success no lower. *)
Worse(new, old) ==
  /\ NoMoreThan(new.rates["accepted"], old.rates["accepted"])
  /\ NoMoreThan(new.business, old.business)
  /\ NoMoreThan(old.cost, new.cost)
  /\ Labels!Known(new.cost) => Labels!Known(old.cost)

LEMMA FailureIsWorse ==
  ASSUME NEW records, IsFile(records), NEW r \in Labels!HumanOutcomeRecord,
         r.success = "no", r.label # "accepted"
  PROVE  Worse(Labels!OutcomeSummary(Append(records, r)),
               Labels!OutcomeSummary(records))
<1> DEFINE more == Append(records, r)
           n == Len(records)
           old == Labels!OutcomeSummary(records)
           new == Labels!OutcomeSummary(more)
<1>1. /\ n \in Nat /\ DOMAIN records = 1 .. n
      /\ IsFile(more) /\ Len(more) = n + 1 /\ DOMAIN more = (1 .. n) \cup {n + 1}
      /\ \A i \in 1 .. n : more[i] = records[i]
      /\ more[n + 1] = r
  BY OneMore, OneRecordMore, Lists DEF IsFile
<1> HIDE DEF more, n
<1>2. LabelledAs(more, "accepted") = LabelledAs(records, "accepted") /\ Won(more) = Won(records)
  BY <1>1 DEF LabelledAs, Won
<1>3. Told(more) = Told(records) \cup {n + 1} /\ Won(records) \subseteq Told(records)
  BY <1>1 DEF Told, Won
<1> DEFINE accepted == Cardinality(LabelledAs(records, "accepted"))
           won == Cardinality(Won(records))
           told == Cardinality(Told(records))
<1>4. /\ accepted \in Nat /\ won \in Nat /\ told \in Nat
      /\ accepted <= n /\ won <= told /\ Cardinality(Told(more)) = told + 1
  <2>1. /\ LabelledAs(records, "accepted") \in SUBSET (1 .. n)
        /\ Told(records) \in SUBSET (1 .. n)
    BY <1>1 DEF LabelledAs, Told
  <2>2. IsFiniteSet(1 .. n) /\ Cardinality(1 .. n) = n
    <3>1. IsFiniteSet(1 .. n) /\ Cardinality(1 .. n) = IF 1 > n THEN 0 ELSE n - 1 + 1
      BY <1>1, FS_Interval
    <3> QED BY <1>1, <3>1
  <2>3. IsFiniteSet(Told(records)) /\ accepted <= n
    BY <2>1, <2>2, FS_Subset
  <2>4. won <= told
    BY <1>3, <2>3, FS_Subset
  <2>5. n + 1 \notin Told(records)
    BY <1>1, <2>1
  <2>6. Cardinality(Told(more)) = told + 1
    BY <1>1, <1>3, <2>1, <2>5, PickedOneMore
  <2>7. accepted \in Nat /\ won \in Nat /\ told \in Nat
    BY CountsOfFile
  <2> QED BY <2>3, <2>4, <2>6, <2>7
<1>5. /\ old.rates["accepted"] = Labels!Rate(accepted, n)
      /\ new.rates["accepted"] = Labels!Rate(accepted, n + 1)
  <2>1. /\ old.rates["accepted"] =
             Labels!Rate(Cardinality(LabelledAs(records, "accepted")), Len(records))
        /\ new.rates["accepted"] =
             Labels!Rate(Cardinality(LabelledAs(more, "accepted")), Len(more))
    BY OutcomesAre DEF Labels!RateLabels
  <2> QED BY <1>1, <1>2, <2>1 DEF n
<1>6. old.business = Labels!Rate(won, told) /\ new.business = Labels!Rate(won, told + 1)
  <2>1. /\ old.business =
             Labels!Rate(Cardinality(Won(records)), Cardinality(Told(records)))
        /\ new.business = Labels!Rate(Cardinality(Won(more)), Cardinality(Told(more)))
    BY OutcomesAre
  <2> QED BY <1>2, <1>4, <2>1
<1>7. /\ old.cost = Labels!CostPerSuccess(records)
      /\ new.cost = Labels!CostPerSuccess(more)
  BY OutcomesAre
<1>8. Unpriced(more) = {} => Unpriced(records) = {}
  BY <1>1 DEF Unpriced
<1>9. Spent(records) <= Spent(more)
  <2>1. \A i \in 1 .. n : CostsOf(more)[i] = CostsOf(records)[i]
    BY <1>1 DEF CostsOf
  <2>2. RunningSum(CostsOf(more), n) = RunningSum(CostsOf(records), n)
    BY <1>1, <2>1, SumOfSame
  <2>3. n \in 0 .. n + 1 /\ n + 1 \in Nat
    BY <1>1
  <2>4. \A i \in 1 .. n + 1 : CostsOf(more)[i] \in Nat
    BY <1>1, CountsOfFile
  <2>5. RunningSum(CostsOf(more), n) <= RunningSum(CostsOf(more), n + 1)
    BY <2>3, <2>4, SumGrows
  <2> QED BY <1>1, <2>2, <2>5 DEF Spent, n
<1> HIDE DEF old, new, accepted, told
<1>10. NoMoreThan(new.rates["accepted"], old.rates["accepted"])
  BY <1>1, <1>4, <1>5, RateFalls
<1>11. NoMoreThan(new.business, old.business)
  <2> HIDE DEF won
  <2> QED BY <1>4, <1>6, RateFalls
<1>12. /\ Labels!Known(old.cost) <=> won # 0 /\ Unpriced(records) = {}
       /\ Labels!Known(old.cost) => old.cost.num = Spent(records) /\ old.cost.den = won
  BY <1>7, CostIs
<1>13. /\ Labels!Known(new.cost) <=> Cardinality(Won(more)) # 0 /\ Unpriced(more) = {}
       /\ Labels!Known(new.cost) =>
            new.cost.num = Spent(more) /\ new.cost.den = Cardinality(Won(more))
  BY <1>1, <1>7, CostIs
<1>14. /\ NoMoreThan(old.cost, new.cost)
       /\ Labels!Known(new.cost) => Labels!Known(old.cost)
  BY <1>2, <1>8, <1>9, <1>12, <1>13 DEF NoMoreThan
<1> QED BY <1>10, <1>11, <1>14 DEF Worse, old, new, more

(* What is withheld from a file makes no success cheaper.                   *)
LEMMA WithheldIsNoCheaper ==
  ASSUME NEW old, IsFile(old), NEW new, Changed(old, new)
  PROVE  LET now == Labels!OutcomeSummary(old)
             then == Labels!OutcomeSummary(new)
         IN  /\ Labels!AtMost(now.cost, then.cost)
             /\ ~Labels!Appears(now.cost, then.cost)
             /\ then.rates = now.rates
<1> DEFINE n == Len(old)
           now == Labels!OutcomeSummary(old)
           then == Labels!OutcomeSummary(new)
<1>1. /\ n \in Nat /\ DOMAIN old = 1 .. n /\ DOMAIN new = 1 .. n /\ Len(new) = n
      /\ IsFile(new)
      /\ \A i \in 1 .. n :
           \/ new[i] = old[i]
           \/ new[i] = [old[i] EXCEPT !.success = "unknown"]
           \/ new[i] = [old[i] EXCEPT !.cost = Labels!NoCost]
  BY ChangedFile, CountsOfFile
<1> HIDE DEF n
<1>2. \A i \in 1 .. n :
        /\ new[i].label = old[i].label
        /\ new[i].success = old[i].success \/ new[i].success = "unknown"
        /\ new[i].cost = old[i].cost \/ new[i].cost = Labels!NoCost
  <2> SUFFICES ASSUME NEW i \in 1 .. n
               PROVE  /\ new[i].label = old[i].label
                      /\ new[i].success = old[i].success \/ new[i].success = "unknown"
                      /\ new[i].cost = old[i].cost \/ new[i].cost = Labels!NoCost
    OBVIOUS
  <2>1. old[i] \in Labels!HumanOutcomeRecord
    BY <1>1 DEF IsFile
  <2>2. \/ new[i] = old[i]
        \/ new[i] = [old[i] EXCEPT !.success = "unknown"]
        \/ new[i] = [old[i] EXCEPT !.cost = Labels!NoCost]
    BY <1>1
  <2> QED BY <2>1, <2>2 DEF Labels!HumanOutcomeRecord
<1>3. then.rates = now.rates
  <2>1. \A label : LabelledAs(new, label) = LabelledAs(old, label)
    BY <1>1, <1>2 DEF LabelledAs
  <2>2. /\ now.rates = [label \in Labels!RateLabels |->
                          Labels!Rate(Cardinality(LabelledAs(old, label)), n)]
        /\ then.rates = [label \in Labels!RateLabels |->
                           Labels!Rate(Cardinality(LabelledAs(new, label)), n)]
    BY <1>1, OutcomesAre DEF n
  <2> QED BY <2>1, <2>2
<1>4. Won(new) \subseteq Won(old) /\ Won(old) \in SUBSET (1 .. n)
  BY <1>1, <1>2 DEF Won
<1> DEFINE few == Cardinality(Won(new))
           won == Cardinality(Won(old))
<1>5. few \in Nat /\ won \in Nat /\ few <= won
  <2>1. IsFiniteSet(Won(old))
    <3>1. IsFiniteSet(1 .. n)
      BY <1>1, FS_Interval
    <3> QED BY <1>4, <3>1, FS_Subset
  <2>2. few <= won
    BY <1>4, <2>1, FS_Subset
  <2> QED BY <1>1, <2>2, CountsOfFile
<1>6. Unpriced(new) = {} => Unpriced(old) = {} /\ Spent(new) = Spent(old)
  <2> SUFFICES ASSUME Unpriced(new) = {}
               PROVE  Unpriced(old) = {} /\ Spent(new) = Spent(old)
    OBVIOUS
  <2>1. \A i \in 1 .. n : new[i].cost = old[i].cost
    BY <1>1, <1>2 DEF Unpriced
  <2>2. Unpriced(old) = {}
    BY <1>1, <2>1 DEF Unpriced
  <2>3. \A i \in 1 .. n : CostsOf(new)[i] = CostsOf(old)[i]
    BY <1>1, <2>1 DEF CostsOf
  <2>4. RunningSum(CostsOf(new), n) = RunningSum(CostsOf(old), n)
    BY <1>1, <2>3, SumOfSame
  <2> QED BY <1>1, <2>2, <2>4 DEF Spent, n
<1>7. /\ now.cost = Labels!CostPerSuccess(old)
      /\ then.cost = Labels!CostPerSuccess(new)
  BY OutcomesAre
<1>8. Spent(old) \in Nat
  BY CountsOfFile
<1> HIDE DEF now, then, few, won
<1>9. /\ Labels!Known(now.cost) <=> won # 0 /\ Unpriced(old) = {}
      /\ Labels!Known(now.cost) => now.cost.num = Spent(old) /\ now.cost.den = won
  BY <1>7, CostIs DEF won
<1>10. /\ Labels!Known(then.cost) <=> few # 0 /\ Unpriced(new) = {}
       /\ Labels!Known(then.cost) => then.cost.num = Spent(new) /\ then.cost.den = few
  BY <1>1, <1>7, CostIs DEF few
<1>11. Labels!Known(then.cost) => Labels!Known(now.cost)
  BY <1>5, <1>6, <1>9, <1>10
<1>12. Labels!AtMost(now.cost, then.cost)
  <2>1. Spent(old) * few <= Spent(old) * won
    BY <1>5, <1>8, TimesKeeps
  <2> QED BY <1>6, <1>9, <1>10, <2>1 DEF Labels!AtMost
<1>13. ~Labels!Appears(now.cost, then.cost)
  BY <1>11 DEF Labels!Appears
<1> QED BY <1>3, <1>12, <1>13 DEF now, then

(* A file that is there twice says what it says once.                       *)
LEMMA TwiceSaysTheSame ==
  ASSUME NEW records, IsFile(records)
  PROVE  LET once == Labels!OutcomeSummary(records)
             twice == Labels!OutcomeSummary(records \o records)
         IN  /\ twice.rates = once.rates /\ twice.business = once.business
             /\ Labels!AtMost(once.cost, twice.cost)
             /\ Labels!AtMost(twice.cost, once.cost)
<1> DEFINE n == Len(records)
           both == records \o records
           once == Labels!OutcomeSummary(records)
           twice == Labels!OutcomeSummary(both)
<1>1. /\ n \in Nat /\ DOMAIN records = 1 .. n
      /\ IsList(both) /\ Len(both) = n + n /\ DOMAIN both = 1 .. n + n
      /\ \A i \in 1 .. n : both[i] = records[i] /\ both[n + i] = records[i]
  <2>1. n \in Nat /\ DOMAIN records = 1 .. n
    BY CountsOfFile
  <2>2. /\ IsList(both) /\ Len(both) = n + n
        /\ \A i \in DOMAIN records : both[i] = records[i] /\ both[n + i] = records[i]
    BY TwoLists DEF IsFile
  <2>3. DOMAIN both = 1 .. n + n
    <3> HIDE DEF both, n
    <3> QED BY <2>2, Lists
  <2> QED BY <2>1, <2>2, <2>3
<1> HIDE DEF n, both
<1>2. \A i \in 1 .. n : i \in 1 .. n + n /\ n + i \in 1 .. n + n
  BY <1>1
<1>3. \A j \in 1 .. n + n : \E i \in 1 .. n : j = i \/ j = n + i
  <2> SUFFICES ASSUME NEW j \in 1 .. n + n
               PROVE  \E i \in 1 .. n : j = i \/ j = n + i
    OBVIOUS
  <2>1. CASE j <= n
    BY <1>1, <2>1
  <2>2. CASE j > n
    <3>1. j - n \in 1 .. n /\ j = n + (j - n)
      BY <1>1, <2>2
    <3> QED BY <3>1
  <2> QED BY <1>1, <2>1, <2>2
<1>4. IsFile(both)
  <2>1. \A i \in 1 .. n : records[i] \in Labels!HumanOutcomeRecord
    BY <1>1 DEF IsFile
  <2>2. \A j \in 1 .. n + n : both[j] \in Labels!HumanOutcomeRecord
    BY <1>1, <1>3, <2>1
  <2> QED BY <1>1, <2>2 DEF IsFile
<1>5. /\ \A label : Cardinality(LabelledAs(both, label))
                      = Cardinality(LabelledAs(records, label)) + Cardinality(LabelledAs(records, label))
      /\ Cardinality(Won(both)) = Cardinality(Won(records)) + Cardinality(Won(records))
      /\ Cardinality(Told(both)) = Cardinality(Told(records)) + Cardinality(Told(records))
  <2>1. ASSUME NEW label
        PROVE  Cardinality(LabelledAs(both, label))
                 = Cardinality(LabelledAs(records, label)) + Cardinality(LabelledAs(records, label))
    <3>1. /\ LabelledAs(records, label) \in SUBSET (1 .. n)
          /\ LabelledAs(both, label) \in SUBSET (1 .. n + n)
          /\ \A i \in 1 .. n :
               /\ i \in LabelledAs(both, label) <=> i \in LabelledAs(records, label)
               /\ n + i \in LabelledAs(both, label) <=> i \in LabelledAs(records, label)
      BY <1>1, <1>2 DEF LabelledAs
    <3> QED BY <1>1, <3>1, TwiceAsMany
  <2>2. Cardinality(Won(both)) = Cardinality(Won(records)) + Cardinality(Won(records))
    <3>1. /\ Won(records) \in SUBSET (1 .. n) /\ Won(both) \in SUBSET (1 .. n + n)
          /\ \A i \in 1 .. n : /\ i \in Won(both) <=> i \in Won(records)
                               /\ n + i \in Won(both) <=> i \in Won(records)
      BY <1>1, <1>2 DEF Won
    <3> QED BY <1>1, <3>1, TwiceAsMany
  <2>3. Cardinality(Told(both)) = Cardinality(Told(records)) + Cardinality(Told(records))
    <3>1. /\ Told(records) \in SUBSET (1 .. n) /\ Told(both) \in SUBSET (1 .. n + n)
          /\ \A i \in 1 .. n : /\ i \in Told(both) <=> i \in Told(records)
                               /\ n + i \in Told(both) <=> i \in Told(records)
      BY <1>1, <1>2 DEF Told
    <3> QED BY <1>1, <3>1, TwiceAsMany
  <2> QED BY <2>1, <2>2, <2>3
<1>6. /\ \A label : Cardinality(LabelledAs(records, label)) \in Nat
      /\ Cardinality(Won(records)) \in Nat /\ Cardinality(Told(records)) \in Nat
      /\ \A i \in 1 .. n : CostsOf(records)[i] \in Nat
      /\ Spent(records) \in Nat
  BY <1>1, CountsOfFile DEF n
<1>7. Spent(both) = Spent(records) + Spent(records)
  <2>1. \A i \in 1 .. n : /\ CostsOf(records)[i] \in Int
                          /\ CostsOf(both)[i] = CostsOf(records)[i]
                          /\ CostsOf(both)[n + i] = CostsOf(records)[i]
    BY <1>1, <1>2, <1>6 DEF CostsOf
  <2>2. RunningSum(CostsOf(both), n + n)
          = RunningSum(CostsOf(records), n) + RunningSum(CostsOf(records), n)
    BY <1>1, <2>1, SumOfTwice
  <2> QED BY <1>1, <2>2 DEF Spent, n
<1>8. Unpriced(both) = {} <=> Unpriced(records) = {}
  <2>1. \A i \in 1 .. n : i \in Unpriced(both) <=> i \in Unpriced(records)
    BY <1>1, <1>2 DEF Unpriced
  <2>2. \A i \in 1 .. n : n + i \in Unpriced(both) <=> i \in Unpriced(records)
    BY <1>1, <1>2 DEF Unpriced
  <2>3. Unpriced(both) \subseteq 1 .. n + n /\ Unpriced(records) \subseteq 1 .. n
    BY <1>1 DEF Unpriced
  <2> QED BY <1>3, <2>1, <2>2, <2>3
<1>9. twice.rates = once.rates
  <2>1. /\ once.rates = [label \in Labels!RateLabels |->
                           Labels!Rate(Cardinality(LabelledAs(records, label)), n)]
        /\ twice.rates = [label \in Labels!RateLabels |->
                            Labels!Rate(Cardinality(LabelledAs(both, label)), n + n)]
    BY <1>1, OutcomesAre DEF n
  <2>2. \A label : Labels!Rate(Cardinality(LabelledAs(both, label)), n + n)
                     = Labels!Rate(Cardinality(LabelledAs(records, label)), n)
    BY <1>1, <1>5, <1>6, RateOfTwice
  <2> QED BY <2>1, <2>2
<1> DEFINE won == Cardinality(Won(records))
           told == Cardinality(Told(records))
<1>10. twice.business = once.business
  <2>1. /\ once.business = Labels!Rate(won, told)
        /\ twice.business = Labels!Rate(Cardinality(Won(both)), Cardinality(Told(both)))
    BY OutcomesAre
  <2> QED BY <1>5, <1>6, <2>1, RateOfTwice
<1>11. once.cost = Labels!CostPerSuccess(records) /\ twice.cost = Labels!CostPerSuccess(both)
  BY OutcomesAre
<1> HIDE DEF once, twice
<1>12. /\ Labels!Known(once.cost) <=> won # 0 /\ Unpriced(records) = {}
       /\ Labels!Known(once.cost) => once.cost.num = Spent(records) /\ once.cost.den = won
  BY <1>11, CostIs
<1>13. Labels!Known(twice.cost) =>
         twice.cost.num = Spent(records) + Spent(records) /\ twice.cost.den = won + won
  BY <1>4, <1>5, <1>7, <1>11, CostIs
<1> HIDE DEF won, told
<1>14. Labels!AtMost(once.cost, twice.cost) /\ Labels!AtMost(twice.cost, once.cost)
  <2> SUFFICES ASSUME Labels!Known(once.cost), Labels!Known(twice.cost)
               PROVE  /\ once.cost.num * twice.cost.den <= twice.cost.num * once.cost.den
                      /\ twice.cost.num * once.cost.den <= once.cost.num * twice.cost.den
    BY DEF Labels!AtMost
  <2> DEFINE s == Spent(records)
  <2>1. s \in Nat /\ won \in Nat
    BY <1>6 DEF won
  <2>2. /\ once.cost.num = s /\ once.cost.den = won
        /\ twice.cost.num = s + s /\ twice.cost.den = won + won
    BY <1>12, <1>13
  <2> HIDE DEF s
  <2>3. s * (won + won) = (s + s) * won /\ s * (won + won) \in Int
    BY <2>1
  <2> QED BY <2>2, <2>3
<1> QED BY <1>9, <1>10, <1>14 DEF once, twice, both

(* Whoever labels what, in files of any length: a failure more never makes  *)
(* its side look better, a label or a cost less never makes a success       *)
(* cheaper, and a file that was imported twice says what it said.           *)
THEOREM LabelsNeverFlatter == EvidenceSpec => OutcomesNeverFlatter
<1>1. LabelsInv /\ LabelsInv' /\ [Labels!Next]_files
        => [/\ Labels!FailureNeverHelps /\ Labels!WithheldNeverCheapens
            /\ Labels!RepeatedSaysTheSame]_files
  <2> SUFFICES ASSUME LabelsInv, LabelsInv', Labels!Next
               PROVE  /\ Labels!FailureNeverHelps /\ Labels!WithheldNeverCheapens
                      /\ Labels!RepeatedSaysTheSame
    OBVIOUS
  <2>1. PICK side \in Labels!Sides : StepOn(side)
    BY StepsOnFiles
  <2>2. \A some \in Labels!Sides : IsFile(files[some]) /\ IsFile(files'[some])
    BY DEF LabelsInv
  <2>3. ASSUME NEW some \in Labels!Sides, Labels!Added(some)
        PROVE  /\ Worse(Labels!OutcomeSummary(files'[some]),
                        Labels!OutcomeSummary(files[some]))
               /\ \A other \in Labels!Sides \ {some} : files'[other] = files[other]
    <3>1. Len(files'[some]) > Len(files[some])
      BY <2>3 DEF Labels!Added
    <3>2. Len(files[some]) \in Nat /\ Len(files'[some]) \in Nat
      BY <2>2, CountsOfFile
    <3>3. some = side /\ ~Changed(files[side], files'[side])
      <4>1. CASE some # side
        <5>1. files'[some] = files[some]
          BY <2>1, <4>1 DEF StepOn
        <5> QED BY <3>1, <3>2, <5>1
      <4>2. CASE some = side /\ Changed(files[side], files'[side])
        <5>1. Len(files'[some]) = Len(files[some])
          BY <2>2, <4>2, ChangedFile
        <5> QED BY <3>1, <3>2, <5>1
      <4> QED BY <4>1, <4>2
    <3>4. PICK r \in Labels!HumanOutcomeRecord : files'[some] = Append(files[some], r)
      BY <2>1, <3>3 DEF StepOn
    <3>5. Labels!Last(files'[some]) = r
      <4> DEFINE old == files[some]
      <4>1. IsList(old)
        BY <2>2 DEF IsFile
      <4>2. files'[some] = Append(old, r)
        BY <3>4
      <4> HIDE DEF old
      <4>3. files'[some][Len(files'[some])] = r
        BY <4>1, <4>2, OneMore
      <4> QED BY <4>3, LabelsOperators
    <3>6. r.success = "no" /\ r.label # "accepted"
      BY <2>3, <3>5 DEF Labels!Added
    <3>7. Worse(Labels!OutcomeSummary(files'[some]), Labels!OutcomeSummary(files[some]))
      BY <2>2, <3>4, <3>6, FailureIsWorse
    <3> QED BY <2>1, <3>3, <3>7 DEF StepOn
  <2>4. Labels!FailureNeverHelps
    <3> DEFINE b == Labels!OutcomeSummary(files["baseline"])
               c == Labels!OutcomeSummary(files["candidate"])
               b2 == Labels!OutcomeSummary(files'["baseline"])
               c2 == Labels!OutcomeSummary(files'["candidate"])
               now == Labels!Compared
               next == Labels!OutcomeComparison(files'["baseline"], files'["candidate"])
    <3>1. /\ now.accepted = Labels!Difference(c.rates["accepted"], b.rates["accepted"])
          /\ now.business = Labels!Difference(c.business, b.business)
          /\ now.cost = Labels!Difference(c.cost, b.cost)
      BY DEF Labels!Compared, Labels!OutcomeComparison
    <3>2. /\ next.accepted = Labels!Difference(c2.rates["accepted"], b2.rates["accepted"])
          /\ next.business = Labels!Difference(c2.business, b2.business)
          /\ next.cost = Labels!Difference(c2.cost, b2.cost)
      BY DEF Labels!OutcomeComparison
    <3>3. /\ Quotient(b.rates["accepted"]) /\ Quotient(b.business) /\ Quotient(b.cost)
          /\ Quotient(c.rates["accepted"]) /\ Quotient(c.business) /\ Quotient(c.cost)
          /\ Quotient(b2.rates["accepted"]) /\ Quotient(b2.business) /\ Quotient(b2.cost)
          /\ Quotient(c2.rates["accepted"]) /\ Quotient(c2.business) /\ Quotient(c2.cost)
      BY <2>2, SummaryIs DEF Labels!Sides
    <3>4. Labels!Added("candidate") => Worse(c2, c) /\ b2 = b
      BY <2>3 DEF Labels!Sides
    <3>5. Labels!Added("baseline") => Worse(b2, b) /\ c2 = c
      BY <2>3 DEF Labels!Sides
    <3> HIDE DEF b, c, b2, c2, now, next
    <3>6. ASSUME Labels!Added("candidate")
          PROVE  /\ Labels!AtMost(next.accepted, now.accepted)
                 /\ Labels!AtMost(next.business, now.business)
                 /\ Labels!AtMost(now.cost, next.cost)
                 /\ ~Labels!Appears(now.cost, next.cost)
      <4>1. Worse(c2, c) /\ b2 = b
        BY <3>4, <3>6
      <4>2. /\ Labels!AtMost(next.accepted, now.accepted)
            /\ Labels!AtMost(next.business, now.business)
            /\ Labels!AtMost(now.cost, next.cost)
        BY <3>1, <3>2, <3>3, <4>1, LessOfCandidate DEF Worse
      <4>3. Labels!Known(next.cost) => Labels!Known(now.cost)
        BY <3>1, <3>2, <3>3, <4>1, DifferenceIs DEF Worse
      <4> QED BY <4>2, <4>3 DEF Labels!Appears
    <3>7. ASSUME Labels!Added("baseline")
          PROVE  /\ Labels!AtMost(now.accepted, next.accepted)
                 /\ Labels!AtMost(now.business, next.business)
                 /\ Labels!AtMost(next.cost, now.cost)
                 /\ ~Labels!Appears(now.cost, next.cost)
      <4>1. Worse(b2, b) /\ c2 = c
        BY <3>5, <3>7
      <4>2. /\ Labels!AtMost(now.accepted, next.accepted)
            /\ Labels!AtMost(now.business, next.business)
            /\ Labels!AtMost(next.cost, now.cost)
        BY <3>1, <3>2, <3>3, <4>1, LessOfBaseline DEF Worse
      <4>3. Labels!Known(next.cost) => Labels!Known(now.cost)
        BY <3>1, <3>2, <3>3, <4>1, DifferenceIs DEF Worse
      <4> QED BY <4>2, <4>3 DEF Labels!Appears
    <3> QED BY <3>6, <3>7 DEF Labels!FailureNeverHelps, now, next
  <2>5. Labels!WithheldNeverCheapens
    <3> SUFFICES ASSUME NEW some \in Labels!Sides, files'[some] # files[some],
                        Len(files'[some]) = Len(files[some])
                 PROVE  LET now == Labels!OutcomeSummary(files[some])
                            then == Labels!OutcomeSummary(files'[some])
                        IN  /\ Labels!AtMost(now.cost, then.cost)
                            /\ ~Labels!Appears(now.cost, then.cost)
                            /\ then.rates = now.rates
      BY DEF Labels!WithheldNeverCheapens
    <3>1. some = side
      BY <2>1 DEF StepOn
    <3>2. ASSUME NEW r, files'[some] = Append(files[some], r) PROVE FALSE
      <4>1. Len(files'[some]) = Len(files[some]) + 1 /\ Len(files[some]) \in Nat
        BY <2>2, <3>2, OneMore, CountsOfFile DEF IsFile
      <4> QED BY <4>1
    <3>3. Changed(files[some], files'[some])
      BY <2>1, <3>1, <3>2 DEF StepOn
    <3> QED BY <2>2, <3>3, WithheldIsNoCheaper
  <2>6. Labels!RepeatedSaysTheSame
    BY <2>2, TwiceSaysTheSame DEF Labels!RepeatedSaysTheSame
  <2> QED BY <2>4, <2>5, <2>6
<1> QED BY <1>1, LabelsRun, LabelsInvariant, PTL
  DEF OutcomesNeverFlatter, Labels!OutcomesNeverFlatter
=============================================================================
