-------------------------- MODULE ReplacementProofs --------------------------
(***************************************************************************)
(* What a recommendation found in the stored results, for any suite, any   *)
(* replies and any thresholds.  Sums and percentiles stay opaque: the      *)
(* theorems need the counts only.                                          *)
(***************************************************************************)
EXTENDS Replacement, SumsProofs, FiniteSetTheorems, TLAPS

Summary(m) == ModelSummary(results[m])

(* The shape of the results, while they grow and after.                     *)
Shape ==
  /\ mode \in {"comparison", "cascade"}
  /\ stage \in {"running", "decided"}
  /\ results \in [Models -> Seq(Reply)]
  /\ \A m \in Models : Len(results[m]) <= NCases
  /\ final \in Nat
  /\ final <= Len(results["candidate"])
  /\ mode = "cascade" => Len(results["baseline"]) <= Len(results["candidate"])

(* What Finalize stored is still what the results say.                      *)
Judged ==
  /\ stage = "running" =>
       decision = Undecided /\ failing = [m \in Models |-> {}]
  /\ stage = "decided" =>
       /\ decision = Decide(Summary("baseline"), Summary("candidate"), final)
       /\ failing = [m \in Models |-> FailingConstraints(Summary(m))]

(* The replies of either model are results the program can build.            *)
LEMMA RepliesTyped == \A m \in Models : Replies[m] \subseteq Reply
BY RepliesAssumption

(* A set of positions of a sequence is finite and no larger than it.        *)
LEMMA Positions ==
  ASSUME NEW rs \in Seq(Reply), NEW S \in SUBSET DOMAIN rs
  PROVE  IsFiniteSet(S) /\ Cardinality(S) \in Nat /\ Cardinality(S) <= Len(rs)
<1>1. DOMAIN rs = 1 .. Len(rs) /\ Len(rs) \in Nat
  OBVIOUS
<1>2. IsFiniteSet(1 .. Len(rs)) /\ Cardinality(1 .. Len(rs)) = Len(rs)
  <2> DEFINE n == Len(rs)
  <2>1. /\ IsFiniteSet(1 .. n)
        /\ Cardinality(1 .. n) = IF 1 > n THEN 0 ELSE n - 1 + 1
    BY <1>1, FS_Interval
  <2>2. QED
    BY <1>1, <2>1
<1>3. QED
  BY <1>1, <1>2, FS_Subset, FS_CardinalityType

(* Nothing was executed and nothing was decided at the start.               *)
LEMMA InitShape == Init => Shape /\ Judged
<1>1. << >> \in Seq(Reply) /\ Len(<< >>) = 0
  OBVIOUS
<1>2. QED
  BY <1>1, CasesAssumption DEF Init, Shape, Judged, Models

(* Appending a reply to one of the sequences.                               *)
LEMMA AppendShape ==
  ASSUME NEW rs \in Seq(Reply), NEW r \in Reply
  PROVE  Append(rs, r) \in Seq(Reply) /\ Len(Append(rs, r)) = Len(rs) + 1
OBVIOUS

(* No step makes more results than cases, or parts decision and results.    *)
LEMMA NextShape == Shape /\ Judged /\ [Next]_vars => Shape' /\ Judged'
<1> SUFFICES ASSUME Shape, Judged, [Next]_vars
             PROVE  Shape' /\ Judged'
  OBVIOUS
<1>0. /\ NCases \in Nat
      /\ results["baseline"] \in Seq(Reply)
      /\ results["candidate"] \in Seq(Reply)
      /\ Len(results["baseline"]) \in Nat
      /\ Len(results["candidate"]) \in Nat
  BY CasesAssumption DEF Shape, Models
<1>1. CASE Compare
  <2>0. PICK m \in Models :
          /\ Len(results[m]) < NCases
          /\ \E r \in Replies[m] : results' = [results EXCEPT ![m] = Append(@, r)]
    BY <1>1 DEF Compare, Models
  <2>1. PICK r \in Replies[m] : results' = [results EXCEPT ![m] = Append(@, r)]
    BY <2>0
  <2>2. results'[m] \in Seq(Reply) /\ Len(results'[m]) = Len(results[m]) + 1
    BY <2>1, AppendShape, RepliesTyped DEF Shape
  <2>3. \A o \in Models \ {m} : results'[o] = results[o]
    BY <2>1 DEF Shape
  <2>4. Len(results[m]) \in Nat /\ DOMAIN results' = Models
    BY <2>1 DEF Shape
  <2>5. results' \in [Models -> Seq(Reply)]
    BY <2>1, <2>2, <2>3, <2>4 DEF Shape
  <2>6. \A o \in Models : Len(results'[o]) <= NCases
    BY <1>0, <2>0, <2>2, <2>3, <2>4 DEF Shape
  <2>7. Len(results["candidate"]) <= Len(results'["candidate"])
    BY <1>0, <2>2, <2>3, <2>4 DEF Models
  <2>8. Shape'
    BY <1>0, <1>1, <2>5, <2>6, <2>7, <2>2, <2>3, <2>4 DEF Shape, Compare, Models
  <2>9. QED
    BY <1>1, <2>8 DEF Compare, Judged
<1>2. CASE KeepFirst
  <2>1. PICK r \in Replies["candidate"] :
          /\ results' = [results EXCEPT !["candidate"] = Append(@, r)]
          /\ final' = final + One(r)
    BY <1>2 DEF KeepFirst
  <2>2. /\ results'["candidate"] \in Seq(Reply)
        /\ Len(results'["candidate"]) = Len(results["candidate"]) + 1
        /\ results'["baseline"] = results["baseline"]
    BY <1>0, <2>1, AppendShape, RepliesTyped DEF Shape, Models
  <2>3. results' \in [Models -> Seq(Reply)]
    BY <1>0, <2>1, <2>2 DEF Shape, Models
  <2>4. \A o \in Models : Len(results'[o]) <= NCases
    BY <1>0, <1>2, <2>2 DEF Shape, Models, KeepFirst
  <2>5. final' \in Nat /\ final' <= Len(results'["candidate"])
    BY <1>0, <2>1, <2>2 DEF Shape, One
  <2>6. QED
    BY <1>0, <1>2, <2>2, <2>3, <2>4, <2>5 DEF KeepFirst, Shape, Judged
<1>3. CASE Escalate
  <2>1. PICK r \in Replies["candidate"], e \in Replies["baseline"] :
          /\ results' = [results EXCEPT !["candidate"] = Append(@, r),
                                        !["baseline"] = Append(@, e)]
          /\ final' = final + One(e)
    BY <1>3 DEF Escalate
  <2>2. /\ results'["candidate"] = Append(results["candidate"], r)
        /\ results'["baseline"] = Append(results["baseline"], e)
        /\ DOMAIN results' = Models
    BY <2>1 DEF Shape, Models
  <2>3. /\ results'["candidate"] \in Seq(Reply)
        /\ Len(results'["candidate"]) = Len(results["candidate"]) + 1
        /\ results'["baseline"] \in Seq(Reply)
        /\ Len(results'["baseline"]) = Len(results["baseline"]) + 1
    BY <1>0, <2>2, AppendShape, RepliesTyped DEF Models
  <2>4. results' \in [Models -> Seq(Reply)]
    BY <2>1, <2>2, <2>3 DEF Shape, Models
  <2>5. \A o \in Models : Len(results'[o]) <= NCases
    BY <1>0, <1>3, <2>3 DEF Shape, Models, Escalate
  <2>6. final' \in Nat /\ final' <= Len(results'["candidate"])
    BY <1>0, <2>1, <2>3 DEF Shape, One
  <2>7. Shape'
    <3>1. mode' = mode /\ stage' = stage
      BY <1>3 DEF Escalate
    <3>2. Len(results'["baseline"]) <= Len(results'["candidate"])
      BY <1>0, <1>3, <2>3 DEF Escalate, Shape
    <3>3. QED
      BY <2>4, <2>5, <2>6, <3>1, <3>2 DEF Shape
  <2>8. QED
    BY <1>3, <2>7 DEF Escalate, Judged
<1>4. CASE Finalize
  <2>1. Shape'
    BY <1>4 DEF Finalize, Shape
  <2>2. /\ failing' = [m \in Models |-> FailingConstraints(Summary(m))']
        /\ decision' = Decide(Summary("baseline"), Summary("candidate"), final)
    BY <1>4 DEF Finalize, Summary, Models
  <2>3. Judged'
    BY <1>4, <2>2 DEF Finalize, Judged, Summary, Decide, CascadeRecovers
  <2>4. QED
    BY <2>1, <2>3
<1>5. CASE Decided \/ UNCHANGED vars
  <2>1. UNCHANGED vars
    BY <1>5 DEF Decided
  <2>2. Shape'
    BY <2>1 DEF vars, Shape
  <2>3. Judged'
    BY <2>1 DEF vars, Judged, Summary, Decide, CascadeRecovers
  <2>4. QED
    BY <2>2, <2>3
<1>6. QED
  BY <1>1, <1>2, <1>3, <1>4, <1>5 DEF Next

(* The inductive invariant: as many results as the stage needs, and a      *)
(* decision that is still the one the stored results give.                  *)
LEMMA Invariance == Spec => [](Shape /\ Judged)
  BY InitShape, NextShape, PTL DEF Spec

-----------------------------------------------------------------------------
(* Only configured constraints fail.                                        *)
LEMMA ConstraintNames ==
  ASSUME NEW s PROVE FailingConstraints(s) \subseteq DOMAIN Constraints
BY ThresholdsAssumption DEF FailingConstraints

(* Whatever the evidence, the ladder of decide_replacement reaches a rung.  *)
LEMMA DecisionType ==
  ASSUME NEW b, NEW c, NEW n
  PROVE  Decide(b, c, n) \in [eligible : BOOLEAN, recommendation : Recommendations]
BY DEF Decide, Recommendations

(* Every variable has its type, for any suite, replies and thresholds.      *)
THEOREM TypeCorrect == Spec => []TypeOK
<1>1. ASSUME Shape, Judged PROVE TypeOK
  <2>1. final \in 0 .. NCases
    BY <1>1, CasesAssumption DEF Shape, Models
  <2>2. failing \in [Models -> SUBSET DOMAIN Constraints]
    BY <1>1, ConstraintNames DEF Shape, Judged
  <2>3. decision \in [eligible : BOOLEAN, recommendation : Recommendations]
    <3>1. Undecided \in [eligible : BOOLEAN, recommendation : Recommendations]
      BY DEF Undecided, Recommendations
    <3>2. decision = Undecided
          \/ decision = Decide(Summary("baseline"), Summary("candidate"), final)
      BY <1>1 DEF Shape, Judged
    <3>3. QED
      BY <3>1, <3>2, DecisionType
  <2>4. QED
    BY <1>1, <2>1, <2>2, <2>3 DEF Shape, TypeOK
<1>2. QED
  BY <1>1, Invariance, PTL

(* The evidence of one evaluator: it was seen when something was counted,   *)
(* and when as many passed as were seen, nothing failed.                    *)
LEMMA PolicyCounts ==
  ASSUME NEW rs \in Seq(Reply)
  PROVE  LET s == ModelSummary(rs) IN
         /\ PolicyEvaluated(s) <=> Seen(rs, "policy") # {}
         /\ ~PolicyEvaluated(s) \/ PolicyPass(s) =>
              Seen(rs, "policy") = Passing(rs, "policy")
<1> DEFINE seen == Seen(rs, "policy") passing == Passing(rs, "policy")
<1>1. seen \subseteq DOMAIN rs /\ passing \subseteq seen
  BY DEF Seen, Passing
<1>2. IsFiniteSet(seen) /\ Cardinality(seen) \in Nat
  BY <1>1, Positions
<1>3. Cardinality(seen) = 0 <=> seen = {}
  BY <1>2, FS_EmptySet
<1>4. Cardinality(passing) >= Cardinality(seen) => passing = seen
  <2>1. IsFiniteSet(passing) /\ Cardinality(passing) \in Nat
    BY <1>1, Positions
  <2>2. /\ Cardinality(passing) <= Cardinality(seen)
        /\ Cardinality(passing) = Cardinality(seen) => passing = seen
    BY <1>1, <1>2, FS_Subset
  <2>3. QED
    BY <1>2, <2>1, <2>2
<1>5. /\ ModelSummary(rs).seen["policy"] = Cardinality(seen)
      /\ ModelSummary(rs).passed["policy"] = Cardinality(passing)
  BY DEF ModelSummary
<1>6. /\ PolicyEvaluated(ModelSummary(rs)) <=> seen # {}
      /\ PolicyPass(ModelSummary(rs)) => passing = seen
  <2>1. PolicyEvaluated(ModelSummary(rs)) <=> Cardinality(seen) > 0
    BY <1>5 DEF PolicyEvaluated
  <2>2. PolicyPass(ModelSummary(rs)) => Cardinality(passing) >= Cardinality(seen)
    BY <1>5 DEF PolicyPass
  <2>3. QED
    BY <1>2, <1>3, <1>4, <2>1, <2>2
<1>7. seen = {} => passing = seen
  BY <1>1
<1>8. QED
  BY <1>6, <1>7

(* A known total means that something was executed, at a known cost.        *)
LEMMA KnownCost ==
  ASSUME NEW rs, ModelSummary(rs).cost # Unknown
  PROVE  /\ Executed(rs) # {}
         /\ \A i \in Executed(rs) : rs[i].cost # Unknown
BY DEF ModelSummary, TotalCost

(* The cost gate is passed on two known costs.                              *)
LEMMA RatioNeedsCosts ==
  ASSUME NEW b, NEW c, CostOk(b, c)
  PROVE  b.cost # Unknown /\ c.cost # Unknown
BY DEF CostOk, CostReduction, NoRatio, CostPerSuccessKnown

(* A recommendation found its evidence in the stored results.               *)
THEOREM RecommendationsAreEarned == Spec => []RecommendedOnEvidence
<1>1. ASSUME Shape, Judged PROVE RecommendedOnEvidence
  <2> DEFINE b == Summary("baseline") c == Summary("candidate")
  <2>0. /\ Candidate \in Seq(Reply)
        /\ c = ModelSummary(Candidate)
        /\ b = ModelSummary(Baseline)
    BY <1>1 DEF Shape, Models, Candidate, Baseline, Summary
  <2>1. CASE stage = "running"
    BY <1>1, <2>1 DEF Judged, Undecided, RecommendedOnEvidence
  <2>2. CASE stage = "decided"
    <3>1. /\ decision = Decide(b, c, final)
          /\ failing["candidate"] = FailingConstraints(c)
      BY <1>1, <2>2 DEF Judged, Models
    <3>2. ASSUME decision.eligible
          PROVE  /\ Len(Candidate) >= MinimumSample
                 /\ \A i \in DOMAIN Candidate : Candidate[i].policy # "fail"
                 /\ failing["candidate"] = {}
                 /\ DeploymentCompatible
      <4>1. ~TooLittleEvidence(c) /\ ~GateFailed(b, c)
        BY <3>1, <3>2 DEF Decide
      <4>2. c.sufficient
        BY <4>1 DEF TooLittleEvidence
      <4>3. Len(Candidate) >= MinimumSample
        <5>1. ModelSummary(Candidate).sufficient = (Len(Candidate) >= MinimumSample)
          BY DEF ModelSummary
        <5>2. QED
          BY <2>0, <4>2, <5>1
      <4>4. ~PolicyEvaluated(c) \/ PolicyPass(c)
        BY <4>1 DEF GateFailed
      <4>5. Seen(Candidate, "policy") = Passing(Candidate, "policy")
        BY <2>0, <4>4, PolicyCounts
      <4>6. \A i \in DOMAIN Candidate : Candidate[i].policy # "fail"
        BY <4>5 DEF Seen, Passing
      <4>7. QED
        BY <3>1, <4>1, <4>3, <4>6 DEF GateFailed
    <3>3. ASSUME decision.recommendation = "recommended"
          PROVE  /\ \E i \in DOMAIN Candidate : Candidate[i].policy = "pass"
                 /\ \A m \in Models :
                      /\ Executed(results[m]) # {}
                      /\ \A i \in Executed(results[m]) : results[m][i].cost # Unknown
      <4>1. /\ ~GateFailed(b, c)
            /\ CostOk(b, c)
            /\ PolicyEvaluated(c)
        BY <3>1, <3>3 DEF Decide
      <4>2. Seen(Candidate, "policy") = Passing(Candidate, "policy")
            /\ Seen(Candidate, "policy") # {}
        BY <2>0, <4>1, PolicyCounts DEF GateFailed
      <4>3. \E i \in DOMAIN Candidate : Candidate[i].policy = "pass"
        BY <4>2 DEF Seen, Passing
      <4>4. b.cost # Unknown /\ c.cost # Unknown
        BY <4>1, RatioNeedsCosts
      <4>5. \A m \in Models : ModelSummary(results[m]).cost # Unknown
        BY <4>4 DEF Models, Summary
      <4>6. QED
        BY <4>3, <4>5, KnownCost
    <3>4. QED
      BY <3>2, <3>3 DEF RecommendedOnEvidence
  <2>3. QED
    BY <1>1, <2>1, <2>2 DEF Shape
<1>2. QED
  BY <1>1, Invariance, PTL

(* A first stage is covered by the cascade it was measured in.              *)
THEOREM FirstStagesAreCovered == Spec => []FirstStageIsCovered
<1>1. ASSUME Shape, Judged, decision.recommendation = "first stage"
      PROVE  /\ mode = "cascade"
             /\ Len(Candidate) >= MinimumSample
             /\ \E i \in DOMAIN Candidate : Candidate[i].policy = "pass"
             /\ \A i \in DOMAIN Candidate : Candidate[i].policy # "fail"
             /\ 100 * final >= MinimumReliability * NCases
             /\ NCases * Cardinality(WithStatus(Baseline, "success")) <= final * Len(Baseline)
             /\ DeploymentCompatible
  <2> DEFINE b == Summary("baseline") c == Summary("candidate")
             won == WithStatus(Baseline, "success")
  <2>1. /\ Candidate \in Seq(Reply) /\ Baseline \in Seq(Reply)
        /\ c = ModelSummary(Candidate)
        /\ b = ModelSummary(Baseline)
    BY <1>1 DEF Shape, Models, Candidate, Baseline, Summary
  <2>2. decision = Decide(b, c, final)
    <3>1. stage # "running"
      <4>1. stage = "running" => decision = Undecided
        BY <1>1 DEF Judged
      <4>2. Undecided.recommendation = "none"
        BY DEF Undecided
      <4>3. QED
        BY <1>1, <4>1, <4>2
    <3>2. QED
      BY <1>1, <3>1 DEF Shape, Judged
  <2>3. ~TooLittleEvidence(c) /\ CascadeRecovers(b, c, final)
    BY <1>1, <2>2 DEF Decide
  <2>4. /\ mode = "cascade"
        /\ final * Positive(b.total) >= b.successful * NCases
        /\ AtLeast(final, NCases, MinimumReliability)
        /\ PolicyEvaluated(c) /\ PolicyPass(c)
        /\ DeploymentCompatible
    BY <2>3 DEF CascadeRecovers, PolicyPass
  <2>5. Len(Candidate) >= MinimumSample
    <3>1. ModelSummary(Candidate).sufficient = (Len(Candidate) >= MinimumSample)
      BY DEF ModelSummary
    <3>2. QED
      BY <2>1, <2>3, <3>1 DEF TooLittleEvidence
  <2>6. /\ Seen(Candidate, "policy") # {}
        /\ Seen(Candidate, "policy") = Passing(Candidate, "policy")
    BY <2>1, <2>4, PolicyCounts
  <2>7. /\ \E i \in DOMAIN Candidate : Candidate[i].policy = "pass"
        /\ \A i \in DOMAIN Candidate : Candidate[i].policy # "fail"
    BY <2>6 DEF Seen, Passing
  <2>8. 100 * final >= MinimumReliability * NCases
    BY <2>4, CasesAssumption DEF AtLeast, Positive
  <2>9. NCases * Cardinality(won) <= final * Len(Baseline)
    <3>1. won \subseteq DOMAIN Baseline
      BY DEF WithStatus
    <3>2. Cardinality(won) \in Nat /\ Cardinality(won) <= Len(Baseline)
      BY <2>1, <3>1, Positions
    <3>3. /\ b.total = Len(Baseline)
          /\ b.successful = Cardinality(won)
      BY <2>1 DEF ModelSummary
    <3>4. Len(Baseline) \in Nat /\ final \in Nat /\ NCases \in Nat
      <4>1. final \in Nat
        BY <1>1 DEF Shape
      <4>2. NCases \in Nat
        BY CasesAssumption
      <4>3. QED
        BY <2>1, <4>1, <4>2
    <3>5. CASE Len(Baseline) = 0
      BY <3>2, <3>4, <3>5
    <3>6. CASE Len(Baseline) # 0
      BY <2>4, <3>2, <3>3, <3>4, <3>6 DEF Positive
    <3>7. QED
      BY <3>5, <3>6
  <2>10. QED
    BY <2>4, <2>5, <2>7, <2>8, <2>9
<1>2. Shape /\ Judged => FirstStageIsCovered
  BY <1>1 DEF FirstStageIsCovered
<1>3. QED
  BY <1>2, Invariance, PTL

-----------------------------------------------------------------------------
(* A right answer in the place of a failed one.                             *)
Measured(s) ==
  /\ s.total \in Nat /\ s.executed \in Nat /\ s.errors \in Nat /\ s.timeouts \in Nat
  /\ s.successful \in Nat /\ s.quality \in Nat /\ s.cost \in Nat \cup {Unknown}
  /\ \A e \in {"policy", "json", "tool"} : s.seen[e] \in Nat /\ s.passed[e] \in Nat

(* t says of a model what s says, and of its answers something better.      *)
AsGood(s, t) ==
  /\ t.total = s.total /\ t.executed = s.executed
  /\ t.errors = s.errors /\ t.timeouts = s.timeouts
  /\ t.cost = s.cost /\ t.p95 = s.p95 /\ t.sufficient = s.sufficient
  /\ s.successful <= t.successful /\ s.quality <= t.quality
  /\ \A e \in {"policy", "json", "tool"} :
       t.seen[e] = s.seen[e] /\ s.passed[e] <= t.passed[e]

(* The numbers of a result. *)
LEMMA ReplyNumbers ==
  ASSUME NEW r \in Reply
  PROVE  r.quality \in Nat /\ r.quality \in Int /\ r.cost \in Nat \cup {Unknown}
BY DEF Reply

(* What the calls in S add to a sum, and the others do not. *)
Taken(rs, name, S) == [i \in DOMAIN rs |-> IF i \in S THEN rs[i][name] ELSE 0]

(* A sum over the executed calls is the sum of as many numbers.             *)
LEMMA SumOnIs ==
  ASSUME NEW rs \in Seq(Reply), NEW S, NEW name
  PROVE  SumOn(Field(rs, name), S) =
           RunningSum(Taken(rs, name, S), Len(rs))
<1> DEFINE f == Field(rs, name)
<1>1. DOMAIN f = DOMAIN rs /\ DOMAIN rs = 1 .. Len(rs) /\ Len(rs) \in Nat
  BY DEF Field
<1>2. Len(f) = Len(rs)
  BY <1>1
<1>3. [i \in DOMAIN f |-> IF i \in S THEN f[i] ELSE 0] =
        Taken(rs, name, S)
  BY <1>1 DEF Field, Taken
<1> QED BY <1>2, <1>3 DEF SumOn

(* What a summary counts are numbers. *)
LEMMA SummaryIsMeasured ==
  ASSUME NEW rs \in Seq(Reply)
  PROVE  Measured(ModelSummary(rs))
<1> DEFINE s == ModelSummary(rs)
<1>0. DOMAIN rs = 1 .. Len(rs) /\ Len(rs) \in Nat /\ \A i \in 1 .. Len(rs) : rs[i] \in Reply
  OBVIOUS
<1>1. /\ WithStatus(rs, "success") \in SUBSET DOMAIN rs
      /\ WithStatus(rs, "error") \in SUBSET DOMAIN rs
      /\ WithStatus(rs, "timeout") \in SUBSET DOMAIN rs
      /\ Executed(rs) \in SUBSET DOMAIN rs
      /\ \A e : Seen(rs, e) \in SUBSET DOMAIN rs /\ Passing(rs, e) \in SUBSET DOMAIN rs
  BY DEF WithStatus, Executed, Seen, Passing
<1>2. /\ Cardinality(WithStatus(rs, "success")) \in Nat
      /\ Cardinality(WithStatus(rs, "error")) \in Nat
      /\ Cardinality(WithStatus(rs, "timeout")) \in Nat
      /\ Cardinality(Executed(rs)) \in Nat
      /\ \A e : Cardinality(Seen(rs, e)) \in Nat /\ Cardinality(Passing(rs, e)) \in Nat
  BY <1>1, Positions
<1>3. SumOn(Field(rs, "quality"), Executed(rs)) \in Nat
  <2> DEFINE g == Taken(rs, "quality", Executed(rs))
  <2>1. \A i \in 1 .. Len(rs) : g[i] \in Nat
    <3> TAKE i \in 1 .. Len(rs)
    <3>1. rs[i].quality \in Nat
      BY <1>0, ReplyNumbers
    <3> QED BY <1>0, <3>1 DEF Taken
  <2> HIDE DEF g
  <2>2. RunningSum(g, Len(rs)) \in Nat
    BY <1>0, <2>1, SumNat
  <2> QED BY <2>2, SumOnIs DEF g
<1>4. TotalCost(rs) \in Nat \cup {Unknown}
  <2> SUFFICES ASSUME TotalCost(rs) # Unknown PROVE TotalCost(rs) \in Nat
    OBVIOUS
  <2>1. /\ TotalCost(rs) = SumOn(Field(rs, "cost"), Executed(rs))
        /\ \A i \in Executed(rs) : rs[i].cost # Unknown
    BY DEF TotalCost
  <2> DEFINE g == Taken(rs, "cost", Executed(rs))
  <2>2. \A i \in 1 .. Len(rs) : g[i] \in Nat
    <3> TAKE i \in 1 .. Len(rs)
    <3>1. i \in Executed(rs) => rs[i].cost \in Nat
      BY <1>0, <2>1, ReplyNumbers
    <3> QED BY <1>0, <3>1 DEF Taken
  <2> HIDE DEF g
  <2>3. RunningSum(g, Len(rs)) \in Nat
    BY <1>0, <2>2, SumNat
  <2> QED BY <2>1, <2>3, SumOnIs DEF g
<1> QED BY <1>0, <1>2, <1>3, <1>4 DEF ModelSummary, Measured

(* Correcting a result leaves every gate of the summary as it was, or       *)
(* nearer to passing.                                                       *)
LEMMA CorrectionIsAsGood ==
  ASSUME NEW rs \in Seq(Reply), NEW i \in DOMAIN rs, NEW r \in Reply,
         Corrects(rs[i], r), NEW qs, qs = [rs EXCEPT ![i] = r]
  PROVE  qs \in Seq(Reply) /\ AsGood(ModelSummary(rs), ModelSummary(qs))
<1>0. /\ DOMAIN rs = 1 .. Len(rs) /\ Len(rs) \in Nat
      /\ qs \in Seq(Reply) /\ DOMAIN qs = DOMAIN rs /\ Len(qs) = Len(rs)
      /\ qs[i] = r /\ \A j \in DOMAIN rs : j # i => qs[j] = rs[j]
  OBVIOUS
<1>1. /\ rs[i].status = "failed" /\ r.status = "success"
      /\ rs[i].quality <= r.quality
      /\ rs[i].latency = r.latency /\ rs[i].cost = r.cost
  BY DEF Corrects
<1>2. /\ WithStatus(qs, "error") = WithStatus(rs, "error")
      /\ WithStatus(qs, "timeout") = WithStatus(rs, "timeout")
      /\ Executed(qs) = Executed(rs)
      /\ WithStatus(rs, "success") \subseteq WithStatus(qs, "success")
  BY <1>0, <1>1 DEF WithStatus, Executed, Graded
<1>3. ASSUME NEW e \in {"policy", "json", "tool"}
      PROVE  Seen(qs, e) = Seen(rs, e) /\ Passing(rs, e) \subseteq Passing(qs, e)
  <2>1. rs[i][e] # r[e] => rs[i][e] = "fail" /\ r[e] = "pass"
    BY DEF Corrects
  <2> QED BY <1>0, <2>1 DEF Seen, Passing
<1>4. Field(qs, "latency") = Field(rs, "latency") /\ Field(qs, "cost") = Field(rs, "cost")
  BY <1>0, <1>1 DEF Field
<1>5. TotalCost(qs) = TotalCost(rs)
  <2>1. \A j \in Executed(rs) : qs[j].cost = rs[j].cost
    BY <1>0, <1>1 DEF Executed
  <2> QED BY <1>2, <1>4, <2>1 DEF TotalCost
<1>6. SumOn(Field(rs, "quality"), Executed(rs)) <= SumOn(Field(qs, "quality"), Executed(qs))
  <2> DEFINE f == Taken(rs, "quality", Executed(rs))
             g == Taken(qs, "quality", Executed(qs))
  <2>1. \A j \in 1 .. Len(rs) : f[j] \in Int /\ g[j] \in Int /\ f[j] <= g[j]
    <3> TAKE j \in 1 .. Len(rs)
    <3>1. rs[j] \in Reply /\ qs[j] \in Reply
      BY <1>0
    <3>2. rs[j].quality \in Int /\ qs[j].quality \in Int
      BY <3>1, ReplyNumbers
    <3>3. rs[j].quality <= qs[j].quality
      BY <1>0, <1>1, <3>2
    <3> QED BY <1>0, <1>2, <3>2, <3>3 DEF Taken
  <2> HIDE DEF f, g
  <2>2. RunningSum(f, Len(rs)) <= RunningSum(g, Len(rs))
    BY <1>0, <2>1, SumOfLess
  <2>3. SumOn(Field(rs, "quality"), Executed(rs)) = RunningSum(f, Len(rs))
    BY SumOnIs DEF f
  <2>4. SumOn(Field(qs, "quality"), Executed(qs)) = RunningSum(g, Len(qs))
    BY <1>0, SumOnIs DEF g
  <2> QED BY <1>0, <2>2, <2>3, <2>4
<1>7. Cardinality(WithStatus(rs, "success")) <= Cardinality(WithStatus(qs, "success"))
  <2>1. WithStatus(qs, "success") \in SUBSET DOMAIN qs
    BY DEF WithStatus
  <2> QED BY <1>0, <1>2, <2>1, Positions, FS_Subset
<1>8. ASSUME NEW e \in {"policy", "json", "tool"}
      PROVE  Cardinality(Passing(rs, e)) <= Cardinality(Passing(qs, e))
  <2>1. Passing(qs, e) \in SUBSET DOMAIN qs
    BY DEF Passing
  <2> QED BY <1>0, <1>3, <2>1, Positions, FS_Subset
<1> QED BY <1>0, <1>2, <1>3, <1>4, <1>5, <1>6, <1>7, <1>8 DEF ModelSummary, AsGood

(* More of as many is a share at least as high. *)
LEMMA AtLeastMore ==
  ASSUME NEW n \in Nat, NEW m \in Nat, n <= m, NEW den \in Nat, NEW percent \in Int,
         AtLeast(n, den, percent)
  PROVE  AtLeast(m, den, percent)
<1>1. Positive(den) \in Nat /\ percent * Positive(den) \in Int
  BY DEF Positive
<1> QED BY <1>1 DEF AtLeast

(* Nothing fails when every check passes. *)
LEMMA NoneFails ==
  ASSUME NEW passes,
         DOMAIN passes =
           {"minimum_success_rate", "maximum_p95_latency_ms",
            "maximum_cost_per_success_usd", "require_valid_json_rate",
            "require_policy_pass", "minimum_tool_accuracy", "maximum_timeout_rate"}
  PROVE  {c \in DOMAIN passes : ~passes[c]} = {} <=>
           /\ passes.minimum_success_rate /\ passes.maximum_p95_latency_ms
           /\ passes.maximum_cost_per_success_usd /\ passes.require_valid_json_rate
           /\ passes.require_policy_pass /\ passes.minimum_tool_accuracy
           /\ passes.maximum_timeout_rate
<1>1. {c \in DOMAIN passes : ~passes[c]} = {} <=> \A c \in DOMAIN passes : passes[c]
  OBVIOUS
<1> QED BY <1>1

(* No constraint of the suite turns against a better answer. *)
LEMMA ConstraintsStayMet ==
  ASSUME NEW s, NEW t, Measured(s), Measured(t), AsGood(s, t),
         FailingConstraints(s) = {}
  PROVE  FailingConstraints(t) = {}
<1> DEFINE C == Constraints
<1>0. /\ s.total \in Nat /\ s.successful \in Nat /\ t.successful \in Nat
      /\ s.successful <= t.successful /\ t.total = s.total
      /\ t.timeouts = s.timeouts /\ t.p95 = s.p95 /\ t.cost = s.cost
      /\ s.cost \in Nat \cup {Unknown}
      /\ \A e \in {"policy", "json", "tool"} :
           /\ t.seen[e] = s.seen[e] /\ s.passed[e] <= t.passed[e]
           /\ s.seen[e] \in Nat /\ s.passed[e] \in Nat /\ t.passed[e] \in Nat
  BY DEF Measured, AsGood
<1>1. /\ C.minimum_success_rate \in Int
      /\ C.maximum_cost_per_success_usd \in Nat \cup {NotSet}
      /\ C.require_valid_json_rate \in Int /\ C.minimum_tool_accuracy \in Int
  BY ThresholdsAssumption DEF NotSet
<1> DEFINE Rate(u, e, minimum) ==
             u.seen[e] > 0 /\ AtLeast(u.passed[e], u.seen[e], minimum)
<1>2. ASSUME NEW e \in {"policy", "json", "tool"}, NEW minimum \in Int, Rate(s, e, minimum)
      PROVE  Rate(t, e, minimum)
  BY <1>0, <1>2, AtLeastMore
<1>3. AtLeast(s.successful, s.total, C.minimum_success_rate) =>
        AtLeast(t.successful, t.total, C.minimum_success_rate)
  BY <1>0, <1>1, AtLeastMore
<1>4. ASSUME C.maximum_cost_per_success_usd # NotSet, CostPerSuccessKnown(s),
             s.cost <= C.maximum_cost_per_success_usd * s.successful
      PROVE  CostPerSuccessKnown(t)
             /\ t.cost <= C.maximum_cost_per_success_usd * t.successful
  <2>1. CostPerSuccessKnown(t)
    BY <1>0, <1>4 DEF CostPerSuccessKnown
  <2>2. C.maximum_cost_per_success_usd \in Nat /\ s.cost \in Nat
    BY <1>0, <1>1, <1>4 DEF CostPerSuccessKnown
  <2>3. C.maximum_cost_per_success_usd * s.successful <=
          C.maximum_cost_per_success_usd * t.successful
    BY <1>0, <2>2
  <2> QED BY <1>0, <1>4, <2>1, <2>2, <2>3
<1> HIDE DEF C, Rate
<1>5. ASSUME NEW u
      PROVE  FailingConstraints(u) = {} <=>
               /\ AtLeast(u.successful, u.total, C.minimum_success_rate)
               /\ C.maximum_p95_latency_ms # NotSet =>
                    u.p95 <= 100 * C.maximum_p95_latency_ms
               /\ C.maximum_cost_per_success_usd # NotSet =>
                    /\ CostPerSuccessKnown(u)
                    /\ u.cost <= C.maximum_cost_per_success_usd * u.successful
               /\ C.require_valid_json_rate # NotSet =>
                    Rate(u, "json", C.require_valid_json_rate)
               /\ C.require_policy_pass => Rate(u, "policy", 100)
               /\ C.minimum_tool_accuracy # NotSet /\ u.seen["tool"] > 0 =>
                    Rate(u, "tool", C.minimum_tool_accuracy)
               /\ C.maximum_timeout_rate # NotSet =>
                    100 * u.timeouts <= C.maximum_timeout_rate * Positive(u.total)
  <2> DEFINE
        c1 == AtLeast(u.successful, u.total, C.minimum_success_rate)
        c2 == C.maximum_p95_latency_ms # NotSet => u.p95 <= 100 * C.maximum_p95_latency_ms
        c3 == C.maximum_cost_per_success_usd # NotSet =>
                /\ CostPerSuccessKnown(u)
                /\ u.cost <= C.maximum_cost_per_success_usd * u.successful
        c4 == C.require_valid_json_rate # NotSet => Rate(u, "json", C.require_valid_json_rate)
        c5 == C.require_policy_pass => Rate(u, "policy", 100)
        c6 == C.minimum_tool_accuracy # NotSet /\ u.seen["tool"] > 0 =>
                Rate(u, "tool", C.minimum_tool_accuracy)
        c7 == C.maximum_timeout_rate # NotSet =>
                100 * u.timeouts <= C.maximum_timeout_rate * Positive(u.total)
        passes == [minimum_success_rate |-> c1, maximum_p95_latency_ms |-> c2,
                   maximum_cost_per_success_usd |-> c3, require_valid_json_rate |-> c4,
                   require_policy_pass |-> c5, minimum_tool_accuracy |-> c6,
                   maximum_timeout_rate |-> c7]
  <2>1. FailingConstraints(u) = {c \in DOMAIN passes : ~passes[c]}
    BY DEF FailingConstraints, C, Rate
  <2>2. /\ c1 \in BOOLEAN /\ c2 \in BOOLEAN /\ c3 \in BOOLEAN /\ c4 \in BOOLEAN
        /\ c5 \in BOOLEAN /\ c6 \in BOOLEAN /\ c7 \in BOOLEAN
    BY DEF AtLeast
  <2> HIDE DEF c1, c2, c3, c4, c5, c6, c7
  <2>3. /\ passes.minimum_success_rate <=> c1
        /\ passes.maximum_p95_latency_ms <=> c2
        /\ passes.maximum_cost_per_success_usd <=> c3
        /\ passes.require_valid_json_rate <=> c4
        /\ passes.require_policy_pass <=> c5
        /\ passes.minimum_tool_accuracy <=> c6
        /\ passes.maximum_timeout_rate <=> c7
    BY <2>2
  <2>4. DOMAIN passes =
           {"minimum_success_rate", "maximum_p95_latency_ms",
            "maximum_cost_per_success_usd", "require_valid_json_rate",
            "require_policy_pass", "minimum_tool_accuracy", "maximum_timeout_rate"}
    OBVIOUS
  <2> HIDE DEF passes
  <2>5. FailingConstraints(u) = {} <=> c1 /\ c2 /\ c3 /\ c4 /\ c5 /\ c6 /\ c7
    BY <2>1, <2>3, <2>4, NoneFails
  <2> QED BY <2>5 DEF c1, c2, c3, c4, c5, c6, c7
<1> QED BY <1>0, <1>1, <1>2, <1>3, <1>4, <1>5

(* A mean over as many calls, and a rate over as many results, that is      *)
(* higher has dropped by less.                                              *)
LEMMA LessOfADrop ==
  ASSUME NEW low \in Nat, NEW high \in Nat, low <= high, NEW n \in Nat
  PROVE  low * n <= high * n
OBVIOUS

(* What decide_replacement asks of the candidate, a better one gives ...    *)
LEMMA BetterCandidatePasses ==
  ASSUME NEW b, NEW c, NEW d, Measured(b), Measured(c), Measured(d), AsGood(c, d),
         ~TooLittleEvidence(c), ~GateFailed(b, c)
  PROVE  ~TooLittleEvidence(d) /\ ~GateFailed(b, d)
<1>0. /\ c.total \in Nat /\ c.executed \in Nat /\ c.quality \in Nat /\ d.quality \in Nat
      /\ c.successful \in Nat /\ d.successful \in Nat
      /\ c.successful <= d.successful /\ c.quality <= d.quality
      /\ d.total = c.total /\ d.executed = c.executed /\ d.p95 = c.p95
      /\ b.total \in Nat /\ b.executed \in Nat /\ b.quality \in Nat /\ b.successful \in Nat
  BY DEF Measured, AsGood
<1>1. ~TooLittleEvidence(d)
  BY DEF TooLittleEvidence, AsGood, Measured
<1>2. Positive(b.executed) \in Nat /\ Positive(c.executed) \in Nat
      /\ Positive(b.total) \in Nat /\ Positive(c.total) \in Nat
  BY <1>0 DEF Positive
<1>3. ~QualityDropped(b, d)
  <2> DEFINE bn == Positive(b.executed)
             cn == Positive(c.executed)
             limit == MaximumQualityDrop * bn * cn
  <2>1. limit \in Nat /\ b.quality * cn \in Nat /\ c.quality * bn \in Nat
        /\ d.quality * bn \in Nat
    BY <1>0, <1>2, ThresholdsAssumption
  <2>2. ~(b.quality * cn - c.quality * bn > limit)
    BY DEF GateFailed, QualityDropped
  <2>3. c.quality * bn <= d.quality * bn
    BY <1>0, <1>2, LessOfADrop
  <2> HIDE DEF limit, bn, cn
  <2>4. ~(b.quality * cn - d.quality * bn > limit)
    BY <2>1, <2>2, <2>3
  <2> QED BY <1>0, <2>4 DEF QualityDropped, limit, bn, cn
<1>4. ~SuccessRateDropped(b, d)
  <2> DEFINE bn == Positive(b.total)
             cn == Positive(c.total)
             limit == MaximumQualityDrop * bn * cn
  <2>1. limit \in Nat /\ b.successful * cn \in Nat /\ c.successful * bn \in Nat
        /\ d.successful * bn \in Nat
    BY <1>0, <1>2, ThresholdsAssumption
  <2>2. ~(100 * (b.successful * cn - c.successful * bn) > limit)
    BY DEF GateFailed, SuccessRateDropped
  <2>3. c.successful * bn <= d.successful * bn
    BY <1>0, <1>2, LessOfADrop
  <2> HIDE DEF limit, bn, cn
  <2>4. ~(100 * (b.successful * cn - d.successful * bn) > limit)
    BY <2>1, <2>2, <2>3
  <2> QED BY <1>0, <2>4 DEF SuccessRateDropped, limit, bn, cn
<1>5. MinimumReliability # NotSet => AtLeast(d.successful, d.total, MinimumReliability)
  BY <1>0, ThresholdsAssumption, AtLeastMore DEF GateFailed, NotSet
<1>6. PolicyEvaluated(d) => PolicyPass(d)
  BY DEF GateFailed, PolicyEvaluated, PolicyPass, AsGood, Measured
<1>7. FailingConstraints(d) = {}
  BY ConstraintsStayMet DEF GateFailed
<1>8. DeploymentCompatible /\ ~(MaximumLatency # NotSet /\ d.p95 > 100 * MaximumLatency)
  BY <1>0 DEF GateFailed
<1> QED BY <1>1, <1>3, <1>4, <1>5, <1>6, <1>7, <1>8 DEF GateFailed

(* ... and a better baseline does not make the candidate pass.              *)
LEMMA BetterBaselineAsksMore ==
  ASSUME NEW b, NEW a, NEW c, Measured(b), Measured(a), Measured(c), AsGood(b, a),
         ~GateFailed(a, c)
  PROVE  ~GateFailed(b, c)
<1>0. /\ c.total \in Nat /\ c.executed \in Nat /\ c.quality \in Nat /\ c.successful \in Nat
      /\ b.total \in Nat /\ b.executed \in Nat /\ b.quality \in Nat /\ b.successful \in Nat
      /\ a.quality \in Nat /\ a.successful \in Nat
      /\ b.successful <= a.successful /\ b.quality <= a.quality
      /\ a.total = b.total /\ a.executed = b.executed
  BY DEF Measured, AsGood
<1>2. Positive(b.executed) \in Nat /\ Positive(c.executed) \in Nat
      /\ Positive(b.total) \in Nat /\ Positive(c.total) \in Nat
  BY <1>0 DEF Positive
<1>3. ~QualityDropped(b, c)
  <2> DEFINE bn == Positive(b.executed)
             cn == Positive(c.executed)
             limit == MaximumQualityDrop * bn * cn
  <2>1. limit \in Nat /\ b.quality * cn \in Nat /\ c.quality * bn \in Nat
        /\ a.quality * cn \in Nat
    BY <1>0, <1>2, ThresholdsAssumption
  <2>2. ~(a.quality * cn - c.quality * bn > limit)
    BY <1>0 DEF GateFailed, QualityDropped
  <2>3. b.quality * cn <= a.quality * cn
    BY <1>0, <1>2, LessOfADrop
  <2> HIDE DEF limit, bn, cn
  <2>4. ~(b.quality * cn - c.quality * bn > limit)
    BY <2>1, <2>2, <2>3
  <2> QED BY <2>4 DEF QualityDropped, limit, bn, cn
<1>4. ~SuccessRateDropped(b, c)
  <2> DEFINE bn == Positive(b.total)
             cn == Positive(c.total)
             limit == MaximumQualityDrop * bn * cn
  <2>1. limit \in Nat /\ b.successful * cn \in Nat /\ c.successful * bn \in Nat
        /\ a.successful * cn \in Nat
    BY <1>0, <1>2, ThresholdsAssumption
  <2>2. ~(100 * (a.successful * cn - c.successful * bn) > limit)
    BY <1>0 DEF GateFailed, SuccessRateDropped
  <2>3. b.successful * cn <= a.successful * cn
    BY <1>0, <1>2, LessOfADrop
  <2> HIDE DEF limit, bn, cn
  <2>4. ~(100 * (b.successful * cn - c.successful * bn) > limit)
    BY <2>1, <2>2, <2>3
  <2> QED BY <2>4 DEF SuccessRateDropped, limit, bn, cn
<1> QED BY <1>3, <1>4 DEF GateFailed

(* No gate of decide_replacement works backwards, whatever the thresholds   *)
(* and the constraints: a right answer in the place of a failed one helps   *)
(* the model that gives it, and never the other.                            *)
THEOREM NoGateWorksBackwards == Spec => []RightAnswersHelpWhoGivesThem
<1>1. ASSUME Shape, Judged, stage = "decided", NEW m \in Models,
             NEW i \in DOMAIN results[m], NEW r \in Replies[m], Corrects(results[m][i], r)
      PROVE  LET corrected == Verdict([results EXCEPT ![m][i] = r]).eligible IN
             IF m = "candidate" THEN decision.eligible => corrected
                                ELSE corrected => decision.eligible
  <2> DEFINE rs == results[m]
             qs == [rs EXCEPT ![i] = r]
             b == Summary("baseline")
             c == Summary("candidate")
             q == ModelSummary(qs)
             changed == [results EXCEPT ![m][i] = r]
  <2>1. /\ results \in [Models -> Seq(Reply)] /\ r \in Reply
        /\ results["baseline"] \in Seq(Reply) /\ results["candidate"] \in Seq(Reply)
        /\ rs \in Seq(Reply)
    BY <1>1, RepliesTyped DEF Shape, Models
  <2>2. changed["candidate"] = (IF m = "candidate" THEN qs ELSE results["candidate"])
        /\ changed["baseline"] = (IF m = "baseline" THEN qs ELSE results["baseline"])
    BY <2>1 DEF Models
  <2>3. decision = Decide(b, c, final)
    BY <1>1 DEF Judged
  <2>4. Measured(b) /\ Measured(c)
    BY <2>1, SummaryIsMeasured DEF Summary
  <2>5. qs \in Seq(Reply) /\ AsGood(ModelSummary(rs), q)
    BY <1>1, <2>1, CorrectionIsAsGood
  <2>6. Measured(q)
    BY <2>5, SummaryIsMeasured
  <2>7. \A x, y, n : Decide(x, y, n).eligible <=> ~TooLittleEvidence(y) /\ ~GateFailed(x, y)
    BY DEF Decide
  <2>8. CASE m = "candidate"
    <3>1. Verdict(changed) = Decide(b, q, final)
      BY <2>2, <2>8 DEF Verdict, Summary
    <3>2. AsGood(c, q)
      BY <2>5, <2>8 DEF Summary
    <3> HIDE DEF b, c, q, changed
    <3>3. decision.eligible => Verdict(changed).eligible
      BY <2>3, <2>4, <2>6, <2>7, <3>1, <3>2, BetterCandidatePasses
    <3> QED BY <2>8, <3>3 DEF changed
  <2>9. CASE m = "baseline"
    <3>1. Verdict(changed) = Decide(q, c, final)
      BY <2>2, <2>9 DEF Verdict, Summary
    <3>2. AsGood(b, q)
      BY <2>5, <2>9 DEF Summary
    <3> HIDE DEF b, c, q, changed
    <3>3. Verdict(changed).eligible => decision.eligible
      BY <2>3, <2>4, <2>6, <2>7, <3>1, <3>2, BetterBaselineAsksMore
    <3> QED BY <2>9, <3>3 DEF changed
  <2> QED BY <2>8, <2>9 DEF Models
<1>2. Shape /\ Judged => RightAnswersHelpWhoGivesThem
  BY <1>1 DEF RightAnswersHelpWhoGivesThem
<1> QED BY <1>2, Invariance, PTL
=============================================================================
