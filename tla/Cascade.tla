------------------------------ MODULE Cascade ------------------------------
(***************************************************************************)
(* Cascade execution (execution/cascade.py): every case goes to a first    *)
(* model, and the results should_escalate picks go to a second one.  The   *)
(* cases run one after the other; a step of the model is what the          *)
(* coroutine does between two awaits, a call with its retries being one.   *)
(***************************************************************************)
EXTENDS Integers, Sequences, FiniteSets, Sums

CONSTANTS
  NCases,           \* suite.cases
  SuiteModels,      \* the aliases of suite.models
  FirstStage,       \* cascade.first_stage
  EscalationModel,  \* cascade.escalation_model; may be the same alias
  OnlyModels,       \* the aliases --model keeps; {} when it is not given
  Conditions,       \* cascade.conditions
  LowScore,         \* cascade.low_score_threshold, in tenths
  LowConfidence,    \* cascade.low_confidence_threshold, in tenths
  TaggedCases,      \* cases with a tag in cascade.escalate_tags
  JsonCases,        \* cases with an evaluator that parses the output
  Replies           \* per model, how a call to it can end

AllConditions == {"evaluator_failure", "invalid_json", "low_score",
                  "policy_failure", "low_confidence", "timeout", "case_tag"}

Cases == 1 .. NCases
Unknown == -1   \* a cost of None

(* How run_case can end.  A call that got no answer has no output, no       *)
(* evaluation and no known cost.  SUCCESS means that every graded evaluator *)
(* passed.  "json" is any JSON value but null.                              *)
NoAnswer == [status : {"error", "timeout"}, output : {"none"}, score : {0},
             policy : {"none"}, confidences : {{}}, cost : {Unknown}]

Answer == [status : {"success", "failed"}, output : {"json", "null", "text"},
           score : 0 .. 10, policy : {"none", "pass", "fail"},
           confidences : SUBSET {5, 10}, cost : Nat \cup {Unknown}]

Reply == NoAnswer \cup {r \in Answer : r.status = "success" => r.policy # "fail"}

ASSUME CasesAssumption == NCases \in Nat \ {0}
ASSUME StagesAssumption == {FirstStage, EscalationModel} \subseteq SuiteModels
ASSUME OnlyAssumption == OnlyModels \subseteq SuiteModels
ASSUME ConditionsAssumption == Conditions \subseteq AllConditions
ASSUME ThresholdAssumption == LowScore \in Int /\ LowConfidence \in Int
ASSUME RepliesAssumption ==
  \A m \in {FirstStage, EscalationModel} :
    \A r \in Replies[m] :
      /\ r.status \in {"success", "failed", "error", "timeout"}
      /\ r.cost \in Nat \cup {Unknown}
      /\ r.status = "success" => r.policy # "fail"

VARIABLES
  stage,         \* where run_cascade is
  case,          \* the case of the loop
  firstClient,   \* the two providers' HTTP clients
  escalClient,
  raised,        \* what the exception came from, or "none"
  caseResults,   \* run.case_results
  firstSuccess, escalated, finalSuccess, totalCost,   \* run_cascade's locals
  summary,       \* run.cascade_summary
  modelSummaries \* run.model_summaries

counters == <<firstSuccess, escalated, finalSuccess, totalCost>>
clients == <<firstClient, escalClient>>
reports == <<summary, modelSummaries>>
vars == <<stage, case, clients, raised, caseResults, counters, reports>>

NoSummary == [total |-> 0, first |-> 0, escalated |-> 0, final |-> 0,
              cost |-> Unknown]
NoModelSummaries == << >>

Init ==
  /\ stage = "build"
  /\ case = 1
  /\ firstClient = "none" /\ escalClient = "none"
  /\ raised = "none"
  /\ caseResults = << >>
  /\ firstSuccess = 0 /\ escalated = 0 /\ finalSuccess = 0 /\ totalCost = 0
  /\ summary = NoSummary
  /\ modelSummaries = NoModelSummaries

-----------------------------------------------------------------------------
(* Helpers of the loop. *)

(* result.parsed_output: set only when an evaluator of the case parsed the  *)
(* output, and None for the JSON value null as for text.                    *)
ValidJson(c, r) == c \in JsonCases /\ r.output = "json"

(* A reply the evaluators of case c can give: those that parse fail what    *)
(* they cannot parse.                                                       *)
CanReply(c, r) ==
  r.status = "success" /\ c \in JsonCases => r.output = "json"

ShouldEscalate(c, r) ==
  \/ "evaluator_failure" \in Conditions /\ r.status # "success"
  \/ "invalid_json" \in Conditions /\ ~ValidJson(c, r)
  \/ "timeout" \in Conditions /\ r.status = "timeout"
  \/ "low_score" \in Conditions /\ r.score < LowScore
  \/ "policy_failure" \in Conditions /\ r.policy = "fail"
  \/ "low_confidence" \in Conditions /\ \E x \in r.confidences : x < LowConfidence
  \/ "case_tag" \in Conditions /\ c \in TaggedCases

(* Mutant: an unknown cost counts as nothing. *)
AddCostsAsZero(left, right) ==
  IF right = Unknown THEN left ELSE left + right

(* economics.add_optional_costs: an unknown cost makes the sum unknown. *)
AddCosts(left, right) ==
  IF left = Unknown \/ right = Unknown THEN Unknown ELSE left + right

One(b) == IF b THEN 1 ELSE 0

Result(c, m, r, esc) == [case |-> c, model |-> m, reply |-> r, escalated |-> esc]

(* The end of a turn of the loop. *)
NextCase ==
  /\ case' = case + 1
  /\ stage' = IF case = NCases THEN "close" ELSE "first"

-----------------------------------------------------------------------------
(* Building the two providers opens nothing; a refusal is outside the try. *)

BuildProviders ==
  /\ stage = "build"
  /\ stage' = "first"
  /\ UNCHANGED <<case, clients, raised, caseResults, counters, reports>>

BuildRefused ==
  /\ stage = "build"
  /\ stage' = "failed"
  /\ raised' = "build"
  /\ UNCHANGED <<case, clients, caseResults, counters, reports>>

(* Mutant: a success counts as final before the case is escalated. *)
CallFirstCountsBoth ==
  /\ stage = "first"
  /\ firstClient' = "open"
  /\ \E r \in Replies[FirstStage] :
       LET ok == r.status = "success" IN
       /\ CanReply(case, r)
       /\ caseResults' = Append(caseResults, Result(case, FirstStage, r, FALSE))
       /\ totalCost' = AddCosts(totalCost, r.cost)
       /\ firstSuccess' = firstSuccess + One(ok)
       /\ finalSuccess' = finalSuccess + One(ok)
       /\ IF ShouldEscalate(case, r)
          THEN /\ escalated' = escalated + 1
               /\ stage' = "second"
               /\ case' = case
          ELSE /\ escalated' = escalated
               /\ NextCase
  /\ UNCHANGED <<escalClient, raised, reports>>

(* Mutant: a success that is kept is not counted as final. *)
CallFirstForgetsKept ==
  /\ stage = "first"
  /\ firstClient' = "open"
  /\ \E r \in Replies[FirstStage] :
       LET ok == r.status = "success" IN
       /\ CanReply(case, r)
       /\ caseResults' = Append(caseResults, Result(case, FirstStage, r, FALSE))
       /\ totalCost' = AddCosts(totalCost, r.cost)
       /\ firstSuccess' = firstSuccess + One(ok)
       /\ IF ShouldEscalate(case, r)
          THEN /\ escalated' = escalated + 1
               /\ stage' = "second"
               /\ UNCHANGED <<case, finalSuccess>>
          ELSE /\ finalSuccess' = finalSuccess
               /\ escalated' = escalated
               /\ NextCase
  /\ UNCHANGED <<escalClient, raised, reports>>

(* run_case on the first model.  Its result decides whether the case is     *)
(* escalated; if not it is the case's final result.                         *)
CallFirst ==
  /\ stage = "first"
  /\ firstClient' = "open"
  /\ \E r \in Replies[FirstStage] :
       LET ok == r.status = "success" IN
       /\ CanReply(case, r)
       /\ caseResults' = Append(caseResults, Result(case, FirstStage, r, FALSE))
       /\ totalCost' = AddCosts(totalCost, r.cost)
       /\ firstSuccess' = firstSuccess + One(ok)
       /\ IF ShouldEscalate(case, r)
          THEN /\ escalated' = escalated + 1
               /\ stage' = "second"
               /\ UNCHANGED <<case, finalSuccess>>
          ELSE /\ finalSuccess' = finalSuccess + One(ok)
               /\ escalated' = escalated
               /\ NextCase
  /\ UNCHANGED <<escalClient, raised, reports>>

(* Mutant: the failed first attempt is taken out of the results. *)
CallSecondReplaces ==
  /\ stage = "second"
  /\ escalClient' = "open"
  /\ \E r \in Replies[EscalationModel] :
       /\ CanReply(case, r)
       /\ caseResults' = Append(SubSeq(caseResults, 1, Len(caseResults) - 1),
                                Result(case, EscalationModel, r, TRUE))
       /\ totalCost' = AddCosts(totalCost, r.cost)
       /\ finalSuccess' = finalSuccess + One(r.status = "success")
  /\ NextCase
  /\ UNCHANGED <<firstClient, raised, firstSuccess, escalated, reports>>

(* run_case on the escalation model, whose result is final. *)
CallSecond ==
  /\ stage = "second"
  /\ escalClient' = "open"
  /\ \E r \in Replies[EscalationModel] :
       /\ CanReply(case, r)
       /\ caseResults' = Append(caseResults, Result(case, EscalationModel, r, TRUE))
       /\ totalCost' = AddCosts(totalCost, r.cost)
       /\ finalSuccess' = finalSuccess + One(r.status = "success")
  /\ NextCase
  /\ UNCHANGED <<firstClient, raised, firstSuccess, escalated, reports>>

(* Anything that is not a ProviderError, or an interrupt, leaves the loop   *)
(* through the finally clause.                                              *)
CallRaised ==
  /\ stage \in {"first", "second"}
  /\ stage' = "close"
  /\ raised' = "call"
  /\ \/ stage = "first" /\ firstClient' = "open" /\ UNCHANGED escalClient
     \/ stage = "second" /\ escalClient' = "open" /\ UNCHANGED firstClient
  /\ UNCHANGED <<case, caseResults, counters, reports>>

-----------------------------------------------------------------------------
(* The finally clause, and what follows it. *)

CloseFirst ==
  /\ stage = "close"
  /\ stage' = "closeSecond"
  /\ firstClient' = "none"
  /\ UNCHANGED <<case, escalClient, raised, caseResults, counters, reports>>

CloseSecond ==
  /\ stage = "closeSecond"
  /\ escalClient' = "none"
  /\ IF raised = "none"
     THEN /\ stage' = "finalize"
          /\ summary' = [total |-> NCases, first |-> firstSuccess,
                         escalated |-> escalated, final |-> finalSuccess,
                         cost |-> totalCost]
     ELSE /\ stage' = "failed"
          /\ summary' = summary
  /\ UNCHANGED <<case, firstClient, raised, caseResults, counters, modelSummaries>>

(* A close that raises, or is interrupted, skips the rest of the clause. *)
CloseRaised ==
  /\ stage \in {"close", "closeSecond"}
  /\ stage' = "failed"
  /\ raised' = "close"
  /\ UNCHANGED <<case, clients, caseResults, counters, reports>>

ResultsOf(m) == {i \in DOMAIN caseResults : caseResults[i].model = m}
Succeeded(i) == caseResults[i].reply.status = "success"

(* runner._models: what _finalize summarises. *)
Selected == IF OnlyModels = {} THEN SuiteModels ELSE OnlyModels

ModelSummary(m) ==
  [total |-> Cardinality(ResultsOf(m)),
   successful |-> Cardinality({i \in ResultsOf(m) : Succeeded(i)}),
   escalated |-> Cardinality({i \in ResultsOf(m) : caseResults[i].escalated})]

Finalize ==
  /\ stage = "finalize"
  /\ stage' = "finished"
  /\ modelSummaries' = [m \in Selected |-> ModelSummary(m)]
  /\ UNCHANGED <<case, clients, raised, caseResults, counters, summary>>

Ended == stage \in {"finished", "failed"} /\ UNCHANGED vars

Next ==
  \/ BuildProviders \/ BuildRefused \/ CallFirst \/ CallSecond \/ CallRaised
  \/ CloseFirst \/ CloseSecond \/ CloseRaised \/ Finalize \/ Ended

Spec == Init /\ [][Next]_vars

-----------------------------------------------------------------------------
(* Properties. *)

Stages == {"build", "first", "second", "close", "closeSecond", "finalize",
           "finished", "failed"}

(* Every variable has its type. *)
TypeOK ==
  /\ stage \in Stages
  /\ case \in 1 .. NCases + 1
  /\ firstClient \in {"none", "open"}
  /\ escalClient \in {"none", "open"}
  /\ raised \in {"none", "build", "call", "close"}
  /\ caseResults \in
       Seq([case : Cases, model : SuiteModels, escalated : BOOLEAN,
            reply : Replies[FirstStage] \cup Replies[EscalationModel]])
  /\ firstSuccess \in Nat
  /\ escalated \in Nat
  /\ finalSuccess \in Nat
  /\ totalCost \in Nat \cup {Unknown}
  /\ summary \in [total : Nat, first : Nat, escalated : Nat, final : Nat,
                  cost : Nat \cup {Unknown}]

First(i) == ~caseResults[i].escalated

(* run_cascade: the results are the cases in suite order, each tried once   *)
(* on the first model, and once more on the escalation model, right after,  *)
(* exactly when should_escalate asked for it; the last one may be waiting.  *)
EscalationIsTraceable ==
  \A i \in DOMAIN caseResults :
    LET this == caseResults[i] IN
    /\ First(i) =>
         /\ this.model = FirstStage
         /\ this.case = IF i = 1 THEN 1 ELSE caseResults[i - 1].case + 1
         /\ IF i < Len(caseResults)
            THEN ShouldEscalate(this.case, this.reply) <=> ~First(i + 1)
            ELSE ShouldEscalate(this.case, this.reply) =>
                   stage = "second" \/ raised \in {"call", "close"}
    /\ ~First(i) =>
         /\ this.model = EscalationModel
         /\ i > 1 /\ First(i - 1)
         /\ caseResults[i - 1].case = this.case

(* The counters of CascadeSummary, which are kept beside the results, say   *)
(* what the stored results say: a case's outcome is its last result's.      *)
LastOf(c) ==
  CHOOSE i \in DOMAIN caseResults :
    /\ caseResults[i].case = c
    /\ \A j \in DOMAIN caseResults : caseResults[j].case = c => j <= i

SummaryAddsUp ==
  stage \in {"finalize", "finished"} =>
    /\ {caseResults[i].case : i \in DOMAIN caseResults} = Cases
    /\ summary.total = NCases
    /\ summary.first = Cardinality({i \in DOMAIN caseResults : First(i) /\ Succeeded(i)})
    /\ summary.escalated = Cardinality({i \in DOMAIN caseResults : ~First(i)})
    /\ summary.final = Cardinality({c \in Cases : Succeeded(LastOf(c))})

(* "Unknown cost is never treated as zero downstream" (results.py): the     *)
(* total is known exactly when every call's cost is, the failed first calls *)
(* included, and then it is their sum.                                      *)
SumOfCosts ==
  RunningSum([i \in DOMAIN caseResults |-> caseResults[i].reply.cost],
             Len(caseResults))

CostIsHonest ==
  totalCost =
    IF \E i \in DOMAIN caseResults : caseResults[i].reply.cost = Unknown
    THEN Unknown ELSE SumOfCosts

(* Both providers are closed however the loop ends, before the run is       *)
(* scored; only a close that itself raises leaves one open.                 *)
ClientsReleased ==
  stage \in {"finalize", "finished", "failed"} /\ raised # "close" =>
    firstClient = "none" /\ escalClient = "none"

(* The summaries per model and the cascade summary tell one story: what the *)
(* first model was asked, what the other one was asked, and that every      *)
(* final success is a success of one of them.                               *)
SummariesAgree ==
  /\ stage = "finished"
  /\ FirstStage # EscalationModel
  /\ {FirstStage, EscalationModel} \subseteq Selected
  => LET first == modelSummaries[FirstStage]
         second == modelSummaries[EscalationModel]
     IN  /\ first.total = NCases
         /\ first.successful = summary.first
         /\ first.escalated = 0
         /\ second.total = summary.escalated
         /\ second.escalated = second.total
         /\ summary.final <= first.successful + second.successful
         /\ \A m \in Selected \ {FirstStage, EscalationModel} :
              modelSummaries[m].total = 0

(* The stored results, the counters of the cascade and the summaries that   *)
(* _finalize makes of the results for each model do not contradict.         *)
SummariesAddUp == SummaryAddsUp /\ SummariesAgree

(* The cases the first model had right and should_escalate took from it.    *)
Doubted ==
  {i \in DOMAIN caseResults :
     /\ First(i) /\ Succeeded(i)
     /\ ShouldEscalate(caseResults[i].case, caseResults[i].reply)}

(* Escalating only loses a success by doubting it, and only wins a case by  *)
(* escalating it: the two rates and the escalation rate of the summary      *)
(* bound each other.                                                        *)
EscalationOnlyHelps ==
  /\ escalated <= case
  /\ finalSuccess <= firstSuccess + escalated
  /\ firstSuccess <= finalSuccess + Cardinality(Doubted)
=============================================================================
