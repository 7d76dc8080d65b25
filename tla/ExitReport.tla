----------------------------- MODULE ExitReport -----------------------------
(***************************************************************************)
(* `exit-report`: load_exit_summaries, decide_exit and build_audit_events  *)
(* (reports/exit_report.py) under the command that writes the artifacts    *)
(* (cli/commands.py).  The input is a JSONL file of rows, added up here, a *)
(* stored run, whose summaries were made by build_model_summary            *)
(* (scoring/aggregation.py), or a file that cannot be read.                *)
(***************************************************************************)
EXTENDS Percentages, Sums, ReportCommand

CONSTANTS
  ExitFiles   \* what an input file can be

ModelRoles == {"baseline", "candidate"}

(* A row is about a model; it has a status, and a score, a latency and a    *)
(* cost that can each be missing.  A row "none" names no provider or model. *)
Row ==
  [model : ModelRoles \cup {"none"}, failed : BOOLEAN,
   score : [num : Nat, den : 0 .. 1], latency : [num : Nat, den : 0 .. 1],
   cost : [num : Nat, den : 0 .. 1]]

(* A result of a run: one that was not executed is an error or a timeout.   *)
RunRow(row) ==
  /\ row.model \in ModelRoles
  /\ Known(row.score) = Known(row.latency)
  /\ ~Known(row.score) => row.failed /\ ~Known(row.cost)

ASSUME ExitFilesAssumption ==
  \A file \in ExitFiles :
    /\ DOMAIN file = {"kind", "rows"}
    /\ file.kind \in {"rows", "run", "unreadable", "not_a_summary"}
    /\ file.rows \in Seq(Row)
    /\ file.kind = "run" => \A i \in DOMAIN file.rows : RunRow(file.rows[i])

MIN_EVIDENCE_SAMPLES == 3
MAX_FAILURE_RATE == 25

Decisions == {"acceptable", "human_review", "not_recommended", "insufficient"}

-----------------------------------------------------------------------------
Of(rows, model) == {i \in DOMAIN rows : rows[i].model = model}
Having(rows, model, field) == {i \in Of(rows, model) : Known(rows[i][field])}
Total(rows, S, field) ==
  RunningSum([i \in DOMAIN rows |-> IF i \in S THEN rows[i][field].num ELSE 0],
             Len(rows))

(* Mutant: a row without the field counts as a zero. *)
MeanOfAll(rows, model, field) ==
  [num |-> Total(rows, Having(rows, model, field), field),
   den |-> Cardinality(Of(rows, model))]

(* The mean over the rows that have the field. *)
Mean(rows, model, field) ==
  [num |-> Total(rows, Having(rows, model, field), field),
   den |-> Cardinality(Having(rows, model, field))]

Failures(rows, model) == Cardinality({i \in Of(rows, model) : rows[i].failed})

(* _load_jsonl, with one bucket per model: no two labels for one of them.   *)
(* The cost is the sum of those there are.                                  *)
SummaryOfRows(rows, model) ==
  [score |-> Mean(rows, model, "score"),
   latency |-> Mean(rows, model, "latency"),
   cost |-> IF Having(rows, model, "cost") = {} THEN Unknown
            ELSE Exactly(Total(rows, Having(rows, model, "cost"), "cost")),
   samples |-> Cardinality(Of(rows, model)),
   failures |-> Failures(rows, model)]

(* Mutant: errors and timeouts are no failures. *)
RunFailuresExecuted(rows, model) ==
  Cardinality({i \in Having(rows, model, "score") : rows[i].failed})

(* failed_cases + error_cases + timeout_cases *)
RunFailures(rows, model) == Cardinality({i \in Of(rows, model) : rows[i].failed})

(* _summaries_from_run of a run with these results: one unknown cost made   *)
(* its total unknown.                                                       *)
SummaryOfRun(rows, model) ==
  LET executed == Having(rows, model, "score")
  IN  [score |-> IF executed = {} THEN Exactly(0) ELSE Mean(rows, model, "score"),
       latency |-> IF executed = {} THEN Exactly(0) ELSE Mean(rows, model, "latency"),
       cost |-> IF executed = {} \/ executed # Having(rows, model, "cost") THEN Unknown
                ELSE Exactly(Total(rows, executed, "cost")),
       samples |-> Cardinality(Of(rows, model)),
       failures |-> RunFailures(rows, model)]

Summary(file, model) ==
  IF file.kind = "run" THEN SummaryOfRun(file.rows, model)
  ELSE SummaryOfRows(file.rows, model)

(* failure_rate_pct > MAX_FAILURE_RATE *)
FailsOften(s) == 100 * s.failures > MAX_FAILURE_RATE * s.samples

(* decide_exit *)
Decision(baseline, candidate, risk) ==
  LET priced == Comparable(baseline.cost, candidate.cost)
      timed == Comparable(baseline.latency, candidate.latency)
      weak(percent) == ReductionBelow(baseline.cost, candidate.cost, percent)
  IN  IF \/ baseline.samples < MIN_EVIDENCE_SAMPLES
         \/ candidate.samples < MIN_EVIDENCE_SAMPLES
         \/ ~Comparable(baseline.score, candidate.score)
         \/ ~priced
      THEN "insufficient"
      ELSE IF \/ RetentionBelow(baseline.score, candidate.score, MinRetention)
              \/ FailsOften(candidate)
              \/ timed /\ IncreaseAbove(baseline.latency, candidate.latency, MaxIncrease)
              \/ weak(MinReduction) /\ weak(0)
      THEN "not_recommended"
      ELSE IF risk \in {"high", "regulated"} \/ ~timed \/ weak(MinReduction)
      THEN "human_review"
      ELSE "acceptable"

(* The event_specs of build_audit_events. *)
ExitEvents ==
  <<<<"started">>, <<"comparison_loaded", verdict.summary>>,
    <<"thresholds_evaluated">>, <<"decision", verdict.decision>>, <<"generated">>>>
  \o (IF destination["aimeter"] # Nowhere THEN <<<<"exported">>>> ELSE << >>)

-----------------------------------------------------------------------------
(* There is a summary for each of the two models. *)
Selectable(file) ==
  /\ file.kind \in {"rows", "run"}
  /\ \A i \in DOMAIN file.rows : file.rows[i].model # "none"
  /\ \A m \in ModelRoles : Of(file.rows, m) # {}

ExitReportInit ==
  /\ Init
  /\ command = "exit-report"
  /\ input \in ExitFiles
  /\ profile # "none" /\ destination["output"] # Nowhere
  /\ destination["json"] = Nowhere

(* A ValidationError of a summary is not a ConfigError: guard() does not    *)
(* know it.                                                                 *)
ExitReportRefused ==
  /\ command = "exit-report" /\ stage = "start"
  /\ profile = "unlisted" \/ ~Selectable(input)
  /\ End(IF profile # "unlisted" /\ input.kind = "not_a_summary"
         THEN INTERNAL_ERROR ELSE INVALID_INPUT)

ExitReported ==
  /\ command = "exit-report" /\ stage = "start"
  /\ profile # "unlisted" /\ Selectable(input)
  /\ LET summary == [m \in ModelRoles |-> Summary(input, m)]
     IN  Decided([summary |-> summary,
                  decision |-> Decision(summary["baseline"], summary["candidate"],
                                        profile)])

ExitReportWrites ==
  /\ command = "exit-report"
  /\ \/ WriteNext(ExitEvents)
     \/ WriteRaised
     \/ Written(SUCCESS)

-----------------------------------------------------------------------------
HasReport == command = "exit-report" /\ verdict # << >>

Favour ==
  [d \in Decisions |-> CASE d = "acceptable" -> 2 [] d = "human_review" -> 1
                         [] OTHER -> 0]

FailedRow ==
  [model |-> "candidate", failed |-> TRUE, score |-> Unknown,
   latency |-> Unknown, cost |-> Unknown]

DecisionOn(file) ==
  Decision(Summary(file, "baseline"), Summary(file, "candidate"), profile)

(* One more call of the candidate that failed and left nothing else never   *)
(* makes the decision more favourable, although it is one more sample.      *)
FailureNeverHelps ==
  HasReport =>
    Favour[DecisionOn([input EXCEPT !.rows = Append(@, FailedRow)])]
      <= Favour[verdict.decision]

(* The two loaders agree: when every scored result has a price, a stored    *)
(* run gets the decision its results would get as rows.                     *)
RunAndRowsAgree ==
  /\ HasReport
  /\ \A i \in DOMAIN input.rows :
       Known(input.rows[i].score) = Known(input.rows[i].cost)
  => verdict.decision = DecisionOn([input EXCEPT !.kind = "rows"])

(* "Missing pricing is reported as unknown and is never treated as zero"    *)
(* (docs/vendor-exit-report.md): a cost that is shown is the cost of every  *)
(* row of the model.                                                        *)
MissingPriceIsNotZero ==
  HasReport =>
    \A m \in ModelRoles :
      Known(verdict.summary[m].cost) =>
        \A i \in Of(input.rows, m) :
          Known(input.rows[i].cost) \/ ~Known(input.rows[i].score)
=============================================================================
