# ModelSwapBench in TLA+

ModelSwapBench answers one question: may a cheaper model replace the one a
workload runs on today?  It calls both models on a suite of cases, scores what
they answer, decides, stores the run, and derives reports from it.  This
directory holds TLA+ modules of the parts of it that decide, count, write files
or run concurrently; the TLC configurations that check them on small instances;
and proofs, checked by TLAPS, of the properties that matter most for instances
of any size.

Paths below are relative to `src/model_swap_bench/` unless they start with
`docs/` or `tests/` or name a file of the repository's root.

## 1. The system

### Components, their state and their operations

| Component | State it keeps | Operations | Modelled in |
|---|---|---|---|
| Benchmark runner (`execution/runner.py`, `scheduler.py`, `retry.py`) | the run under construction, one batch of asyncio tasks per model, a semaphore | `run`, `_run_comparison`, `run_bounded`, `run_case`, `call_with_retry`, `_finalize` | `Runner`, `BatchExecutor`; grading in `Evaluation` |
| Providers (`providers/`) | one lazily opened HTTP client | `build_provider`, `health`, `complete`, `aclose` | in `Runner`, `Cascade`; which one is built in `RunCommand` |
| Cascade (`execution/cascade.py`) | two providers, counters, a running cost | `run_cascade`, `should_escalate` | `Cascade` |
| Evaluators (`evaluators/`) | the parsed output of one case, shared by them | `evaluate` of each, `ensure_parsed` | `Evaluation` |
| Run repository (`storage/`) | a directory of five files per run, copies of fixtures, an SQLite index | `save`, `load`, `load_manifest`, `load_suite_snapshot`, `resolve`, `delete` | `RunStore`, `RunCatalog`; the contents of a snapshot in `RunCommand` |
| Configuration (`config/`) | none | `load_suite`, `validate_suite`, defaults | `RunCommand` |
| Commands on suites (`cli/`) | one process per command, an exit code | `validate`, `run` with its options, `reproduce`, `runs show`, `clean` | `RunCommand`, `RunStore`, `Runner` |
| Scoring (`scoring/aggregation.py`, `economics.py`, `metrics.py`) | none: functions of the results | `build_model_summary`, `check_constraints` | `Replacement` |
| Replacement decision (`scoring/replacement.py`) | none | `decide_replacement` | `Replacement` |
| Regression gate (`gates.py`) | none | `evaluate_gate` | `Gate` |
| Exit report (`reports/exit_report.py`) | none | `load_exit_summaries`, `select_summary`, `decide_exit`, `build_audit_events` | `ExitReport`, `ExitSelection`, `AuditLog` |
| Route plan (`reports/route_plan.py`) | none | `load_route_plan_input`, `decide_task_route`, `_summary`, `build_route_audit_events` | `RoutePlan`, `AuditLog` |
| Report commands (`cli/commands.py`) | destinations, an exit code | `gate`, `exit-report`, `route-plan` | `ReportCommand`, `Reports` |
| Workflows (`workflows.py`) | traces the user keeps | validation, `evaluate_workflow` | `Workflow`, `WorkflowMonitor` |
| Outcomes (`outcomes.py`) | label files | `aggregate_outcomes`, `compare_outcomes` | `Outcomes` |
| Datasets (`datasets/`) | dataset files, with links | `create`, `split`, `redact` | `DatasetFiles` |
| Replay, telemetry, portable records | evidence files | `replay sanitize`, `telemetry export`, `ensure_distinct_paths`, bounded reads | as commands on files, in `DatasetFiles` |
| Pricing registry (`pricing/registry.py`) | one YAML list | `load`, `get`, `set_price`, `validate_entries`, `save` | `PriceList` |
| Statistics; Markdown, HTML, CSV and JSON renderings | none | conversions | not modelled |

`PROJECT.json` lists every component with what is left out of it.

### How they interact

`cli/app.py` wraps every command in `guard`, which turns exceptions into exit
codes.  `run` loads a suite, lets the command line override some of its fields,
hands it to `BenchmarkRunner.run` inside `asyncio.run`, saves what comes back
with `RunRepository.save`, and derives the exit code from it.  The runner takes
the comparison path (`_run_comparison`: the models one after the other, the
cases of a model as concurrent tasks under a semaphore) or the cascade path
(`run_cascade`: one case after the other, two models); both grade answers with
the evaluators and fill `case_results`, and `_finalize` makes summaries,
constraint results and replacement decisions from them.  `reproduce` loads a
stored run and its suite snapshot, runs the snapshot and saves a new run, whose
snapshot is a copy of a copy.  `gate`, `exit-report`, `route-plan` and the
commands on datasets, traces, labels and prices never see a runner: they read
files, decide, and write files.  Two processes share nothing but the
`.modelswapbench` directory and the files of the user, and nothing locks either.

### What is hard, and what correctness means there

| Where | Hard behaviour | Correct means |
|---|---|---|
| runner | tasks end in any order, on six different ways; an exception in one leaves its siblings running while `finally` closes the client they use, and may raise itself | permits are conserved; results are whole and in suite order, or the run is lost with an error; nothing is left behind; the process ends |
| retry | a retryable error on the last attempt | every retry is used before a failure is recorded, and none more |
| cascade | counters kept beside the results they summarise, unknown costs, a close that raises | each summary says what the results say; unknown stays unknown; a success is lost only where it was doubted |
| evaluators | one context, parsed by whoever needs it first, in which `None` has two meanings | what an evaluator says does not depend on those before it; score and verdict agree |
| store | five writes and a row, several processes, a stop between any two steps | a listed run is whole and immutable; a cleaned one stays gone |
| suites and snapshots | consent given in two places and used by three paths; overrides after validation; a dry run with logic of its own; fixtures renamed by each snapshot | what asks for consent is not called without it; what is accepted is carried out; a reproduction repeats |
| scoring and decision | rates over different denominators, `None` next to 0.0 | recommendations rest on evidence found in the results; no gate works backwards |
| gate, exit report, route plan | missing evidence, rule order, two aggregations of the same results, models named in several ways, several destinations | missing evidence never helps; a better task never gets a stricter route; no row counts twice; artifacts do not destroy each other or the input |
| traces and labels | steps lost, repeated or exchanged; labels and costs that are missing or written twice | what is accepted shows nothing that did not happen; a failure more never flatters |
| dataset files and prices | writes that truncate first, processes that stop between two of them, one file under several names, two processes at once | the input is kept, a failure changes nothing but the outputs it got to, a split that succeeds partitions; what was set is found |

The list of hazards, each with its line and the properties that watch it, is in
`PROJECT.json`.

## 2. Plan

The order was: what every number in this program depends on first.

1. `Runner` over `BatchExecutor` - execution, retries, failures, exit code. *Done, proved.*
2. `Cascade` - the other execution path. *Done, proved.*
3. `RunStore` over `RunCatalog` - persistence and the commands on it. *Done, proved.*
4. `Replacement` - summaries, constraints, decision ladder. *Done, proved.*
5. `Reports` = `RoutePlan` + `ExitReport` + `Gate` over `ReportCommand`,
   `Percentages` and `AuditLog`. *Done, proved.*
6. `Evidence` = `Reports` + `ExitSelection` + `Outcomes` + `Workflow` over
   `WorkflowMonitor`. *Done, proved.*
7. `Commands` = `RunCommand` + `DatasetFiles` + `PriceList` + `Evaluation`.
   *Done, proved.*
8. `Sums`, what the models share of lists and sums, with `SumsProofs`.  *Done.*
9. Left to model: `list_runs` and a row whose directory is gone in `RunStore`;
   an exit report from a summary file; the preflights of `replay.py` and
   `privacy.py`; the conversion of a run into telemetry records.
10. Left to prove: a composition of `Runner` with `RunStore`, and of datasets
    what several processes at once leave each other.

## 3. The modules

Names are those of the code where TLA+ allows it; `PROJECT.json` maps every
definition to its lines.  A definition whose comment begins with, or ends in,
"Mutant: ..." is not part of the specification: it is what the definition after
it would be with a plausible bug, and it exists to show that a property notices
that bug.

**`Runner`** (with `BatchExecutor`, `MCRunner`, `RunnerProofs`).  State: where
the main coroutine is (`main`), the model whose batch it runs, per task where
its coroutine is (`pc`), how many retries it used and how it ended, the free
permits of the semaphore, the provider's client, the exception on its way, and the
run.  A step is what one coroutine does between two awaits.  `BuildProvider`,
`HealthChecked`, `GatherReturned`, `BatchClosed` are `_run_comparison` from top
to bottom, `GatherRaised`, `AbortClosed` and `Unwind` its way out through
`finally` and `asyncio.run`; `CloseRaised` is an `aclose` that raises in that
`finally`, which loses the results of the batch or replaces the exception on its
way; `Enter`, `Answer`, `Unavailable`, `Retry`,
`GiveUp`, `Crash` and the two `...Refused` are a task under `run_bounded`,
`call_with_retry` and `run_case`; `Finalize`, `Save`, `SaveRaised` are what
`commands.run` does with the result.  `aclose` is two steps (`StartClose`,
`ReleaseClient`) because it awaits between closing the client and forgetting it.
`BatchExecutor` is the abstract specification: batches one after the other, at
most `limit` tasks in flight, a batch left only when all of it has ended, a run
that breaks down ends with nothing in flight.  The limit is chosen at the start,
at most the ceiling, and kept.  The specification has neither permits nor a store: that a run that raised is
not stored is `RaisedRunIsLost`.  That `asyncio.Semaphore` wakes waiters in order
is assumed in `MayEnter`, and no property claims it.

**`Cascade`** (with `MCCascade`, `CascadeProofs`).  One coroutine; a step is one
provider call with its retries, or one close.  `CallFirst` and `CallSecond` are
the two halves of the loop body with the counters, `CloseFirst`, `CloseSecond`
and `CloseRaised` the `finally` clause, `Finalize` the summaries per model.
A reply is a record of what `should_escalate` looks at.

**`RunStore`** (with `RunCatalog`, `MCRunStore`, `RunStoreProofs`).  Per run the
state of its five files, whether its directory and its row exist; per process
its command, what it resolved, the run it creates and the step it is about to
take.  A step is one access to the file system or one SQLite transaction:
opening a file truncates it (`Open`), closing makes it whole (`Close`), so
readers can meet a torn file.  `Stop` ends a process anywhere.  `RunCatalog` is
the abstract specification: runs appear at once, never change, never return.

**`Replacement`** (with `MCReplacement`, `ReplacementProofs`).  The results of a
baseline and a candidate accumulate as the comparison or the cascade makes
them; `Finalize` aggregates and decides.  Rates are kept as two counts and
compared multiplied out; percentiles interpolate as the code does.

**`RunCommand`** (with `CommandsProofs`).  State: the fixture files and which servers are up, the runs
saved so far with their snapshots, and the command under way.  `StartRun` and
`Reproduce` load and validate a suite and apply the options; `CheckModel` and
`EndDryRun` are the dry run, `RunModel` (one model after the other) or
`RunCascade` the run, `Save` the snapshot, the manifest and the exit code.  The
calls of one model are one step, because `Runner` and `Cascade` are about what
happens inside it.  Kind `ollama` stands for Ollama and Forge, which are built for
any endpoint; `BuildCompatible` is the adapter that asks for consent.  The calls
of a served model end in any status, whatever its health check said; and what an
adapter does not map (a body that is not JSON, a read that breaks off), an
`aclose` or a save that raises, lose the run with exit code 5 (`ServerBreaks`,
`CascadeBreaks`, `SaveFails`), as do evaluators that raise on an answer
(`Ungradable`).  Between commands the user edits or deletes fixture files
(`EditFixture`) and servers go up or down (`ServerChanges`).  A fixture name is a
sequence, so that the names `_snapshot_suite` makes by joining two of them can be
equal where the parts are not.

**`DatasetFiles`** (with `DatasetFilesProofs`).  State: what each file holds, and per process its command
and how far it is.  A path resolves through symbolic links (`Resolved`) and
names a file that hard links share (`FileOf`); `Distinct` and the comparison of
`dataset split` are the code's two, different, tests.  A write is
`OpenOutput`, which empties the file, and `FillOutput`; `WriteRaises` is an
`OSError` of either, which `guard` turns into exit code 5, and `Stop` a process
that is killed: both can leave the file torn (`CutShort`).  How much longer a name may become (`idRoom`, `nameRoom`)
decides whether a derived dataset validates.

**`PriceList`** (with `CommandsProofs`).  State: the file and, per process, the list it has loaded.
`Load`, `Truncate` and `Fill` are three steps, so sets of two processes overlap
and a stop leaves an empty file, which loads as a list with no entries.

**`Evaluation`** (with `CommandsProofs`).  State: a case, an answer, the evaluators still to come and the
`EvalContext` they share.  `Grade` runs one evaluator and updates the context;
`Finish` derives status and quality.  An answer is what evaluators can see of
it: whether it parses, its fields, the phrases in it, its tools and citations.
The threshold of a rubric is a percentage that nothing bounds: above 100 a full
score fails, which `ScoresFollowVerdicts` excepts.

**`Commands`** (with `CommandsProofs`) composes these four, **`Evidence`** (with `EvidenceProofs`) the
report commands with the three below.  Their parts share no variable and no file, so a behaviour works on
one part and the others rest; the composition keeps one configuration for what
is one user's work, and adds no interleaving that the program has not.

**`Reports`** composes three commands.  `ReportCommand` is what they share: an
invocation, an input, the decision, the artifacts written one after the other
(any write can raise), the exit code.  `RoutePlan`, `ExitReport` and `Gate` add
their inputs, their decision and their refusals.  `Percentages` holds the
comparisons of percentages, `AuditLog` the hash chain, with the digest of an
event standing for its contents (equal digests, equal events).

**`ExitSelection`**.  A JSON Lines file grows row by row, and a report is made of
it again and again.  `Bucket`, `Matches` and `Select` are the three ways the code
tells models apart; a label is one text or two with a colon between them.

**`Outcomes`**.  Two label files that people extend and correct record by
record; `OutcomeSummary` and `OutcomeComparison` are the code's two functions.

**`Workflow`** (with `WorkflowMonitor`).  A workflow takes its steps (`Take`),
and a trace of it is written (`Deliver`) that may lose, repeat or exchange some.
`WorkflowMonitor` is the abstract specification: what somebody would note who
sees each step once and remembers six values; `evaluate_workflow`, which looks
at the whole trace with nested comprehensions, is shown to implement it.

**`Sums`** (with `SumsProofs`).  What these modules take from Python: a list
(`IsList`), `sum()` along it (`RunningSum`) and a comprehension with a condition
(`Only`), as recursive functions of the length and not as RECURSIVE operators,
so that the modules that use them can be proved about.

## 4. What is checked

| run | module | distinct states | properties | what it shows |
|---|---|---|---|---|
| `runner` | `MCRunner` | 579946 | `CompleteAndOrdered`, `ClientReleased`, `RaisedRunIsLost`, `ImplementsExecutor`, `Termination` | Two models with different retry budgets, under a binding ceiling and with a concurrency of zero, with exceptions in calls, health and aclose: what is stored is whole and ordered, clients are released, a run that raised is lost and says so, the process ends, and the runner implements BatchExecutor, in which no more calls than the limit are in flight and batches come in order. |
| `runner_silence` | `MCRunner` | violated | `SilenceIsNotSuccess` | A run in which every call timed out exits with 0. |
| `runner_leak` | `MCRunner` | violated | `ReleasedAtExit` | A task that survives gather reopens the client the finally clause has closed. |
| `cascade` | `MCCascade` | 257744 | `EscalationIsTraceable`, `SummariesAddUp`, `CostIsHonest`, `EscalationOnlyHelps` | Three cases under all seven conditions, over replies that meet and miss each: the results say which calls were made and why, every summary says what the results say, no unknown cost is taken for zero, and only doubt loses a success. |
| `store_three` | `MCRunStore` | 1035061 | `IndexedRunIsWhole`, `CleanedLatestIsGone`, `FixturesAreKept`, `StoredRunsAreImmutable`, `ImplementsCatalog` | Three processes saving, reading, reproducing and cleaning two runs while a fixture is edited, each stopping anywhere: a listed run is whole and unchanging with its fixtures, a cleaned one stays gone, and the store implements RunCatalog. |
| `store_drift` | `MCRunStore` | violated | `DriftIsOfTheSameRun` | `reproduce latest` compares with the manifest of a run saved in between. |
| `replacement_gates` | `MCReplacement` | 173174 | `RecommendedOnEvidence`, `RightAnswersHelpWhoGivesThem`, `FirstStageIsCovered` | Three results per model of a comparison or a cascade, with errors, timeouts, unknown and zero costs and missing policy evidence: what a recommendation found in the results, and that no gate works backwards. |
| `reports` | `MCReports` | 345517 | `BetterTaskRoutesNoWorse`, `BlendedNeverDearer`, `DestinationsAreKept`, `FailureNeverHelps`, `RunAndRowsAgree`, `GateIsMonotone`, `WithheldEvidenceNeverPasses`, `TamperEvident`, `EveryRowCountsOnce`, `ReportsAreAboutTheSame`, `OutcomesNeverFlatter`, `AcceptedIsAPart`, `ImplementsMonitor`, `WorkflowsAreJudgedFairly` | Everything that judges evidence: the three report commands with linked destinations and failing writes, a growing result file, labels that are withdrawn, traces that arrive damaged. |
| `reports_exit` | `MCReports` | violated | `MissingPriceIsNotZero` | An exit report on rows of which one has no price shows the sum of the others. |
| `commands` | `MCCommands` | 1165773 | `CompatibleNeedsBothConsents`, `AcceptedIsCarriedOut`, `ReproductionRepeats`, `ResplitMovesOne`, `SplitPartitions`, `OnlyOutputsChange`, `SetIsKept`, `GradingIsSound` | What a user does with files of his own, three commands at a time: consent to compatible endpoints, what validation and a dry run promise, what a reproduction repeats, datasets with links to them under writes that raise or stop, prices set by two processes that stop anywhere, and the grading of an answer by evaluators in any order. |
| `commands_consent` | `MCCommands` | violated | `DataStaysWithoutConsent` | A run without any consent sends its cases to an Ollama endpoint on another machine. |
| `commands_saved` | `MCCommands` | violated | `SavedRunsReproduce` | Two fixtures get one name in the snapshot of a run, and its reproduction gives one model the answers of the other. |

There is one run for each distinct question.  The type invariants and the
invariants `BoundedInFlight`, `NothingLeftBehind`, `SequentialModels`,
`RetryBudget` and `ClientsReleased` are proved and no longer listed in a run of
their own: `ImplementsExecutor` contains the first three on small instances,
and the theorems hold for all.

### Bounds, and why they are enough

* `runner`: with three tasks for two permits one task can raise, a second
  inherit its permit or end while the client is being closed, and the third
  start on that client; a permit lost once still matters.  Two models suffice
  for anything that crosses from one batch to the next; budgets of 0 and 1
  retries meet "no retry", "retried and answered" and "retried and given up".
  `Concurrencies` has 5, above the ceiling of two, which binds, and 0, which
  `run_bounded` raises to one: with one permit the task that waits behind one
  that raised enters while the client is being closed.  The first model is
  reached over HTTP and has the retry, so that a retry can meet the closed
  client too.  The lemma `LimitType` has the clamp for every integer.
* `cascade`: three cases give a first, a middle and a last turn of the loop; the
  nine and four replies meet each condition alone.
* `store_three`: three processes and two runs allow a saver, its reproducer and
  a cleaner, or two savers and a cleaner, and one edit of the fixtures falls
  before, between and after.  `MaxRuns` and `MaxEdits` bound what is otherwise
  unbounded.  Processes are interchangeable: symmetry.
* `replacement_gates`: three results per model against thresholds that allow
  one lost success of three and not two, so that both sides of each gate occur.
* `reports`: inputs differ from a good one in up to two (plans), two metrics
  (gates) or four rows (exit reports) at a time, which is enough for two rules
  or two kinds of missing evidence to meet.  `MaxRows = 3`: one row of each of
  two models and one that could join or split their buckets, in every order and
  every way of naming.  `MaxRecords`: two labels a side, one of them withdrawn
  or repeated.  `MaxSteps = 4` with `StepLimit = 2`: a loop, a failure before
  and after its answer, and an excess all fit; a delivery of two steps
  (`MaxDelivered`) can lose, repeat and exchange.
* `commands`: `MaxCommands = 3` allows a dry run, its run and its reproduction,
  or a reproduction of a reproduction, with one change of the world
  (`MaxChanges`) between any two.  Datasets have four cases, and a fifth that
  redaction or an edit brings; `MaxSteps = 3` commands meet a split that
  stopped, the split that repairs it, and an edit.  `MaxPriceCommands = 3` sets
  by two processes on a list in which one model is listed twice.  Suites of up
  to two evaluators of all kinds, and of three of the five that share the parsed
  output, in every order, on six answers to four cases.

`CHECK_DEADLOCK FALSE` is set where the system may really stop: the commands of
`store_three` and `store_drift` end or are stopped, and a user of `commands`,
`commands_consent` and `commands_saved` may do nothing more.  In `reports` only the part in which people write evidence
may stop, and has a stuttering action for it (`NoMoreEvidence`): that a report
command always goes on to an exit code is checked.

### Fairness

Only `Termination` needs it: weak fairness of the main coroutine and of each
task.  The event loop runs every coroutine that can run, and every provider
request carries `timeout_seconds`, so a call in flight ends.  Nothing is assumed
about which way it ends.  `NModels`, `NTasks` and the retries bound the run, so
there is no livelock to exclude.  The other components are sequential commands
over files, which a user may stop: nothing has to happen there.

### What the violated runs show

* `runner_silence`: `_run_exit_code` looks for errors, and a timeout is not one.
  A run in which every call timed out, without constraints, exits with 0
  (`docs/ci-integration.md`: 4 is "partial / degraded run").
* `runner_leak`: `gather` re-raises while siblings still run.  One of them can
  call `_get_client` after `aclose`, and opens a client nothing closes.
* `store_drift`: `reproduce latest` resolves `latest` twice.  A run saved in
  between gives the suite of one run and the manifest of another, and the drift
  warnings compare the wrong pair.
* `reports_exit`: `_load_jsonl` adds up the costs that are there.  A row without
  a price makes its model cheaper (`docs/vendor-exit-report.md`: "never treated
  as zero").
* `commands_consent`: `build_provider` passes `allow_hosted` to the
  OpenAI-compatible adapter only (`providers/base.py:104`).  A model with
  `provider: ollama` or `forge` and the `base_url` of another machine is built
  and called without either consent, in `run`, in a dry run (which asks for its
  health) and in `reproduce` (`SECURITY.md`: "Benchmark data never leaves the
  machine unless you pass `--allow-hosted` **and** set
  `privacy.allow_hosted_providers`").
* `commands_saved`: the copy of a fixture is named alias-filename
  (`storage/repository.py:81`).  Model `a` with fixture `b-x` and model `a-b`
  with fixture `x` share a copy, and the reproduction answers for one from the
  other's file (`docs/reproducibility.md`: "re-executed exactly").

### Met while modelling

Differences between the code and what is said of it, found while a definition
was translated, and kept here without a run of their own: the properties above
are stated so that they hold in spite of them, and say so where they make an
exception.

*Runs and reproductions.*

* The overrides are assigned after validation (`cli/commands.py:114`).
  `--repetitions 0` gives a run without a call that is saved and exits with 0;
  `config/models.py:217` rejects the same value in a file.  `--concurrency 0`
  runs, but its snapshot does not load (`storage/repository.py:98`), and
  `reproduce` ends as an internal error.
* `reproduce` executes all models of the suite also for a run made with
  `--model` (`cli/commands.py:454`), has no option that consents to hosted
  endpoints, and copies fixtures as they are when the run is saved, not as they
  were when it was made (`storage/repository.py:82`): an edit in between is not
  noticed.  `ReproductionRepeats` is about runs of all models with
  legal overrides.
* `--model` on a cascade suite still calls both models (`execution/cascade.py:55`);
  summaries and decisions then cover the selected one only.
* The drift warning about the suite definition cannot fire: both hashes are of
  the same snapshot.
* `_run_exit_code` returns 3 for any run all of whose results are errors.
* `run_case` catches `ProviderError` only (`execution/runner.py:66`).  One answer
  that is not JSON (`providers/openai_compatible.py:112`, `providers/ollama.py:76`),
  one `httpx.ReadError` of Ollama or one evaluator that raises loses the results of the
  whole run with exit code 5, also after a dry run accepted it: `AcceptedIsCarriedOut`
  excepts these by name (`Raises`, `broken`), `ReproductionRepeats` a save that
  fails.

*Scoring and decisions.*

* A candidate none of whose calls was answered is eligible against a baseline
  that was not answered either: the ladder's guard counts errors, not timeouts
  (`scoring/replacement.py:112`; `README.md`: "unknown evidence is never treated
  as zero or as a pass").
* `final_success_rate` of a cascade is over all cases and is compared with the
  success rate of a baseline that saw only the escalated ones
  (`scoring/replacement.py:124`).
* The p95 latency of no answer is 0.0 and passes `maximum_p95_latency_ms`
  (`scoring/aggregation.py:103`); without a graded tool call
  `minimum_tool_accuracy` is not checked (`scoring/aggregation.py:120`).
* A case without a configured evaluator is a success with a quality of 1.0
  (`results.py:126`), and a rubric may be the only evaluator (`execution/runner.py:117`;
  `evaluators/rubric.py:3`: "never the only evaluator").
* The JSON text `null` counts as invalid JSON (`evaluators/json_parse.py:17`), and
  `invalid_json` escalates it.
* No provider records policy events (`execution/runner.py:105`), so a case with
  `required_events` fails whatever the model answers.
* Nothing constrains the weight of an evaluator; `required_fields` of a schema
  is only used for prompts.

*Reports.*

* `docs/model-routing-plan.md` sends tasks to review for "unknown evidence"; a
  low-risk task with unknown cost, latency or policy evidence goes to the
  candidate.  With a baseline cost of 0 it does so at any candidate cost, which
  is why `BlendedNeverDearer` asks for baseline costs that are not zero.
* `exit-report` (`cli/commands.py:258`) and `gate --output` write without the
  collision checks that `route-plan` makes; a summary that fails validation
  leaves `exit-report` with code 5, where `CHANGELOG.md` promises a
  configuration error.
* `_load_jsonl` keeps a bucket per provider, model and label
  (`reports/exit_report.py:419`), and `select_summary` takes the first that
  matches: rows of one model written in another case, or with a label, are
  neither compared nor reported.  Baseline and candidate are selected on their
  own (`reports/exit_report.py:497`), and can be one model.
* The rates of a risk level are over the cases that have the field
  (`gates.py:257`): a failing case that leaves it out no longer counts.

*Traces and labels.*

* The business success rate is over labelled records whose number is not shown
  (`outcomes.py:108`): withdrawing the label of a failure raises it.
  `aggregate_outcomes` does not look at `model_alias`.
* `unnecessary_tool_calls` is the difference of two lengths, and
  `timeout_recovered` is one answer for all timeouts together.

*Files of the user.*

* `dataset create` tests `exists()` and then truncates (`cli/commands.py:556`):
  two at a time both succeed, and one file is lost.
* `dataset split` compares its outputs by resolved path (`cli/commands.py:577`)
  and `replay sanitize` not at all (`cli/commands.py:670`), so hard links let
  the second output replace the first (`docs/datasets.md`: "links, and path
  aliases are rejected").  `SplitPartitions` asks for two files.
* A split of a dataset whose name has 500 to 504 characters writes the training
  file and then raises, and so does one whose second write fails: no command
  takes back the output it has written (`cli/commands.py:580`).
  `OnlyOutputsChange` says what such a failure may leave.
* A JSON Lines dataset that was cut short at a line loads as a shorter dataset,
  and an empty price file as a valid list.
* Two `pricing set` at a time both succeed, and one price is lost
  (`cli/commands.py:505`): `SetIsKept` promises a price until another process
  writes back the list it read before.
* `pricing set` keeps the effective date of the old price; `pricing validate`
  never prints the staleness warning (`cli/commands.py:500`).

## 5. What is proved

All theorems hold for every value of the constants that satisfies the named
assumptions of the module (sizes are natural numbers, ceilings are positive,
the baseline and candidate are models of the suite ...), and are proved as
`Spec => []Inv` or `Spec => [][A]_vars` from an inductive invariant.

| theorem | module | property | what it establishes |
|---|---|---|---|
| `TypeCorrect` | `RunnerProofs` | `TypeOK` | Every variable of the runner keeps its type, for any number of models, tasks and retries. |
| `BoundedConcurrency` | `RunnerProofs` | `BoundedInFlight` | Calls in flight and permits always add up to the limit, which never exceeds the ceiling. |
| `ModelsAreSequential` | `RunnerProofs` | `SequentialModels` | No call of an earlier model is alive when the next provider is built. |
| `RaisedRunsAreLost` | `RunnerProofs` | `RaisedRunIsLost` | For any models, tasks and retries, a run from which an exception escaped, one of aclose in the finally clause included, is never stored and exits with 2, 3 or 5. |
| `ClientsAreReleased` | `RunnerProofs` | `ClientReleased` | The client of a model is released before the next provider is built and before the run is stored. |
| `NoCallLeftBehind` | `RunnerProofs` | `NothingLeftBehind` | No task is queued or calling when the process ends. |
| `RetriesAreBounded` | `RunnerProofs` | `RetryBudget` | A recorded result used at most its budget, and all of it when it failed. |
| `RunnerImplementsExecutor` | `RunnerProofs` | `ImplementsExecutor` | Every behaviour of the runner is one of BatchExecutor. |
| `StoredRunsAreWhole` | `RunnerProofs` | `CompleteAndOrdered` | For any number of models, tasks and retries and any interleaving, a stored comparison holds every case of every model once, in the order of the suite. |
| `TypeCorrect` | `CascadeProofs` | `TypeOK` | Every variable of a cascade keeps its type, for any suite, conditions and replies. |
| `ProvidersAreClosed` | `CascadeProofs` | `ClientsReleased` | Both HTTP clients are closed when a cascade ends, unless a close itself raised. |
| `EscalatingOnlyHelps` | `CascadeProofs` | `EscalationOnlyHelps` | A success of the first model is only lost where should_escalate doubted it, a case is only won by escalating it. |
| `EscalatingFailuresLosesNothing` | `CascadeProofs` | a corollary | When the conditions never doubt a success, the cascade ends with at least the successes of the first model. |
| `ResultsAreTraceable` | `CascadeProofs` | `EscalationIsTraceable` | The results of a cascade alternate as should_escalate decided, in suite order. |
| `CountersSayWhatIsStored` | `CascadeProofs` | `SummariesAddUp` | The counters of a cascade and the summaries made from its results count the same calls, cases and successes, for any suite and conditions. |
| `TheTotalIsHonest` | `CascadeProofs` | `CostIsHonest` | The total cost of a cascade is known exactly when every call's cost is, and is then their sum. |
| `TypeCorrect` | `RunStoreProofs` | `TypeOK` | Every variable of the repository keeps its type, for any processes and any number of runs. |
| `IndexedRunsAreWhole` | `RunStoreProofs` | `IndexedRunIsWhole` | A run with a row has all its files, wherever processes stopped, unless a clean of it was started. |
| `StoredRunsNeverChange` | `RunStoreProofs` | `StoredRunsAreImmutable` | Nothing but a clean of it changes, hides or overwrites a listed run. |
| `CleanedLatestStaysGone` | `RunStoreProofs` | `CleanedLatestIsGone` | After `clean latest` ended, neither the row nor the directory of the run exists or comes back. |
| `StoreImplementsCatalog` | `RunStoreProofs` | `ImplementsCatalog` | What can be listed and loaded changes as RunCatalog says: published at once, removed at once, never back. |
| `FixturesStayWithTheirRun` | `RunStoreProofs` | `FixturesAreKept` | For any processes, stops, cleans and edits of fixture files, a run with a row has fixtures beside it and a reproduction uses and keeps those of its run. |
| `TypeCorrect` | `ReplacementProofs` | `TypeOK` | Every variable of the decision has its type, for any suite, replies and thresholds. |
| `RecommendationsAreEarned` | `ReplacementProofs` | `RecommendedOnEvidence` | Eligible and recommended candidates have the evidence for it in the stored results: sample, policy, constraints, known costs. |
| `FirstStagesAreCovered` | `ReplacementProofs` | `FirstStageIsCovered` | A candidate that failed a gate is a first stage only in a cascade that covers for it. |
| `NoGateWorksBackwards` | `ReplacementProofs` | `RightAnswersHelpWhoGivesThem` | For any suites, replies and thresholds, correcting one answer of a candidate never costs it its eligibility, and correcting one of the baseline never earns the candidate one. |
| `BothConsentsAreNeeded` | `CommandsProofs` | `CompatibleNeedsBothConsents` | For any suites, options, fixture files and servers, no command builds an OpenAI-compatible provider of an external endpoint without both consents, and none of a hosted service. |
| `AcceptedRunsAreSaved` | `CommandsProofs` | `AcceptedIsCarriedOut` | For any suites, options, files and servers, a run that a dry run accepted is saved unless its --model is unknown, an answer raises, a served model raises what its adapter does not map or the save fails, and a saved run of all models has decided on every candidate its suite names. |
| `RunsRepeat` | `CommandsProofs` | `ReproductionRepeats` | Whatever happens to the fixture files, reproduce never reports drift, and a saved run of all models on deterministic ones repeats unless two copies got one name or the save of the reproduction fails. |
| `OutputsOnly` | `DatasetFilesProofs` | `OnlyOutputsChange` | For any files, links between them and commands, a command leaves its input alone, and one that is killed or ends with an error, a write that raises included, has changed only files that hold one of its outputs whole and the one it was writing. |
| `SplitsPartition` | `DatasetFilesProofs` | `SplitPartitions` | For datasets of any size, any distinct hashes and any percentage, a split that succeeds leaves two disjoint, non-empty datasets that make up its input. |
| `InputsAreKeptTheorem` | `DatasetFilesProofs` | a part of it | Also with any number of processes at once, none writes to the file it reads. |
| `DestinationsAreApart` | `EvidenceProofs` | `DestinationsAreKept` | For any paths, hard links and existing files, route-plan keeps its input and, when it succeeds, every artifact in its own file. |
| `BetterTasksRouteNoWorse` | `EvidenceProofs` | `BetterTaskRoutesNoWorse` | For any tasks, thresholds and profile, a task on which the candidate did no worse gets a route that trusts it no less. |
| `RoutingIsNoDearer` | `EvidenceProofs` | `BlendedNeverDearer` | For plans of any length, when every baseline cost is known and not zero, a known blended cost is at most the cost of the baseline. |
| `FailuresNeverHelp` | `EvidenceProofs` | `FailureNeverHelps` | For any evidence, one more failed row of the candidate never improves the exit decision. |
| `LoadersAgree` | `EvidenceProofs` | `RunAndRowsAgree` | For any evidence, when every scored result has a price, the loader of a stored run and the loader of its rows lead to the same decision. |
| `GatesAreMonotone` | `EvidenceProofs` | `GateIsMonotone` | For any artifacts and thresholds, the gate is no stricter with a candidate one of whose metrics is at its best. |
| `MissingEvidenceIsNoPass` | `EvidenceProofs` | `WithheldEvidenceNeverPasses` | For any artifacts and thresholds, leaving out a metric or all cases of a risk level never makes a gate pass. |
| `ChainsTellTampering` | `EvidenceProofs` | `TamperEvident` | For audit files of any length, the log that was written verifies, and none does in which an event but the last was dropped, moved or rewritten. |
| `EvaluationIsTheMonitors` | `EvidenceProofs` | `ImplementsMonitor` | For traces of any length and any delivery, the evaluation implements the abstract monitor WorkflowMonitor. |
| `TracesAreParts` | `EvidenceProofs` | `AcceptedIsAPart` | Whatever steps are lost, repeated or exchanged on the way, an accepted trace shows no call, failure, recovery or cost the workflow did not have. |
| `WorkflowsAreFair` | `EvidenceProofs` | `WorkflowsAreJudgedFairly` | For workflows of any length, no later step takes back a loop, a denied step, a review or an excess, and the independently computed tool scores agree. |
| `RowsCountOnce` | `EvidenceProofs` | `EveryRowCountsOnce` | For files of any length and any keys, the samples and failures of the summaries add up to the rows and the failed rows of the file. |
| `ReportsStayAboutTheSame` | `EvidenceProofs` | `ReportsAreAboutTheSame` | For files of any length, a later report with the same options is about the same two models, on no less evidence. |
| `LabelsNeverFlatter` | `EvidenceProofs` | `OutcomesNeverFlatter` | For label files of any length, a failure added to a side never helps it, a value withheld never makes its success cheaper, and a file imported twice says what it said. |
| `ResplitsKeepSides` | `DatasetFilesProofs` | `ResplitMovesOne` | For any processes, files and stops, a dataset that grows by a case keeps its split but for at most one of the other cases. |
| `PricesAreKept` | `CommandsProofs` | `SetIsKept` | For any processes that set prices and stop anywhere, a price that was set is found, commands list no model twice, and a price marked as measured is the measured one. |
| `GradesAreSound` | `CommandsProofs` | `GradingIsSound` | For any evaluators in any order, cases and answers, what an evaluator says does not depend on those that ran before it, and the score of a case agrees with its verdict. |
| `SplitsArePartitions` | `CommandsProofs` | `SplitPartitions` | Also among all the commands of a user, a split that succeeds leaves two disjoint, non-empty datasets that make up its input. |
| `DatasetsAreKept` | `CommandsProofs` | `OnlyOutputsChange` | Also among all the commands of a user, a command leaves its input alone, and one that is killed or fails has changed only files that hold one of its outputs whole and the one it was writing. |
| `GrownDatasetsKeepSides` | `CommandsProofs` | `ResplitMovesOne` | Also among all the commands of a user, a dataset that grows by a case keeps its split but for one case. |

`EscalatingFailuresLosesNothing` assumes that the configured conditions are
among `evaluator_failure`, `policy_failure` and `timeout`, the three that a
successful result cannot meet; under the others an escalation can lose a success,
which is why `EscalationOnlyHelps` allows it where the first result was doubted.

The inductive invariants, and why the properties alone are not inductive:

* **Runner.**  `TypeInv` adds to `TypeOK` that a returned task has an outcome and
  what tasks do while the main coroutine is elsewhere (otherwise a batch could
  start on leftovers); `Conserved` that calls in flight and free permits add up;
  `FailureInv` ties `raised`, `main` and `client` together: the normal path means
  no exception, the aborting one means one.  `RetryInv` bounds retries of tasks
  still running, from which that of recorded results follows when they are
  collected.  `OrderInv` says which batches are in the list at each point of the
  main coroutine, `BatchesOf` that a list is made of that many whole batches in
  the order of the suite.  The refinement uses the same invariants, one lemma for steps of
  tasks and one for steps of the main coroutine.
* **Cascade.**  `InLoop` says where in the list of cases the loop is; `CloseInv`
  which clients can be open where; `CountInv` relates the counters to the
  results so far, including one whose second call is outstanding; `TraceInv`
  is `EscalationIsTraceable` with that outstanding call made explicit.
  `BookInv` equates each counter with the number of stored results it stands
  for, at every point of the loop and again with the outstanding call; an
  exception leaves with a case begun and not counted, so `AddUpInv` claims it
  only where none was raised.
* **RunStore.**  `StoreInv` = types, `Coherent` (a file that exists has its
  directory, a process writes what it says it writes), `Allocated` (a run has
  one owner and was created), `Saved` (a saver past a file has left it whole
  unless the run is being cleaned) and `Indexed` (a row implies that its saver
  passed every file).  `Cleaning` follows a cleaner through `delete`.
  `FixtureInv` says of each process what the copy of the fixtures holds that it
  reads or has written: a reproducer reads before it creates its run, copies
  last, and in between others may clean the run it reads from.
* **Replacement.**  `Shape` relates the results to the mode and the count of
  final successes, `Judged` says that a decision is `Decide` of the summaries
  of the stored results; the rest is about `Decide` alone.  That no gate works
  backwards is one lemma for each number of a summary: what one corrected answer
  does to a count, a sum and a rate, and from those to each gate.
* **RunCommand.**  `ConsentInv`: what was decided about hosted endpoints follows
  from the suite and the options the command keeps (`Consented`), and everything
  built passed `build_provider` under that decision (`BuiltByConsent`); the
  property alone does not say what the next model will be built under.
* **DatasetFiles.**  `FilesInv` says of every process under way that the writes
  it has left spare its input (`Sound`), from which inputs are kept with any
  number of processes.  The rest is about one process, as in the run: `Contained`
  that every file is as the command found it, holds one of its outputs or is the
  one being written, `HalfSplit` that what a split is going to write are
  the parts of what its input still holds.  That no part is empty rests on
  `FirstAndLast`: nothing comes before the first case, all others before the
  last.  Assumed (`Directory`): files and commands have their types, and no two
  cases have one hash.
* **RunCommand**, further.  `OrderInv`: the suite of a command and of each saved
  run is a suite `validate_suite` let pass, the models still to do are a tail of
  the ones chosen, and what was decided is decided for all of them.  `PromiseInv`:
  what a dry run foretold was, in the world it looked at, ready to be built, and
  the world has not changed since.  `ToldInv`: the results so far are those the
  fixtures hold for the models that had their turn.  `SavedInv`: a saved run
  carries copies of its fixtures that say what its results say, under names that
  lead back to them, and a reproduction has the results of its origin.
* **Evidence: plans, reports, gates.**  `PlanInv`: writing begins only when no
  destination is the input or another destination, and what was asked for is
  written or still to be written; the plan is that of the input.  `JudgedInv`
  says the same of a report and of a gate: the verdict is that of the input.
  The rest is about the decisions.  `RouteIsMonotone` takes one lemma for each
  rule of `decide_task_route`, `FailuresNeverHelp` one for each rule of
  `decide_exit` and for each mean of a summary, `GatesAreMonotone` and
  `MissingEvidenceIsNoPass` one for each kind of check of `evaluate_gate`.
* **Evidence: audit files.**  `AuditInv`: an audit file holds the events of some
  list of bodies.  A chain whose event `i` was changed and whose next event was
  made to fit breaks at the event after that, unless there is none.
* **Evidence: workflows.**  `TracesInv` says what a trace is made of.
  `EvaluationIsTheMonitors` shows, for each of the six values, that its
  comprehension over a trace with one step more is the monitor's update;
  `TracesAreParts` that an accepted delivery is a strictly increasing choice of
  places, and that each value of it is bounded by that of the whole.
* **Evidence: rows and labels.**  `FileInv`: a file is a list.  Every row falls in
  the bucket of exactly one first row, and adding up over the first rows counts
  each row once (`RowsCountOnce`).  `AboutInv`: what the last report was about is
  what the file would still select, on no less evidence; it needs to be carried
  along, since a report says nothing of a file that has grown since.
  `LabelsInv` types the two files; `LabelsNeverFlatter` rests on what a record
  more, a value less and a file twice do to each count, and on lemmas about
  division, because the code compares rates rounded to four places: rounding
  keeps order, and twice a count over twice a total is rounded to the same.
* **`SumsProofs`** are the lemmas they share: what a sum of a list with one number
  more, one changed or one left out is, sums that are smaller number by number,
  counting as a sum of ones, comprehensions, and the division above.  Facts that
  would need induction are proved by taking the least place where they fail.

* **Commands: prices.**  `PricesInv`: the file finds every price that was told
  (`FileIsKept`), and so will the list a process is about to write
  (`WritersAreReady`) of those that were told when the process read the file:
  its write forgets the others, in the code and in `told`.  `KeptPrices` asks of a list that what it
  has twice the user had listed twice, and that a measured price is the measured
  one, which loading and setting keep (`PricesLoad`).
* **Commands: grading.**  `GradeInv`: the shared context holds a parse exactly
  when an evaluator so far needed one (`ContextFits`), hence each verdict is what
  that evaluator says on its own (`EachOnItsOwn`).  `EvaluateIsHonest` then shows
  of every evaluator that a failure costs score and a success has all of it, but
  for the exceptions the property names, and `QualityFollows` that a weighted
  mean is whole exactly when each of its parts is.
* **Commands: datasets.**  `DatasetFilesProofs` is instantiated with the
  constants of the composition, and a behaviour of it is shown to be one of
  `DatasetFiles` (`FilesPart`), so its theorems are cited and not repeated.
  `ResplitsKeepSides` rests on ranks: adding a case moves the place of each
  other case by at most one and the border by at most one.

The constants the proofs need are asked of in named assumptions (`FilesAssumption`,
`PricesAssumption`, `GradesAssumption` and those of the other modules), which TLC
evaluates for the instance of each run.

Only model-checked: `Termination` and every other behaviour that needs fairness
(liveness is beyond the prover); and of `OnlyOutputsChange` and
`SplitPartitions`, which are proved for one process at a time as in the run, what
several processes at once do to each other.  Every other property of a passing
run is a theorem.  The violated runs are refutations and need no proof.

## 6. What is not modelled

* Floating-point rounding: rates, means, scores and percentages are exact
  fractions (`Outcomes` rounds as the code does, because its comparison is of
  rounded rates).
* What a prompt, an answer, a pattern or a schema says: texts are the phrases in
  them, and a pattern or schema either matches or does not.
  An `allowed` of the citation evaluator that is given and empty stands in the
  model as a set with a name nobody cites, since the empty set means none given.
  `_normalized_terms` is replaced by what its result does.
* Wording, formats and renderings (`reports/markdown.py`, `html.py`,
  `csv_report.py`, `json_report.py`); the contents of the AIMeter export.
* `statistics.py`: confidence intervals and a seeded bootstrap in floating
  point, by which no other component decides.
* What `security/redaction.py` and `privacy.py` mask, which is a matter of
  characters, and the preflights of `replay.py`, which are conjunctions of their
  arguments.
* Parsing of YAML and the exported JSON schemas; field constraints other than
  those the overrides bypass.
* The conversion of a run into telemetry records, and the digest of a dataset.
* The commands that read one record and print it: `compare`, `report`, `runs
  list`, `schema`, `models`, `providers`, `examples`, `doctor`, `dataset
  validate`, `inspect` and `digest`.
* The Forge adapter, whose client another package keeps.
