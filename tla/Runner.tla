------------------------------- MODULE Runner -------------------------------
(***************************************************************************)
(* The comparison path of `modelswapbench run`: BenchmarkRunner.run,       *)
(* _run_comparison, run_bounded, run_case, call_with_retry and the HTTP    *)
(* client a provider opens and closes, down to the exit code of the CLI.   *)
(*                                                                         *)
(* One asyncio event loop runs the main coroutine and, per model, one task *)
(* per (case, repetition).  A step of the model is what a coroutine does   *)
(* between two suspension points.                                          *)
(***************************************************************************)
EXTENDS Integers, FiniteSets, Sequences

CONSTANTS
  NModels,          \* models of the run, in suite order
  NTasks,           \* cases x repetitions, in the order of the factories
  Concurrencies,    \* what execution.concurrency may be: --concurrency
                    \* overrides it with any integer
  MAX_CONCURRENCY,  \* the ceiling of scheduler.py
  Retries,          \* extra attempts per model (model.retries, or the suite's)
  HttpModels        \* models whose provider keeps an HTTP client
                    \* (Ollama, OpenAI-compatible)

ASSUME NModelsAssumption == NModels \in Nat
ASSUME NTasksAssumption == NTasks \in Nat
ASSUME ConcurrencyAssumption == Concurrencies \subseteq Int
ASSUME CeilingAssumption == MAX_CONCURRENCY \in Nat \ {0}
ASSUME RetriesAssumption == Retries \in [1 .. NModels -> Nat]
ASSUME HttpAssumption == HttpModels \subseteq 1 .. NModels

Models == 1 .. NModels
Tasks == 1 .. NTasks

(* How a provider call can end that run_case turns into a result.  Whether *)
(* the answer passed its evaluators (success or failed) is Evaluation's     *)
(* matter.  The two errors that end as CaseStatus.ERROR are told apart by  *)
(* result.error.                                                            *)
Answered == {"answered"}
Retryable == {"timeout", "response"}
Outcomes == Answered \cup Retryable \cup {"unavailable"}

Exceptions == {"unavailable", "config", "other"}

(* errors.ExitCode *)
SUCCESS == 0
CONSTRAINTS_FAILED == 1
INVALID_INPUT == 2
PROVIDER_UNAVAILABLE == 3
PARTIAL_RUN == 4
INTERNAL_ERROR == 5

ExitCodeOf(exception) ==
  CASE exception = "config" -> INVALID_INPUT
    [] exception = "unavailable" -> PROVIDER_UNAVAILABLE
    [] OTHER -> INTERNAL_ERROR

Result == [model : Models, task : Tasks, outcome : Outcomes, retries : Nat]

VARIABLES
  main,         \* where the main coroutine is
  model,        \* the model being run; 0 before the first
  pc,           \* per task of the current batch
  retries,      \* RetryOutcome.retries, per task
  outcome,      \* how the task's call ended
  permits,      \* the semaphore's value
  client,       \* the provider's _client: "none", "open", or "closed" while
                \* aclose() has closed it and not yet set it to None
  raised,       \* the exception that will leave run(), or "none"
  caseResults,  \* run.case_results
  concurrency,  \* execution.concurrency, as the options left it
  passed,       \* run.all_constraints_passed, once finalized
  stored,       \* whether the run is in the repository
  exit          \* the process exit code, -1 while running

taskVars == <<pc, retries, outcome, permits>>
runVars == <<concurrency, caseResults, passed, stored, exit>>
vars == <<main, model, taskVars, client, raised, runVars>>

(* limit = max(1, min(concurrency, MAX_CONCURRENCY)) *)
Limit ==
  LET capped == IF concurrency < MAX_CONCURRENCY THEN concurrency
                                                 ELSE MAX_CONCURRENCY
  IN  IF capped < 1 THEN 1 ELSE capped

Points == {"build", "health", "gather", "close", "abort", "unwind",
           "finalize", "save", "exited"}
TaskPoints == {"idle", "queued", "calling", "returned", "raised", "cancelled"}

Init ==
  /\ concurrency \in Concurrencies
  /\ main = (IF NModels = 0 THEN "finalize" ELSE "build")
  /\ model = (IF NModels = 0 THEN 0 ELSE 1)
  /\ pc = [t \in Tasks |-> "idle"]
  /\ retries = [t \in Tasks |-> 0]
  /\ outcome = [t \in Tasks |-> "none"]
  /\ permits = Limit
  /\ client = "none"
  /\ raised = "none"
  /\ caseResults = << >>
  /\ passed = FALSE
  /\ stored = FALSE
  /\ exit = -1

-----------------------------------------------------------------------------
(* The semaphore of run_bounded and the client of a provider.               *)

LoopAlive == main \in {"gather", "abort", "unwind"}

(* Mutant: no semaphore. *)
MayEnterUnbounded(t) ==
  /\ LoopAlive
  /\ pc[t] = "queued"
  /\ \A u \in Tasks : u < t => pc[u] # "queued"

(* The semaphore admits the tasks in the order they came (asyncio.Semaphore,*)
(* taken as given).                                                         *)
MayEnter(t) ==
  /\ LoopAlive
  /\ pc[t] = "queued"
  /\ permits > 0
  /\ \A u \in Tasks : u < t => pc[u] # "queued"

(* _get_client, called by health() and by every attempt. *)
OpenClient == client' = IF model \in HttpModels THEN "open" ELSE client

(* aclose() closes the client, suspends, and then forgets it. *)
StartClose == client' = IF client = "none" THEN "none" ELSE "closed"

(* Mutant: the reference to the closed client is kept. *)
KeepClient == client' = client

ReleaseClient == client' = "none"

-----------------------------------------------------------------------------
(* The main coroutine: one provider at a time. *)

BuildProvider ==
  /\ main = "build"
  /\ main' = "health"
  /\ UNCHANGED <<model, taskVars, client, raised, runVars>>

(* build_provider refuses a hosted model, or an unusable configuration.  It *)
(* is called before the try, so nothing is closed.                          *)
BuildRefused ==
  /\ main = "build"
  /\ main' = "unwind"
  /\ raised' \in {"unavailable", "config"}
  /\ UNCHANGED <<model, taskVars, client, runVars>>

(* health() opens the client.  An unavailable provider is only a warning    *)
(* (run.warnings, left out): the cases run anyway.  run_bounded then creates one task per factory.    *)
HealthChecked ==
  /\ main = "health"
  /\ main' = "gather"
  /\ OpenClient
  /\ pc' = [t \in Tasks |-> "queued"]
  /\ UNCHANGED <<model, retries, outcome, permits, raised,
                 concurrency, caseResults, passed, stored, exit>>

(* health() raises what it does not catch (a body that is not JSON): the    *)
(* finally clause starts to close the client it opened.                     *)
HealthRaised ==
  /\ main = "health"
  /\ model \in HttpModels
  /\ main' = "abort"
  /\ client' = "closed"
  /\ raised' = "other"
  /\ UNCHANGED <<model, taskVars, runVars>>

(* gather returns once every task has returned. *)
GatherReturned ==
  /\ main = "gather"
  /\ \A t \in Tasks : pc[t] = "returned"
  /\ main' = "close"
  /\ StartClose
  /\ UNCHANGED <<model, taskVars, raised, runVars>>

(* gather raises the first exception and does not cancel the other tasks.   *)
(* The task that inherits the permit is woken before the main coroutine is. *)
GatherRaised ==
  /\ main = "gather"
  /\ \E t \in Tasks : pc[t] = "raised"
  /\ \A t \in Tasks : ~MayEnter(t)
  /\ main' = "abort"
  /\ StartClose
  /\ UNCHANGED <<model, taskVars, raised, runVars>>

(* Mutant: a list filled from its other end. *)
BatchResultsReversed ==
  [t \in Tasks |-> [model |-> model, task |-> NTasks + 1 - t,
                    outcome |-> outcome[NTasks + 1 - t],
                    retries |-> retries[NTasks + 1 - t]]]

(* What the current batch adds to run.case_results: in factory order,       *)
(* whatever order the tasks ended in.                                       *)
BatchResults ==
  [t \in Tasks |-> [model |-> model, task |-> t,
                    outcome |-> outcome[t], retries |-> retries[t]]]

(* aclose() completes after a batch that returned: the results are added    *)
(* and the loop moves to the next model with fresh tasks.                   *)
BatchClosed ==
  /\ main = "close"
  /\ ReleaseClient
  /\ caseResults' = caseResults \o BatchResults
  /\ pc' = [t \in Tasks |-> "idle"]
  /\ retries' = [t \in Tasks |-> 0]
  /\ outcome' = [t \in Tasks |-> "none"]
  /\ \/ model < NModels /\ model' = model + 1 /\ main' = "build"
     \/ model = NModels /\ model' = model /\ main' = "finalize"
  /\ UNCHANGED <<permits, raised, concurrency, passed, stored, exit>>

(* aclose() completes after an exception, which then leaves run().          *)
AbortClosed ==
  /\ main = "abort"
  /\ main' = "unwind"
  /\ ReleaseClient
  /\ UNCHANGED <<model, taskVars, raised, runVars>>

(* Mutant: a client that did not close is only a nuisance. *)
CloseErrorIgnored ==
  /\ main \in {"close", "abort"}
  /\ client = "closed"
  /\ main' = (IF main = "close" THEN "finalize" ELSE "unwind")
  /\ raised' = "other"
  /\ UNCHANGED <<model, taskVars, client, runVars>>

(* The client raises while it closes (a transport error), in the finally    *)
(* clause: that exception leaves run(), in place of the batch's results or  *)
(* of the exception in flight, and the closed client is not forgotten.      *)
CloseRaised ==
  /\ main \in {"close", "abort"}
  /\ client = "closed"
  /\ main' = "unwind"
  /\ raised' = "other"
  /\ UNCHANGED <<model, taskVars, client, runVars>>

(* What a cancellation makes of a task. *)
Cancel(p) == IF p \in {"queued", "calling"} THEN "cancelled" ELSE p

(* asyncio.run cancels what is left; the exception decides the exit code.   *)
Unwind ==
  /\ main = "unwind"
  /\ main' = "exited"
  /\ pc' = [t \in Tasks |-> Cancel(pc[t])]
  /\ permits' = Limit
  /\ exit' = ExitCodeOf(raised)
  /\ UNCHANGED <<model, retries, outcome, client, raised,
                 concurrency, caseResults, passed, stored>>

-----------------------------------------------------------------------------
(* One task: _guarded(run_case(call_with_retry(provider.complete))).        *)

(* An exception escapes the task.  The first one of a batch is the one      *)
(* gather raises.                                                           *)
RaiseInTask(t, e) ==
  /\ pc' = [pc EXCEPT ![t] = "raised"]
  /\ raised' = IF raised = "none" THEN e ELSE raised

(* run_case returns a result and the semaphore is released. *)
Return(t, o) ==
  /\ pc' = [pc EXCEPT ![t] = "returned"]
  /\ outcome' = [outcome EXCEPT ![t] = o]
  /\ permits' = permits + 1

(* An attempt starts.  A client that is being closed refuses to send.       *)
Enter(t) ==
  /\ MayEnter(t)
  /\ client # "closed"
  /\ OpenClient
  /\ pc' = [pc EXCEPT ![t] = "calling"]
  /\ permits' = permits - 1
  /\ UNCHANGED <<main, model, retries, outcome, raised, runVars>>

EnterRefused(t) ==
  /\ MayEnter(t)
  /\ client = "closed"
  /\ RaiseInTask(t, "other")
  /\ UNCHANGED <<main, model, retries, outcome, permits, client, runVars>>

Calling(t) == LoopAlive /\ pc[t] = "calling"

(* A response, evaluated. *)
Answer(t) ==
  /\ Calling(t)
  /\ \E o \in Answered : Return(t, o)
  /\ UNCHANGED <<main, model, retries, client, raised, runVars>>

(* ProviderUnavailableError is never retried. *)
Unavailable(t) ==
  /\ Calling(t)
  /\ Return(t, "unavailable")
  /\ UNCHANGED <<main, model, retries, client, raised, runVars>>

(* Another ProviderError on the last attempt. *)
GiveUp(t) ==
  /\ Calling(t)
  /\ retries[t] = Retries[model]
  /\ \E o \in Retryable : Return(t, o)
  /\ UNCHANGED <<main, model, retries, client, raised, runVars>>

(* Mutant: a retry goes back to the semaphore and is not counted. *)
RetryRequeued(t) ==
  /\ Calling(t)
  /\ retries[t] < Retries[model]
  /\ client # "closed"
  /\ pc' = [pc EXCEPT ![t] = "queued"]
  /\ permits' = permits + 1
  /\ UNCHANGED <<main, model, client, retries, outcome, raised, runVars>>

(* ... or on an earlier one: the next attempt starts in the same step.      *)
Retry(t) ==
  /\ Calling(t)
  /\ retries[t] < Retries[model]
  /\ client # "closed"
  /\ OpenClient
  /\ retries' = [retries EXCEPT ![t] = @ + 1]
  /\ UNCHANGED <<main, model, pc, outcome, permits, raised, runVars>>

RetryRefused(t) ==
  /\ Calling(t)
  /\ retries[t] < Retries[model]
  /\ client = "closed"
  /\ retries' = [retries EXCEPT ![t] = @ + 1]
  /\ RaiseInTask(t, "other")
  /\ permits' = permits + 1
  /\ UNCHANGED <<main, model, outcome, client, runVars>>

(* What can escape a task: a deterministic fixture that is not a mapping    *)
(* raises ConfigError; a body that is not JSON, a transport error the       *)
(* provider does not map and an evaluator that raises are something else.   *)
Escaping == IF model \in HttpModels THEN {"other"} ELSE {"config", "other"}

(* Anything that is not a ProviderError. *)
Crash(t) ==
  /\ Calling(t)
  /\ \E e \in Escaping : RaiseInTask(t, e)
  /\ permits' = permits + 1
  /\ UNCHANGED <<main, model, retries, outcome, client, runVars>>

TaskStep(t) ==
  \/ Enter(t) \/ EnterRefused(t) \/ Answer(t) \/ Unavailable(t)
  \/ GiveUp(t) \/ Retry(t) \/ RetryRefused(t) \/ Crash(t)

-----------------------------------------------------------------------------
(* The CLI command after the event loop.                                    *)

(* _finalize: summaries and constraints, which Replacement models; here     *)
(* only their verdict.                                                      *)
Finalize ==
  /\ main = "finalize"
  /\ main' = "save"
  /\ passed' \in BOOLEAN
  /\ UNCHANGED <<model, taskVars, client, raised, concurrency, caseResults, stored,
                 exit>>

(* CaseStatus.ERROR *)
IsError(r) == r.outcome \in {"unavailable", "response"}
RecordedResults == {caseResults[i] : i \in DOMAIN caseResults}

RunExitCode ==
  IF \E r \in RecordedResults : IsError(r)
  THEN IF \A r \in RecordedResults : IsError(r) THEN PROVIDER_UNAVAILABLE
                                                ELSE PARTIAL_RUN
  ELSE IF ~passed THEN CONSTRAINTS_FAILED ELSE SUCCESS

Save ==
  /\ main = "save"
  /\ main' = "exited"
  /\ stored' = TRUE
  /\ exit' = RunExitCode
  /\ UNCHANGED <<model, taskVars, client, raised, concurrency, caseResults,
                 passed>>

(* repo.save raises (disk, database): the run is lost. *)
SaveRaised ==
  /\ main = "save"
  /\ main' = "exited"
  /\ raised' = "other"
  /\ exit' = INTERNAL_ERROR
  /\ UNCHANGED <<model, taskVars, client, concurrency, caseResults, passed,
                 stored>>

MainStep ==
  \/ BuildProvider \/ BuildRefused \/ HealthChecked \/ HealthRaised
  \/ GatherReturned \/ GatherRaised \/ BatchClosed \/ AbortClosed \/ CloseRaised \/ Unwind
  \/ Finalize \/ Save \/ SaveRaised

(* The process has ended. *)
Exited == main = "exited" /\ UNCHANGED vars

Next == MainStep \/ (\E t \in Tasks : TaskStep(t)) \/ Exited

Spec == Init /\ [][Next]_vars

(* The event loop runs every coroutine that can run, and every provider     *)
(* call ends: each request carries timeout_seconds.                         *)
Fairness == WF_vars(MainStep) /\ \A t \in Tasks : WF_vars(TaskStep(t))

FairSpec == Spec /\ Fairness
-----------------------------------------------------------------------------
(* Properties. *)

InFlight == {t \in Tasks : pc[t] = "calling"}

(* Every variable has its type. *)
TypeOK ==
  /\ concurrency \in Concurrencies
  /\ main \in Points
  /\ model \in 0 .. NModels
  /\ pc \in [Tasks -> TaskPoints]
  /\ retries \in [Tasks -> Nat]
  /\ outcome \in [Tasks -> Outcomes \cup {"none"}]
  /\ permits \in 0 .. Limit
  /\ client \in {"none", "open", "closed"}
  /\ raised \in Exceptions \cup {"none"}
  /\ caseResults \in Seq(Result)
  /\ passed \in BOOLEAN
  /\ stored \in BOOLEAN
  /\ exit \in -1 .. 5

(* run_bounded: "at most ``concurrency`` in flight", and never more than    *)
(* the ceiling, on every path a call can end on: whichever way tasks        *)
(* return, retry, raise or are cancelled, no permit is lost or given twice. *)
BoundedInFlight ==
  /\ Cardinality(InFlight) + permits = Limit
  /\ Limit <= MAX_CONCURRENCY

(* _run_comparison: models run one after the other.  When a batch has been  *)
(* collected or the next provider is being built, no call of an earlier     *)
(* model is queued or in flight, and none has raised.                       *)
SequentialModels ==
  main \in {"build", "health", "close", "finalize", "save"} =>
    \A t \in Tasks : pc[t] \in {"idle", "returned"}

(* call_with_retry: a timeout or a bad response is recorded only once every *)
(* retry of the model was used, and no result used more than the budget.    *)
RetryBudget ==
  \A r \in RecordedResults :
    /\ r.retries <= Retries[r.model]
    /\ r.outcome \in Retryable => r.retries = Retries[r.model]

(* A stored run is whole: it has one result per model, case and repetition, *)
(* in suite order, although the calls end in any order.                     *)
CompleteAndOrdered ==
  stored =>
    /\ Len(caseResults) = NModels * NTasks
    /\ \A i \in DOMAIN caseResults :
         /\ caseResults[i].model = ((i - 1) \div NTasks) + 1
         /\ caseResults[i].task = ((i - 1) % NTasks) + 1

(* A run out of which an exception escaped (a call, an evaluator, a client  *)
(* that does not close after every call was answered, the save) is never    *)
(* stored and never exits with a code that reports on an evaluated run      *)
(* (0, 1 or 4).                                                             *)
RaisedRunIsLost ==
  raised # "none" =>
    /\ ~stored
    /\ main = "exited" =>
         exit \in {INVALID_INPUT, PROVIDER_UNAVAILABLE, INTERNAL_ERROR}

(* Each provider is closed before the next one is built and before the run  *)
(* is scored and stored.                                                    *)
ClientReleased ==
  \/ main \in {"build", "finalize", "save"}
  \/ main = "exited" /\ stored
  => client = "none"

(* Nothing is queued or in flight when the process ends. *)
NothingLeftBehind ==
  main = "exited" => \A t \in Tasks : pc[t] \notin {"queued", "calling"}

(* The process ends, whatever the calls do: no task waits for a permit that *)
(* never comes, no batch waits for a task that never ends.                  *)
Termination == <>(main = "exited")

(* The runner does what BatchExecutor promises.  Its status follows from    *)
(* where the main coroutine is.                                             *)
Ended == {t \in Tasks : pc[t] \in {"returned", "raised"}}

Status ==
  IF main \in {"build", "health", "gather", "close"} THEN "working"
  ELSE IF main \in {"abort", "unwind"} THEN "broken"
  ELSE IF main \in {"finalize", "save"} \/ raised = "none" THEN "complete"
  ELSE "over"

Executor == INSTANCE BatchExecutor WITH
  NBatches <- NModels, Ceiling <- MAX_CONCURRENCY, limit <- Limit,
  batch <- model, running <- InFlight, ended <- Ended, status <- Status

ImplementsExecutor == Executor!Spec

-----------------------------------------------------------------------------
(* What the documentation says and the code does not do.                    *)

(* docs/ci-integration.md: "4 | partial / degraded run", "3 | required      *)
(* provider unavailable".  So a run none of whose calls was answered does   *)
(* not exit with 0.                                                         *)
SilenceIsNotSuccess ==
  exit = SUCCESS /\ RecordedResults # {} =>
    \E r \in RecordedResults : r.outcome \in Answered

(* Provider.aclose, called in the runner's finally: "Release any resources  *)
(* (HTTP clients, pools)".  So no client is open when the process ends.     *)
ReleasedAtExit == main = "exited" => client # "open"
=============================================================================
