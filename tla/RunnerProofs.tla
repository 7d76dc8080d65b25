---------------------------- MODULE RunnerProofs ----------------------------
(* Theorems about Runner, for every number of models and tasks, every      *)
(* concurrency and every retry budget.                                     *)
EXTENDS Runner, FiniteSetTheorems, SequenceTheorems, TLAPS

(* The clamp of run_bounded. *)
LEMMA LimitType ==
  ASSUME concurrency \in Concurrencies
  PROVE  Limit \in Nat /\ Limit >= 1 /\ Limit <= MAX_CONCURRENCY
  BY ConcurrencyAssumption, CeilingAssumption DEF Limit

(* No step changes the concurrency of the run, nor what it is clamped to. *)
LEMMA LimitKept ==
  ASSUME [Next]_vars
  PROVE  concurrency' = concurrency /\ Limit' = Limit
<1>1. concurrency' = concurrency
  <2> USE DEF runVars
  <2>1. ASSUME NEW t \in Tasks, TaskStep(t) PROVE concurrency' = concurrency
    BY <2>1 DEF TaskStep, Enter, EnterRefused, Answer, Unavailable, GiveUp, Retry,
                RetryRefused, Crash
  <2>2. CASE MainStep
    BY <2>2 DEF MainStep, BuildProvider, BuildRefused, HealthChecked, HealthRaised,
                GatherReturned, GatherRaised, BatchClosed, AbortClosed, CloseRaised,
                Unwind, Finalize, Save, SaveRaised
  <2>3. CASE UNCHANGED vars
    BY <2>3 DEF vars
  <2> QED BY <2>1, <2>2, <2>3 DEF Next, Exited
<1> QED BY <1>1 DEF Limit

(* A batch that has returned is a sequence of results. *)
LEMMA BatchResultsType ==
  ASSUME TypeOK, model \in Models, \A t \in Tasks : pc[t] = "returned",
         \A t \in Tasks : pc[t] = "returned" => outcome[t] \in Outcomes
  PROVE  BatchResults \in Seq(Result)
<1>1. BatchResults \in [Tasks -> Result]
  BY DEF BatchResults, Result, TypeOK, Models
<1>2. QED
  BY <1>1, NTasksAssumption DEF Tasks

(* The type invariant needs, to be inductive, that a returned task has an   *)
(* outcome, that a batch is only run for a model of the run, and what the   *)
(* tasks are doing when the main coroutine is not waiting for them.         *)
TypeInv ==
  /\ TypeOK
  /\ \A t \in Tasks : pc[t] = "returned" => outcome[t] \in Outcomes
  /\ main \in {"build", "health", "finalize", "save"} =>
       \A t \in Tasks : pc[t] = "idle"
  /\ main = "close" => \A t \in Tasks : pc[t] = "returned"
  /\ main \notin {"finalize", "save", "exited"} => model \in Models

(* At most one of calling, returned or raised holds a permit ... *)
Conserved == Cardinality(InFlight) + permits = Limit

(* The set of tasks in flight is finite. *)
LEMMA InFlightFinite ==
  ASSUME NEW S \in SUBSET Tasks
  PROVE  IsFiniteSet(S) /\ Cardinality(S) \in Nat
<1>1. IsFiniteSet(Tasks)
  BY FS_Interval, NTasksAssumption DEF Tasks
<1>2. QED
  BY <1>1, FS_Subset, FS_CardinalityType

(* Before the first step. *)
LEMMA InitInv == Init => TypeInv /\ Conserved
<1> SUFFICES ASSUME Init PROVE TypeInv /\ Conserved
  OBVIOUS
<1>1. TypeInv
  <2>1. caseResults \in Seq(Result)
    BY EmptySeq DEF Init
  <2>2. model \in 0 .. NModels /\ main \in Points
        /\ (main = "build" => model \in Models) /\ main \in {"build", "finalize"}
    BY NModelsAssumption DEF Init, Points, Models
  <2>3. permits \in 0 .. Limit
    BY LimitType DEF Init
  <2>4. pc \in [Tasks -> TaskPoints] /\ \A t \in Tasks : pc[t] = "idle"
    BY DEF Init, TaskPoints
  <2>5. /\ retries \in [Tasks -> Nat]
        /\ outcome \in [Tasks -> Outcomes \cup {"none"}]
        /\ client \in {"none", "open", "closed"}
        /\ raised \in Exceptions \cup {"none"}
        /\ passed \in BOOLEAN /\ stored \in BOOLEAN
        /\ concurrency \in Concurrencies
    BY DEF Init
  <2>6. exit \in -1 .. 5
    BY DEF Init
  <2>7. TypeOK
    BY <2>1, <2>2, <2>3, <2>4, <2>5, <2>6 DEF TypeOK
  <2>8. QED
    BY <2>2, <2>4, <2>7 DEF TypeInv
<1>2. InFlight = {}
  BY DEF Init, InFlight
<1>3. Conserved
  BY <1>2, FS_EmptySet, LimitType DEF Init, Conserved
<1>4. QED
  BY <1>1, <1>3

(* What one more task in flight does to their number ... *)
LEMMA OneMore ==
  ASSUME NEW S \in SUBSET Tasks, NEW t \in Tasks \ S
  PROVE  Cardinality(S \cup {t}) = Cardinality(S) + 1
  BY InFlightFinite, FS_AddElement

(* ... and one less. *)
LEMMA OneLess ==
  ASSUME NEW S \in SUBSET Tasks, NEW t \in S
  PROVE  Cardinality(S) >= 1 /\ Cardinality(S \ {t}) = Cardinality(S) - 1
<1>1. Cardinality(S \ {t}) = Cardinality(S) - 1
  BY InFlightFinite, FS_RemoveElement
<1>2. Cardinality(S) \in Nat /\ Cardinality(S \ {t}) \in Nat
  BY InFlightFinite
<1>3. QED
  BY <1>1, <1>2

(* A task that ends gives its permit back; one that enters takes one. *)
LEMMA PermitReturned ==
  ASSUME TypeInv, Conserved, NEW t \in Tasks, pc[t] = "calling",
         NEW p \in TaskPoints \ {"calling"},
         pc' = [pc EXCEPT ![t] = p], permits' = permits + 1, Limit' = Limit
  PROVE  permits' \in 0 .. Limit' /\ Conserved'
<1>1. InFlight' = InFlight \ {t} /\ t \in InFlight /\ InFlight \in SUBSET Tasks
  BY DEF InFlight, TypeInv, TypeOK
<1>2. Cardinality(InFlight) >= 1 /\ Cardinality(InFlight') = Cardinality(InFlight) - 1
  BY <1>1, OneLess
<1>3. Cardinality(InFlight) \in Nat
  BY <1>1, InFlightFinite
<1>4. permits \in Nat /\ Limit \in Nat /\ Limit' = Limit
  BY LimitType DEF TypeInv, TypeOK
<1>5. QED
  BY <1>2, <1>3, <1>4 DEF Conserved

(* A task that starts takes its permit. *)
LEMMA PermitTaken ==
  ASSUME TypeInv, Conserved, NEW t \in Tasks, pc[t] # "calling", permits > 0,
         pc' = [pc EXCEPT ![t] = "calling"], permits' = permits - 1, Limit' = Limit
  PROVE  permits' \in 0 .. Limit' /\ Conserved'
<1>1. InFlight' = InFlight \cup {t} /\ t \notin InFlight /\ InFlight \in SUBSET Tasks
  BY DEF InFlight, TypeInv, TypeOK
<1>2. Cardinality(InFlight') = Cardinality(InFlight) + 1
  BY <1>1, OneMore
<1>3. Cardinality(InFlight) \in Nat
  BY <1>1, InFlightFinite
<1>4. permits \in 0 .. Limit /\ Limit \in Nat /\ Limit' = Limit
  BY LimitType DEF TypeInv, TypeOK
<1>5. QED
  BY <1>2, <1>3, <1>4 DEF Conserved

(* What moves no task in or out of the semaphore keeps the sum. *)
LEMMA PermitsKept ==
  ASSUME TypeInv, Conserved, InFlight' = InFlight, permits' = permits, Limit' = Limit
  PROVE  permits' \in 0 .. Limit' /\ Conserved'
  BY DEF TypeInv, TypeOK, Conserved

(* A step of a task. *)
LEMMA TaskInv ==
  ASSUME TypeInv, Conserved, NEW t \in Tasks, TaskStep(t)
  PROVE  TypeInv' /\ Conserved'
<1> USE DEF TypeInv, TypeOK, TaskPoints, LoopAlive
<1>0. concurrency' = concurrency /\ Limit' = Limit
  BY LimitKept DEF Next
<1>1. CASE Enter(t)
  <2>1. permits' \in 0 .. Limit' /\ Conserved'
    BY <1>1, <1>0, PermitTaken DEF Enter, MayEnter
  <2>2. QED
    BY <1>1, <2>1 DEF Enter, MayEnter, OpenClient, runVars
<1>2. CASE EnterRefused(t)
  <2>1. InFlight' = InFlight
    BY <1>2 DEF EnterRefused, MayEnter, RaiseInTask, InFlight
  <2>2. permits' \in 0 .. Limit' /\ Conserved'
    BY <1>2, <2>1, <1>0, PermitsKept DEF EnterRefused
  <2>3. QED
    BY <1>2, <2>2 DEF EnterRefused, MayEnter, RaiseInTask, runVars, Exceptions
<1>3. ASSUME NEW o \in Outcomes, Calling(t), Return(t, o),
             UNCHANGED <<main, model, retries, client, raised, runVars>>
      PROVE  TypeInv' /\ Conserved'
  <2>1. permits' \in 0 .. Limit' /\ Conserved'
    BY <1>3, <1>0, PermitReturned DEF Calling, Return
  <2>2. QED
    BY <1>3, <2>1 DEF Calling, Return, runVars
<1>4. CASE Answer(t)
  BY <1>4, <1>3 DEF Answer, Outcomes
<1>5. CASE Unavailable(t)
  BY <1>5, <1>3 DEF Unavailable, Outcomes
<1>6. CASE GiveUp(t)
  BY <1>6, <1>3 DEF GiveUp, Outcomes
<1>7. CASE Retry(t)
  <2>1. permits' \in 0 .. Limit' /\ Conserved'
    BY <1>7, <1>0, PermitsKept DEF Retry, InFlight
  <2>2. QED
    BY <1>7, <2>1 DEF Retry, Calling, OpenClient, runVars
<1>8. CASE RetryRefused(t)
  <2>1. permits' \in 0 .. Limit' /\ Conserved'
    BY <1>8, <1>0, PermitReturned DEF RetryRefused, Calling, RaiseInTask
  <2>2. QED
    BY <1>8, <2>1 DEF RetryRefused, Calling, RaiseInTask, runVars, Exceptions
<1>9. CASE Crash(t)
  <2>1. permits' \in 0 .. Limit' /\ Conserved'
    BY <1>9, <1>0, PermitReturned DEF Crash, Calling, RaiseInTask
  <2>2. QED
    BY <1>9, <2>1 DEF Crash, Calling, RaiseInTask, Escaping, runVars, Exceptions
<1>10. QED
  BY <1>1, <1>2, <1>4, <1>5, <1>6, <1>7, <1>8, <1>9 DEF TaskStep

(* While no call is in flight, all permits are there. *)
LEMMA NothingInFlight ==
  ASSUME TypeInv, Conserved, \A t \in Tasks : pc[t] # "calling",
         permits' = permits, Limit' = Limit, \A t \in Tasks : pc'[t] # "calling"
  PROVE  /\ permits' \in 0 .. Limit'
         /\ Conserved'
<1>1. InFlight = {} /\ InFlight' = {}
  BY DEF InFlight
<1>2. QED
  BY <1>1, PermitsKept

(* A step of the main coroutine. *)
LEMMA MainInv ==
  ASSUME TypeInv, Conserved, MainStep
  PROVE  TypeInv' /\ Conserved'
<1> USE DEF TypeInv, TypeOK, Points
<1>0. concurrency' = concurrency /\ Limit' = Limit
  BY LimitKept DEF Next
<1>1. ASSUME UNCHANGED <<taskVars, model, caseResults>>,
             main' \in Points \ {"close"},
             main' \in {"build", "health", "finalize", "save"} =>
               \A t \in Tasks : pc[t] = "idle",
             main' \notin {"finalize", "save", "exited"} => model \in Models,
             client' \in {"none", "open", "closed"},
             raised' \in Exceptions \cup {"none"},
             passed' \in BOOLEAN, stored' \in BOOLEAN, exit' \in -1 .. 5
      PROVE  TypeInv' /\ Conserved'
  <2>1. permits' \in 0 .. Limit' /\ Conserved'
    BY <1>1, <1>0, PermitsKept DEF taskVars, InFlight
  <2>2. QED
    BY <1>0, <1>1, <2>1 DEF taskVars
<1>2. CASE BuildProvider
  BY <1>1, <1>2 DEF BuildProvider, runVars
<1>3. CASE BuildRefused
  BY <1>1, <1>3 DEF BuildRefused, runVars, Exceptions
<1>4. CASE HealthChecked
  <2>1. permits' \in 0 .. Limit' /\ Conserved'
    BY <1>4, <1>0, NothingInFlight DEF HealthChecked
  <2>2. QED
    BY <1>0, <1>4, <2>1 DEF HealthChecked, OpenClient, TaskPoints
<1>5. CASE HealthRaised
  BY <1>1, <1>5 DEF HealthRaised, runVars, Exceptions
<1>6. CASE GatherReturned
  <2>1. permits' \in 0 .. Limit' /\ Conserved'
    BY <1>6, <1>0, NothingInFlight DEF GatherReturned, taskVars
  <2>2. QED
    BY <1>0, <1>6, <2>1 DEF GatherReturned, StartClose, taskVars, runVars
<1>7. CASE GatherRaised
  BY <1>1, <1>7 DEF GatherRaised, StartClose, runVars
<1>8. CASE BatchClosed
  <2>1. permits' \in 0 .. Limit' /\ Conserved'
    BY <1>8, <1>0, NothingInFlight DEF BatchClosed, ReleaseClient
  <2>2. caseResults' \in Seq(Result)
    <3>1. BatchResults \in Seq(Result)
      BY <1>8, BatchResultsType DEF BatchClosed, ReleaseClient
    <3>2. QED
      BY <1>8, <3>1, ConcatProperties DEF BatchClosed, ReleaseClient
  <2>3. model' \in 0 .. NModels /\ model' \in Models /\ main' \in {"build", "finalize"}
    BY <1>8, NModelsAssumption DEF BatchClosed, ReleaseClient, Models
  <2>4. QED
    BY <1>0, <1>8, <2>1, <2>2, <2>3 DEF BatchClosed, ReleaseClient, TaskPoints
<1>9. CASE AbortClosed
  BY <1>1, <1>9 DEF AbortClosed, ReleaseClient, runVars
<1>10. CASE Unwind
  <2>1. InFlight' = {} /\ permits' = Limit'
    BY <1>0, <1>10 DEF Unwind, Cancel, InFlight
  <2>2. permits' \in 0 .. Limit' /\ Conserved'
    BY <1>0, <2>1, LimitType, FS_EmptySet DEF Conserved
  <2>3. exit' \in -1 .. 5
    BY <1>10 DEF Unwind, Cancel, ExitCodeOf, INVALID_INPUT, PROVIDER_UNAVAILABLE, INTERNAL_ERROR
  <2>4. pc' \in [Tasks -> TaskPoints]
        /\ \A t \in Tasks : pc'[t] = "returned" => pc[t] = "returned"
    BY <1>10 DEF Unwind, Cancel, TaskPoints
  <2>5. QED
    BY <1>0, <1>10, <2>2, <2>3, <2>4 DEF Unwind, Cancel
<1>11. CASE Finalize
  BY <1>1, <1>11 DEF Finalize
<1>12. CASE Save
  <2>1. exit' \in -1 .. 5
    BY <1>12 DEF Save, RunExitCode, PROVIDER_UNAVAILABLE, PARTIAL_RUN, CONSTRAINTS_FAILED, SUCCESS
  <2>2. QED
    BY <1>1, <1>12, <2>1 DEF Save
<1>13. CASE SaveRaised
  BY <1>1, <1>13 DEF SaveRaised, INTERNAL_ERROR, Exceptions
<1>14. CASE CloseRaised
  BY <1>1, <1>14 DEF CloseRaised, runVars, Exceptions
<1>15. QED
  BY <1>2, <1>3, <1>4, <1>5, <1>6, <1>7, <1>8, <1>9, <1>10, <1>11, <1>12, <1>13, <1>14
  DEF MainStep

(* A step that changes nothing. *)
LEMMA StutterInv ==
  ASSUME TypeInv, Conserved, UNCHANGED vars
  PROVE  TypeInv' /\ Conserved'
<1>1. permits' \in 0 .. Limit' /\ Conserved'
  BY LimitKept, PermitsKept DEF vars, taskVars, InFlight
<1>2. QED
  BY <1>1 DEF vars, taskVars, runVars, TypeInv, TypeOK

(* Types and permits, in every reachable state. *)
LEMMA Invariance == Spec => [](TypeInv /\ Conserved)
<1>1. TypeInv /\ Conserved /\ [Next]_vars => TypeInv' /\ Conserved'
  BY TaskInv, MainInv, StutterInv DEF Next, Exited
<1>2. QED
  BY InitInv, <1>1, PTL DEF Spec

(* Every reachable value of every variable has its type. *)
THEOREM TypeCorrect == Spec => []TypeOK
<1>1. TypeInv => TypeOK
  BY DEF TypeInv
<1>2. QED
  BY <1>1, Invariance, PTL

(* run_bounded: for every configured concurrency, every number of models,   *)
(* tasks and retries, and whatever the calls do, permits and calls in       *)
(* flight always add up to the limit, which never exceeds the ceiling.      *)
THEOREM BoundedConcurrency == Spec => []BoundedInFlight
<1>1. TypeInv /\ Conserved => BoundedInFlight
  BY LimitType DEF Conserved, BoundedInFlight, TypeInv, TypeOK
<1>2. QED
  BY <1>1, Invariance, PTL

(* SequentialModels is part of the type invariant's strengthening. *)
THEOREM ModelsAreSequential == Spec => []SequentialModels
<1>1. TypeInv => SequentialModels
  BY DEF TypeInv, SequentialModels
<1>2. QED
  BY <1>1, Invariance, PTL

-----------------------------------------------------------------------------
(* Exceptions and the client.  An exception escapes a task only while the  *)
(* batch is gathered or torn down, the main coroutine leaves the normal    *)
(* path as soon as it learns of one, and only the normal path stores a run.*)
FailureInv ==
  /\ main \in {"build", "health", "close", "finalize", "save"} => raised = "none"
  /\ main \in {"abort", "unwind"} => raised # "none"
  /\ (\E t \in Tasks : pc[t] = "raised") => raised # "none"
  /\ main = "gather" /\ raised # "none" => \E t \in Tasks : pc[t] = "raised"
  /\ stored => main = "exited" /\ raised = "none" /\ client = "none"
  /\ main \in {"build", "finalize", "save"} => client = "none"
  /\ main = "exited" /\ raised # "none" =>
       exit \in {INVALID_INPUT, PROVIDER_UNAVAILABLE, INTERNAL_ERROR}
  /\ main = "exited" => \A t \in Tasks : pc[t] \notin {"queued", "calling"}

(* Nothing has been raised at first. *)
LEMMA FailureInit == Init => FailureInv
  BY DEF Init, FailureInv

(* A step of a task keeps the invariant about failures ... *)
LEMMA FailureTask ==
  ASSUME TypeInv, FailureInv, NEW t \in Tasks, TaskStep(t)
  PROVE  FailureInv'
<1> USE DEF FailureInv, LoopAlive
<1>0. pc \in [Tasks -> TaskPoints]
  BY DEF TypeInv, TypeOK
<1>1. ASSUME main' = main, main \in {"gather", "abort", "unwind"}, stored' = stored,
             raised' = raised, NEW p \in TaskPoints \ {"raised"},
             pc' = [pc EXCEPT ![t] = p], pc[t] # "raised"
      PROVE  FailureInv'
  BY <1>0, <1>1
<1>2. ASSUME main' = main, main \in {"gather", "abort", "unwind"}, stored' = stored,
             NEW e \in {"config", "other"}, RaiseInTask(t, e)
      PROVE  FailureInv'
  BY <1>0, <1>2 DEF RaiseInTask
<1>3. CASE Enter(t)
  BY <1>1, <1>3 DEF Enter, MayEnter, TaskPoints, runVars
<1>4. CASE EnterRefused(t)
  BY <1>2, <1>4 DEF EnterRefused, MayEnter, runVars
<1>5. CASE Answer(t)
  BY <1>1, <1>5 DEF Answer, Calling, Return, TaskPoints, runVars
<1>6. CASE Unavailable(t)
  BY <1>1, <1>6 DEF Unavailable, Calling, Return, TaskPoints, runVars
<1>7. CASE GiveUp(t)
  BY <1>1, <1>7 DEF GiveUp, Calling, Return, TaskPoints, runVars
<1>8. CASE Retry(t)
  BY <1>8 DEF Retry, Calling, OpenClient, runVars
<1>9. CASE RetryRefused(t)
  BY <1>2, <1>9 DEF RetryRefused, Calling, runVars
<1>10. CASE Crash(t)
  BY <1>2, <1>10 DEF Crash, Escaping, Calling, runVars
<1>11. QED
  BY <1>3, <1>4, <1>5, <1>6, <1>7, <1>8, <1>9, <1>10 DEF TaskStep

(* ... and so does a step of the main coroutine. *)
LEMMA FailureMain ==
  ASSUME TypeInv, FailureInv, MainStep
  PROVE  FailureInv'
<1> USE DEF FailureInv, taskVars, runVars
<1>1. CASE BuildProvider
  BY <1>1 DEF BuildProvider
<1>2. CASE BuildRefused
  BY <1>2 DEF BuildRefused
<1>3. CASE HealthChecked
  BY <1>3 DEF HealthChecked
<1>4. CASE HealthRaised
  BY <1>4 DEF HealthRaised
<1>5. CASE GatherReturned
  BY <1>5 DEF GatherReturned
<1>6. CASE GatherRaised
  BY <1>6 DEF GatherRaised
<1>7. CASE BatchClosed
  BY <1>7 DEF BatchClosed, ReleaseClient
<1>8. CASE AbortClosed
  BY <1>8 DEF AbortClosed, ReleaseClient
<1>9. CASE Unwind
  <2>1. exit' \in {INVALID_INPUT, PROVIDER_UNAVAILABLE, INTERNAL_ERROR}
    BY <1>9 DEF Unwind, Cancel, ExitCodeOf
  <2>2. /\ \A t \in Tasks : pc'[t] \notin {"queued", "calling"}
        /\ \A t \in Tasks : pc'[t] = "raised" => pc[t] = "raised"
    BY <1>9 DEF Unwind, Cancel
  <2>3. QED
    BY <1>9, <2>1, <2>2 DEF Unwind, Cancel
<1>10. CASE Finalize
  BY <1>10 DEF Finalize
<1>11. CASE Save
  BY <1>11 DEF Save, TypeInv
<1>12. CASE SaveRaised
  BY <1>12 DEF SaveRaised, TypeInv
<1>13. CASE CloseRaised
  BY <1>13 DEF CloseRaised
<1>14. QED
  BY <1>1, <1>2, <1>3, <1>4, <1>5, <1>6, <1>7, <1>8, <1>9, <1>10, <1>11, <1>12, <1>13
  DEF MainStep

(* What an exception leaves behind holds in every reachable state. *)
LEMMA FailureInvariance == Spec => []FailureInv
<1>1. TypeInv /\ FailureInv /\ [Next]_vars => FailureInv'
  <2>1. ASSUME FailureInv, UNCHANGED vars PROVE FailureInv'
    BY <2>1 DEF FailureInv, vars, taskVars, runVars
  <2>2. QED
    BY <2>1, FailureTask, FailureMain DEF Next, Exited
<1>2. QED
  BY <1>1, FailureInit, Invariance, PTL DEF Spec

(* A run out of which an exception escaped is neither stored nor reported   *)
(* as an evaluated one.                                                     *)
THEOREM RaisedRunsAreLost == Spec => []RaisedRunIsLost
<1>1. FailureInv => RaisedRunIsLost
  BY DEF FailureInv, RaisedRunIsLost
<1>2. QED
  BY <1>1, FailureInvariance, PTL

(* Between two models and before scoring, no provider holds a client. *)
THEOREM ClientsAreReleased == Spec => []ClientReleased
<1>1. FailureInv => ClientReleased
  BY DEF FailureInv, ClientReleased
<1>2. QED
  BY <1>1, FailureInvariance, PTL

(* No call outlives the process's last step. *)
THEOREM NoCallLeftBehind == Spec => []NothingLeftBehind
<1>1. FailureInv => NothingLeftBehind
  BY DEF FailureInv, NothingLeftBehind
<1>2. QED
  BY <1>1, FailureInvariance, PTL

-----------------------------------------------------------------------------
(* Retries. *)

(* The batch in progress respects the budget of its model, so what it adds  *)
(* to the recorded results does.                                            *)
Within(m, o, n) ==
  /\ n <= Retries[m]
  /\ o \in Retryable => n = Retries[m]

RetryInv ==
  /\ model \in Models => \A t \in Tasks : Within(model, outcome[t], retries[t])
  /\ \A t \in Tasks : pc[t] = "calling" => outcome[t] = "none"
  /\ \A t \in Tasks : pc[t] = "queued" => outcome[t] = "none" /\ retries[t] = 0
  /\ \A t \in Tasks : pc[t] = "idle" => outcome[t] = "none" /\ retries[t] = 0
  /\ \A i \in DOMAIN caseResults :
       Within(caseResults[i].model, caseResults[i].outcome, caseResults[i].retries)

(* No step of a task spends more retries than its model allows. *)
LEMMA RetryTask ==
  ASSUME TypeInv, RetryInv, NEW t \in Tasks, TaskStep(t)
  PROVE  RetryInv'
<1> USE DEF RetryInv, TypeInv, TypeOK, runVars, LoopAlive
<1>0. model \in Models => Retries[model] \in Nat
  BY RetriesAssumption DEF Models
<1>1. CASE Enter(t)
  BY <1>1 DEF Enter, MayEnter, Within
<1>2. CASE EnterRefused(t)
  BY <1>2 DEF EnterRefused, MayEnter, RaiseInTask, Within
<1>3. CASE Answer(t) \/ Unavailable(t)
  BY <1>3 DEF Answer, Unavailable, Calling, Return, Within, Answered, Retryable
<1>4. CASE GiveUp(t)
  BY <1>4, <1>0 DEF GiveUp, Calling, Return, Within
<1>5. CASE Retry(t)
  BY <1>5, <1>0 DEF Retry, Calling, Within, Retryable
<1>6. CASE RetryRefused(t)
  BY <1>6, <1>0 DEF RetryRefused, RaiseInTask, Calling, Within, Retryable
<1>7. CASE Crash(t)
  BY <1>7 DEF Crash, RaiseInTask, Calling, Within
<1>8. QED
  BY <1>1, <1>2, <1>3, <1>4, <1>5, <1>6, <1>7 DEF TaskStep

(* No step of the main coroutine changes what a recorded result used. *)
LEMMA RetryMain ==
  ASSUME TypeInv, RetryInv, MainStep
  PROVE  RetryInv'
<1> USE DEF RetryInv
<1>1. CASE BatchClosed
  <2>1. BatchResults \in Seq(Result) /\ model \in Models /\ caseResults \in Seq(Result)
    BY <1>1, BatchResultsType DEF BatchClosed, ReleaseClient, TypeInv, TypeOK
  <2>2. DOMAIN BatchResults = Tasks
        /\ \A t \in Tasks :
             Within(BatchResults[t].model, BatchResults[t].outcome, BatchResults[t].retries)
    BY <2>1 DEF BatchResults
  <2>3. \A i \in DOMAIN caseResults' :
           \/ i \in DOMAIN caseResults /\ caseResults'[i] = caseResults[i]
           \/ \E t \in Tasks : caseResults'[i] = BatchResults[t]
    <3> DEFINE s == caseResults
               b == BatchResults
    <3>1. /\ Len(s \o b) = Len(s) + Len(b)
          /\ \A i \in 1 .. Len(s) + Len(b) :
               (s \o b)[i] = IF i <= Len(s) THEN s[i] ELSE b[i - Len(s)]
          /\ s \o b \in Seq(Result)
      BY <2>1, ConcatProperties
    <3>2. /\ DOMAIN s = 1 .. Len(s) /\ DOMAIN b = 1 .. Len(b)
          /\ DOMAIN (s \o b) = 1 .. Len(s \o b)
          /\ Len(s) \in Nat /\ Len(b) \in Nat
      BY <2>1, <3>1, LenProperties
    <3> HIDE DEF s, b
    <3>3. \A i \in DOMAIN (s \o b) :
             \/ i \in DOMAIN s /\ (s \o b)[i] = s[i]
             \/ \E t \in DOMAIN b : (s \o b)[i] = b[t]
      BY <3>1, <3>2
    <3>4. QED
      BY <1>1, <2>2, <3>3 DEF BatchClosed, ReleaseClient, s, b
  <2>4. \A i \in DOMAIN caseResults' :
           Within(caseResults'[i].model, caseResults'[i].outcome, caseResults'[i].retries)
    BY <2>2, <2>3
  <2>5. model' \in Models => Retries[model'] \in Nat
    BY RetriesAssumption DEF Models
  <2>6. /\ \A t \in Tasks : outcome'[t] = "none" /\ retries'[t] = 0
        /\ \A t \in Tasks : pc'[t] = "idle"
    BY <1>1 DEF BatchClosed, ReleaseClient
  <2>7. QED
    BY <2>4, <2>5, <2>6 DEF Within, Retryable
<1>2. CASE HealthChecked
  BY <1>2 DEF HealthChecked, TypeInv
<1>3. CASE Unwind
  <2>1. \A t \in Tasks : pc'[t] \notin {"queued", "calling"} /\ (pc'[t] = "idle" => pc[t] = "idle")
    BY <1>3 DEF Unwind, Cancel
  <2>2. QED
    BY <1>3, <2>1 DEF Unwind, Cancel, taskVars
<1>4. CASE UNCHANGED <<model, pc, retries, outcome, caseResults>>
  BY <1>4
<1>5. QED
  BY <1>1, <1>2, <1>3, <1>4
  DEF MainStep, BuildProvider, BuildRefused, HealthRaised, GatherReturned,
      GatherRaised, AbortClosed, CloseRaised, Finalize, Save, SaveRaised, taskVars, runVars

(* No recorded result used more retries than its model allows, and a        *)
(* timeout or bad response is recorded only after all of them.              *)
THEOREM RetriesAreBounded == Spec => []RetryBudget
<1>1. Init => RetryInv
  BY RetriesAssumption DEF Init, RetryInv, Within, Retryable, Models
<1>2. TypeInv /\ RetryInv /\ [Next]_vars => RetryInv'
  <2>1. ASSUME RetryInv, UNCHANGED vars PROVE RetryInv'
    BY <2>1 DEF RetryInv, vars, taskVars, runVars
  <2>2. QED
    BY <2>1, RetryTask, RetryMain DEF Next, Exited
<1>3. RetryInv => RetryBudget
  BY DEF RetryInv, RetryBudget, RecordedResults, Within
<1>4. QED
  BY <1>1, <1>2, <1>3, Invariance, PTL DEF Spec

-----------------------------------------------------------------------------
(* Refinement. *)

(* A step of a task starts it, ends it or, on a retry, shows nothing. *)
LEMMA TaskRefines ==
  ASSUME TypeInv, Conserved, NEW t \in Tasks, TaskStep(t)
  PROVE  Executor!Next \/ UNCHANGED Executor!vars
<1>0. /\ pc \in [Tasks -> TaskPoints] /\ InFlight \in SUBSET Tasks
      /\ permits \in Nat /\ Limit \in Nat
      /\ Cardinality(InFlight) \in Nat /\ Limit' = Limit
  BY InFlightFinite, LimitType, LimitKept DEF Next, TypeInv, TypeOK, InFlight
<1>1. main' = main /\ model' = model /\ main \in {"gather", "abort", "unwind"}
  BY DEF TaskStep, Enter, EnterRefused, Answer, Unavailable, GiveUp, Retry,
         RetryRefused, Crash, MayEnter, Calling, LoopAlive
<1>2. Status \in {"working", "broken"} /\ Status' = Status
  BY <1>1 DEF Status
<1>3. CASE Enter(t)
  <2>1. /\ t \notin InFlight /\ t \notin Ended
        /\ InFlight' = InFlight \cup {t} /\ Ended' = Ended
    BY <1>0, <1>3 DEF Enter, MayEnter, InFlight, Ended
  <2>2. Cardinality(InFlight) < Limit
    BY <1>0, <1>3 DEF Enter, MayEnter, Conserved
  <2>3. Executor!Start(t)
    BY <1>0, <1>1, <1>2, <2>1, <2>2 DEF Executor!Start, Executor!Cardinality, Cardinality
  <2>4. QED
    BY <2>3 DEF Executor!Next
<1>4. ASSUME NEW p \in {"returned", "raised"}, pc[t] \in {"queued", "calling"},
             pc' = [pc EXCEPT ![t] = p]
      PROVE  Executor!Next
  <2>1. /\ t \notin Ended
        /\ InFlight' = InFlight \ {t} /\ Ended' = Ended \cup {t}
    BY <1>0, <1>4 DEF InFlight, Ended
  <2>2. Executor!End(t)
    BY <1>0, <1>1, <1>2, <2>1 DEF Executor!End
  <2>3. QED
    BY <2>2 DEF Executor!Next
<1>5. CASE Retry(t)
  <2>1. InFlight' = InFlight /\ Ended' = Ended
    BY <1>5 DEF Retry, InFlight, Ended
  <2>2. QED
    BY <1>0, <1>1, <1>2, <2>1 DEF Executor!vars
<1>6. QED
  BY <1>3, <1>4, <1>5
  DEF TaskStep, EnterRefused, Answer, Unavailable, GiveUp, RetryRefused, Crash,
      MayEnter, Calling, RaiseInTask, Return

(* A step of the main coroutine is one of the executor, or none. *)
LEMMA MainRefines ==
  ASSUME TypeInv, FailureInv, MainStep
  PROVE  Executor!Next \/ UNCHANGED Executor!vars
<1> USE DEF taskVars, runVars
<1>0. Limit' = Limit
  BY LimitKept DEF Next
<1>1. ASSUME model' = model, pc' = pc, Status' = Status
      PROVE  UNCHANGED Executor!vars
  BY <1>0, <1>1 DEF Executor!vars, InFlight, Ended
<1>2. ASSUME model' = model, pc' = pc, Status = "working", Status' = "broken"
      PROVE  Executor!Next
  BY <1>0, <1>2 DEF Executor!Next, Executor!Break, InFlight, Ended
<1>3. CASE BuildProvider \/ GatherReturned \/ AbortClosed \/ Finalize
  BY <1>1, <1>3 DEF BuildProvider, GatherReturned, AbortClosed, Finalize, Status
<1>4. CASE BuildRefused \/ HealthRaised \/ GatherRaised
  BY <1>2, <1>4 DEF BuildRefused, HealthRaised, GatherRaised, Status
<1>5. CASE HealthChecked
  <2>1. InFlight' = {} /\ InFlight = {} /\ Ended' = {} /\ Ended = {}
    BY <1>5 DEF HealthChecked, InFlight, Ended, TypeInv
  <2>2. QED
    BY <1>0, <1>5, <2>1 DEF Executor!vars, HealthChecked, Status
<1>6. CASE BatchClosed
  <2>1. /\ InFlight = {} /\ Ended = Tasks
        /\ InFlight' = {} /\ Ended' = {}
    BY <1>6 DEF BatchClosed, ReleaseClient, InFlight, Ended, TypeInv
  <2>2. CASE model < NModels
    <3>1. Executor!NextBatch
      BY <1>0, <1>6, <2>1, <2>2, NModelsAssumption
      DEF Executor!NextBatch, Executor!BatchEnded, Status, BatchClosed, TypeInv, TypeOK
    <3>2. QED
      BY <3>1 DEF Executor!Next
  <2>3. CASE model = NModels
    <3>1. Executor!Complete
      BY <1>0, <1>6, <2>1, <2>3, NModelsAssumption
      DEF Executor!Complete, Executor!BatchEnded, Status, BatchClosed
    <3>2. QED
      BY <3>1 DEF Executor!Next
  <2>4. QED
    BY <1>6, <2>2, <2>3 DEF BatchClosed, ReleaseClient
<1>7. CASE Unwind
  <2>1. InFlight' = {} /\ Ended' = Ended
    BY <1>7 DEF Unwind, Cancel, InFlight, Ended
  <2>2. Status = "broken" /\ Status' = "over"
    BY <1>7 DEF Unwind, Cancel, Status, FailureInv
  <2>3. Executor!Teardown
    BY <1>0, <1>7, <2>1, <2>2 DEF Executor!Teardown, Unwind
  <2>4. QED
    BY <2>3 DEF Executor!Next
<1>8. CASE Save
  <2>1. Status = "complete" /\ Status' = "complete"
    BY <1>8 DEF Save, Status, FailureInv
  <2>2. QED
    BY <1>1, <1>8, <2>1 DEF Save
<1>9. CASE SaveRaised
  <2>1. Status = "complete" /\ Status' = "over"
    BY <1>9 DEF SaveRaised, Status
  <2>2. Executor!Lose
    BY <1>0, <1>9, <2>1 DEF Executor!Lose, SaveRaised, InFlight, Ended
  <2>3. QED
    BY <2>2 DEF Executor!Next
<1>10. CASE CloseRaised
  <2>1. CASE main = "close"
    BY <1>2, <1>10, <2>1 DEF CloseRaised, Status
  <2>2. CASE main = "abort"
    BY <1>1, <1>10, <2>2 DEF CloseRaised, Status
  <2>3. QED
    BY <1>10, <2>1, <2>2 DEF CloseRaised
<1>11. QED
  BY <1>3, <1>4, <1>5, <1>6, <1>7, <1>8, <1>9, <1>10 DEF MainStep

(* The runner does what BatchExecutor promises: batches in model order, at  *)
(* most Limit calls in flight, a batch left only when all of it has ended,  *)
(* nothing running after a teardown.                                        *)
THEOREM RunnerImplementsExecutor == Spec => ImplementsExecutor
<1>1. Init => Executor!Init
  <2> SUFFICES ASSUME Init PROVE Executor!Init
    OBVIOUS
  <2>1. InFlight = {} /\ Ended = {}
    BY DEF Init, InFlight, Ended
  <2>2. Limit \in 1 .. MAX_CONCURRENCY
    BY LimitType, CeilingAssumption DEF Init
  <2>3. QED
    BY <2>1, <2>2 DEF Init, Executor!Init, Status
<1>2. TypeInv /\ Conserved /\ FailureInv /\ [Next]_vars
        => Executor!Next \/ UNCHANGED Executor!vars
  <2>1. ASSUME UNCHANGED vars PROVE UNCHANGED Executor!vars
    BY <2>1, LimitKept DEF vars, taskVars, runVars, Executor!vars, InFlight, Ended, Status
  <2>2. QED
    BY <2>1, TaskRefines, MainRefines DEF Next, Exited
<1>3. QED
  BY <1>1, <1>2, Invariance, FailureInvariance, PTL
  DEF Spec, ImplementsExecutor, Executor!Spec

-----------------------------------------------------------------------------
(* The place of a result in the run. *)
LEMMA PlaceInBatches ==
  ASSUME NEW n \in Nat \ {0}, NEW k \in Nat, NEW r \in 0 .. n - 1
  PROVE  (k * n + r) \div n = k /\ (k * n + r) % n = r
OBVIOUS

(* The results of the first k models, each in the order of its factories. *)
BatchesOf(results, k) ==
  /\ Len(results) = k * NTasks
  /\ \A i \in 1 .. k * NTasks :
       /\ results[i].model = ((i - 1) \div NTasks) + 1
       /\ results[i].task = ((i - 1) % NTasks) + 1

(* What gather returns for a model, in the order of its factories. *)
IsBatch(batch, m) ==
  /\ DOMAIN batch = Tasks
  /\ \A t \in Tasks : batch[t].model = m /\ batch[t].task = t

(* The batch of the next model goes where it belongs. *)
LEMMA BatchGoesNext ==
  ASSUME NEW results \in Seq(Result), NEW batch \in Seq(Result),
         NEW longer, longer = results \o batch,
         NEW m \in Nat \ {0}, BatchesOf(results, m - 1), IsBatch(batch, m)
  PROVE  BatchesOf(longer, m)
<1> DEFINE k == m - 1
<1>0. k \in Nat /\ k + 1 = m /\ BatchesOf(results, k)
  OBVIOUS
<1> HIDE DEF k
<1>1. /\ Len(batch) = NTasks /\ Len(results) = k * NTasks
      /\ NTasks \in Nat /\ k * NTasks \in Nat /\ (k + 1) * NTasks = k * NTasks + NTasks
  BY <1>0, NTasksAssumption DEF Tasks, BatchesOf, IsBatch
<1>2. /\ Len(longer) = k * NTasks + NTasks
      /\ \A i \in 1 .. k * NTasks + NTasks :
           longer[i] = IF i <= k * NTasks THEN results[i] ELSE batch[i - k * NTasks]
  <2>1. /\ Len(longer) = Len(results) + Len(batch)
        /\ \A i \in 1 .. Len(results) + Len(batch) :
             longer[i] = IF i <= Len(results) THEN results[i] ELSE batch[i - Len(results)]
    BY ConcatProperties
  <2> QED BY <1>1, <2>1
<1> DEFINE done == k * NTasks
<1> HIDE DEF done
<1>3. ASSUME NEW i \in 1 .. done + NTasks
      PROVE  /\ longer[i].model = ((i - 1) \div NTasks) + 1
             /\ longer[i].task = ((i - 1) % NTasks) + 1
  <2>1. CASE i <= done
    <3>1. i \in 1 .. done /\ longer[i] = results[i]
      BY <1>1, <1>2, <2>1 DEF done
    <3> QED BY <1>0, <3>1 DEF BatchesOf, done
  <2>2. CASE i > done
    <3> DEFINE t == i - done
    <3>1. t \in 1 .. NTasks /\ longer[i] = batch[t]
      BY <1>1, <1>2, <2>2 DEF done
    <3>2. longer[i].model = k + 1 /\ longer[i].task = t
      BY <1>0, <3>1 DEF Tasks, IsBatch
    <3>3. NTasks \in Nat \ {0} /\ t - 1 \in 0 .. NTasks - 1
      BY <1>1, <3>1
    <3>4. (k * NTasks + (t - 1)) \div NTasks = k /\ (k * NTasks + (t - 1)) % NTasks = t - 1
      BY <1>0, <3>3, PlaceInBatches
    <3>5. i - 1 = done + (t - 1) /\ (t - 1) + 1 = t
      BY <1>1 DEF done
    <3>6. (i - 1) \div NTasks = k /\ (i - 1) % NTasks = t - 1
      BY <3>4, <3>5 DEF done
    <3> QED BY <3>2, <3>5, <3>6
  <2> QED BY <1>1, <2>1, <2>2 DEF done
<1>4. BatchesOf(longer, k + 1)
  BY <1>1, <1>2, <1>3 DEF BatchesOf, done
<1> QED BY <1>0, <1>4

(* How much of the run is there at each point of the main coroutine: the    *)
(* batches of the models before this one, or all of them.                   *)
OrderInv ==
  /\ main \in {"build", "health", "gather", "close"} => BatchesOf(caseResults, model - 1)
  /\ main \in {"finalize", "save"} \/ stored => BatchesOf(caseResults, NModels)

(* _run_comparison extends case_results by what gather returns, and gather  *)
(* returns in the order of the factories: a run that was stored has one     *)
(* result per model, case and repetition, in the order of the suite.        *)
THEOREM StoredRunsAreWhole == Spec => []CompleteAndOrdered
<1>1. Init => OrderInv
  <2> SUFFICES ASSUME Init PROVE OrderInv
    OBVIOUS
  <2>1. caseResults = << >> /\ Len(caseResults) = 0 /\ 0 * NTasks = 0
    BY NTasksAssumption DEF Init
  <2>2. BatchesOf(caseResults, 0)
    BY <2>1 DEF BatchesOf
  <2>3. /\ main = "build" => model - 1 = 0
        /\ main = "finalize" => NModels = 0
        /\ main \in {"build", "finalize"} /\ ~stored
    BY DEF Init
  <2> QED BY <2>2, <2>3 DEF OrderInv
<1>2. TypeInv /\ OrderInv /\ FailureInv /\ [Next]_vars => OrderInv'
  <2> SUFFICES ASSUME TypeInv, OrderInv, FailureInv, [Next]_vars PROVE OrderInv'
    OBVIOUS
  <2>1. ASSUME UNCHANGED <<main, model, caseResults, stored>> PROVE OrderInv'
    BY <2>1 DEF OrderInv, BatchesOf
  <2>2. ASSUME NEW t \in Tasks, TaskStep(t) PROVE OrderInv'
    BY <2>1, <2>2 DEF TaskStep, Enter, EnterRefused, Answer, Unavailable, GiveUp, Retry,
                      RetryRefused, Crash, runVars
  <2>3. CASE BatchClosed
    <3>1. /\ main = "close" /\ caseResults' = caseResults \o BatchResults
          /\ stored' = stored /\ model \in Models
          /\ \/ model < NModels /\ model' = model + 1 /\ main' = "build"
             \/ model = NModels /\ model' = model /\ main' = "finalize"
      BY <2>3 DEF BatchClosed, ReleaseClient, TypeInv
    <3>2. /\ caseResults \in Seq(Result) /\ BatchResults \in Seq(Result)
          /\ DOMAIN BatchResults = Tasks
          /\ \A t \in Tasks : BatchResults[t].model = model /\ BatchResults[t].task = t
      <4>1. BatchResults \in Seq(Result)
        BY <3>1, BatchResultsType DEF TypeInv
      <4> QED BY <4>1 DEF TypeInv, TypeOK, BatchResults
    <3>3. model \in Nat \ {0} /\ (model + 1) - 1 = model
      BY <3>1, NModelsAssumption DEF Models
    <3>4. BatchesOf(caseResults, model - 1) /\ IsBatch(BatchResults, model)
      BY <3>1, <3>2 DEF OrderInv, IsBatch
    <3> DEFINE longer == caseResults'
    <3>5. longer = caseResults \o BatchResults
      BY <3>1
    <3> HIDE DEF longer
    <3>6. BatchesOf(longer, model)
      BY <3>2, <3>3, <3>4, <3>5, BatchGoesNext
    <3>7. BatchesOf(caseResults', model)
      BY <3>6 DEF longer
    <3>8. ~stored'
      BY <3>1 DEF FailureInv
    <3> QED BY <3>1, <3>3, <3>7, <3>8 DEF OrderInv, BatchesOf
  <2>4. CASE Finalize \/ Save
    BY <2>4 DEF Finalize, Save, OrderInv, BatchesOf
  <2>5. CASE BuildProvider \/ HealthChecked \/ GatherReturned
    <3>1. /\ main \in {"build", "health", "gather"} /\ main' \in {"health", "gather", "close"}
          /\ UNCHANGED <<model, caseResults, stored>>
      BY <2>5 DEF BuildProvider, HealthChecked, GatherReturned, runVars
    <3> QED BY <3>1 DEF OrderInv, BatchesOf
  <2>6. CASE \/ BuildRefused \/ HealthRaised \/ GatherRaised \/ AbortClosed \/ CloseRaised
             \/ Unwind \/ SaveRaised
    <3>1. /\ main' \in {"abort", "unwind", "exited"} /\ UNCHANGED <<model, caseResults, stored>>
      BY <2>6 DEF BuildRefused, HealthRaised, GatherRaised, AbortClosed, CloseRaised,
                  Unwind, SaveRaised, runVars
    <3> QED BY <3>1 DEF OrderInv, BatchesOf
  <2>7. CASE UNCHANGED vars
    BY <2>1, <2>7 DEF vars, runVars
  <2> QED BY <2>2, <2>3, <2>4, <2>5, <2>6, <2>7 DEF Next, MainStep, Exited
<1>3. OrderInv /\ TypeInv => CompleteAndOrdered
  BY DEF OrderInv, TypeInv, TypeOK, CompleteAndOrdered, BatchesOf
<1> QED BY <1>1, <1>2, <1>3, Invariance, FailureInvariance, PTL DEF Spec
=============================================================================
