------------------------------ MODULE Workflow ------------------------------
(***************************************************************************)
(* Multi-turn and tool workflows (workflows.py): a workflow takes its      *)
(* steps, whoever writes the trace may lose, repeat or exchange some, the  *)
(* trace is accepted when its sequence numbers ascend, and evaluate_workflow *)
(* says what happened in it.                                               *)
(***************************************************************************)
EXTENDS Integers, Sequences, FiniteSets, SequencesExt, Sums

CONSTANTS
  Steps,         \* what a step can be
  Expectations,  \* the sequences of tools a trace may expect
  StepLimit,     \* evaluate_workflow(step_limit=)
  MaxSteps,      \* bound: the steps of a workflow
  MaxDelivered   \* bound: the steps of a trace

NoCost == -1
Kinds == {"user_message", "model_response", "tool_call", "tool_result",
          "human_review", "final_answer"}
WorkflowStep ==
  [kind : Kinds, tool : STRING, content : STRING,
   succeeded : {"yes", "no", "unknown"}, error : BOOLEAN, timeout : BOOLEAN,
   policy : {"none", "pass", "fail"}, cost : Nat \cup {NoCost}]

VARIABLES
  expected,   \* expected_tool_sequence
  recorded,   \* the steps of the workflow, numbered as they were taken
  delivered   \* the numbers of the steps in the trace, in its order

vars == <<expected, recorded, delivered>>

-----------------------------------------------------------------------------
(* evaluate_workflow; steps are those of a trace.                          *)
Places(steps, Test(_)) == {i \in DOMAIN steps : Test(steps[i])}

ActualTools(steps) ==
  Only([i \in DOMAIN steps |-> steps[i].tool],
       Places(steps, LAMBDA s : s.kind = "tool_call"), Len(steps))

(* tool_selection_accuracy, a fraction; it is None when no tool is expected.*)
Accuracy(actual, expects) ==
  [num |-> Cardinality({i \in DOMAIN actual \cap DOMAIN expects :
                          actual[i] = expects[i]}),
   den |-> IF Len(expects) >= Len(actual) THEN Len(expects) ELSE Len(actual)]

OrderCorrect(actual, expects) == actual = expects
Unnecessary(actual, expects) ==
  IF Len(actual) > Len(expects) THEN Len(actual) - Len(expects) ELSE 0

(* Mutant: only the last three steps are looked at. *)
Signature(s) == <<s.kind, s.tool, s.content>>
LoopInLastThree(steps) ==
  /\ Len(steps) >= 3
  /\ \A i \in Len(steps) - 2 .. Len(steps) :
       Signature(steps[i]) = Signature(Last(steps))
LoopDetected(steps) ==
  \E i \in DOMAIN steps :
    Cardinality({j \in DOMAIN steps :
                   Signature(steps[j]) = Signature(steps[i])}) >= 3

FailedIndexes(steps) ==
  Places(steps, LAMBDA s : s.kind = "tool_result" /\ s.succeeded = "no")
(* Mutant: an answer before the failure counts too. *)
RecoveredAnywhere(steps) ==
  {i \in FailedIndexes(steps) :
     \E j \in DOMAIN steps :
       steps[j].kind \in {"model_response", "final_answer"} /\ ~steps[j].error}
RecoveredIndexes(steps) ==
  {i \in FailedIndexes(steps) :
     \E j \in i + 1 .. Len(steps) :
       steps[j].kind \in {"model_response", "final_answer"} /\ ~steps[j].error}

TimeoutIndexes(steps) == Places(steps, LAMBDA s : s.timeout)
TimeoutRecovered(steps) ==
  \E i \in TimeoutIndexes(steps) : \E j \in i + 1 .. Len(steps) :
    steps[j].kind = "final_answer" /\ ~steps[j].error

TotalCost(steps) ==
  IF \E i \in DOMAIN steps : steps[i].cost = NoCost THEN NoCost
  ELSE RunningSum([i \in DOMAIN steps |-> steps[i].cost], Len(steps))

PolicyPass(steps) ==
  LET values == {steps[i].policy : i \in DOMAIN steps} \ {"none"}
  IN  IF values = {} THEN "none"
      ELSE IF values = {"pass"} THEN "pass" ELSE "fail"

HumanReviewed(steps) == \E i \in DOMAIN steps : steps[i].kind = "human_review"
StepLimitExceeded(steps) == Len(steps) > StepLimit

WorkflowEvaluation(steps, expects) ==
  [calls |-> Len(ActualTools(steps)),
   unnecessary |-> Unnecessary(ActualTools(steps), expects),
   failures |-> Cardinality(FailedIndexes(steps)),
   recovered |-> Cardinality(RecoveredIndexes(steps)),
   timeouts |-> Cardinality(TimeoutIndexes(steps)),
   inTime |-> TimeoutRecovered(steps),
   loop |-> LoopDetected(steps),
   exceeded |-> StepLimitExceeded(steps),
   policy |-> PolicyPass(steps),
   cost |-> TotalCost(steps),
   escalated |-> HumanReviewed(steps)]

-----------------------------------------------------------------------------
(* The validation of a trace. Mutant: a number may come twice.             *)
NotDescending(numbers) ==
  \A i, j \in DOMAIN numbers : i < j => numbers[i] <= numbers[j]
OrderedSteps(numbers) ==
  \A i, j \in DOMAIN numbers : i < j => numbers[i] < numbers[j]

Trace == [i \in DOMAIN delivered |-> recorded[delivered[i]]]
Accepted == delivered # << >> /\ OrderedSteps(delivered)

Init ==
  /\ expected \in Expectations
  /\ recorded = << >>
  /\ delivered = << >>

Take(s) ==
  /\ Len(recorded) < MaxSteps /\ delivered = << >>
  /\ recorded' = Append(recorded, s)
  /\ UNCHANGED <<expected, delivered>>

Deliver(i) ==
  /\ Len(delivered) < MaxDelivered
  /\ delivered' = Append(delivered, i)
  /\ UNCHANGED <<expected, recorded>>

Next ==
  \/ \E s \in Steps : Take(s)
  \/ \E i \in DOMAIN recorded : Deliver(i)

Spec == Init /\ [][Next]_vars

-----------------------------------------------------------------------------
(* evaluate_workflow, which goes through the trace again for each number   *)
(* and pairs every failure with all that follows, says what a monitor that *)
(* sees each step once would say.                                          *)
Monitor == INSTANCE WorkflowMonitor WITH
  failures <- Cardinality(FailedIndexes(recorded)),
  recovered <- Cardinality(RecoveredIndexes(recorded)),
  timeouts <- Cardinality(TimeoutIndexes(recorded)),
  inTime <- TimeoutRecovered(recorded),
  policy <- PolicyPass(recorded),
  cost <- TotalCost(recorded)
ImplementsMonitor == Monitor!Watching

(* The selection of tools is perfect only when exactly the expected tools  *)
(* were called in their order; the code computes the two independently.    *)
ToolScoresAgree ==
  expected # << >> =>
    LET actual == ActualTools(recorded)
        accuracy == Accuracy(actual, expected)
    IN  /\ accuracy.num <= accuracy.den
        /\ accuracy.num = accuracy.den <=> OrderCorrect(actual, expected)
        /\ OrderCorrect(actual, expected) => Unnecessary(actual, expected) = 0

(* No later step takes back a loop, a denied step, a review or an excess.  *)
Taken == Len(recorded') > Len(recorded)
NothingIsForgiven ==
  /\ LoopDetected(recorded) => LoopDetected(recorded')
  /\ StepLimitExceeded(recorded) => StepLimitExceeded(recorded')
  /\ HumanReviewed(recorded) => HumanReviewed(recorded')
  /\ PolicyPass(recorded) = "fail" => PolicyPass(recorded') = "fail"
  /\ Unnecessary(ActualTools(recorded), expected)
       <= Unnecessary(ActualTools(recorded'), expected)

WorkflowsAreJudgedFairly ==
  [][Taken => NothingIsForgiven /\ ToolScoresAgree']_recorded

(* A trace that is accepted counts no step twice and none out of turn: it  *)
(* does not show a failure, a recovery, a call or a cost that the workflow *)
(* did not have, and it is the workflow when it has all its steps.         *)
AcceptedIsAPart ==
  Accepted =>
    LET told == WorkflowEvaluation(Trace, expected)
        whole == WorkflowEvaluation(recorded, expected)
    IN  /\ told.calls <= whole.calls
        /\ told.failures <= whole.failures
        /\ told.recovered <= whole.recovered
        /\ told.timeouts <= whole.timeouts
        /\ told.inTime => whole.inTime
        /\ told.loop => whole.loop
        /\ whole.cost # NoCost => told.cost <= whole.cost
        /\ Len(delivered) = Len(recorded) => Trace = recorded
=============================================================================
