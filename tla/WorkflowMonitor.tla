--------------------------- MODULE WorkflowMonitor ---------------------------
(* What the evaluation of a workflow promises, as a monitor that sees each  *)
(* step once and remembers five numbers: a failure is recovered by a later  *)
(* answer, a timeout by a later final answer, and neither a missing cost    *)
(* nor a denied step can be made good.                                      *)
EXTENDS Integers

CONSTANT Steps    \* the steps a workflow can have

VARIABLES
  failures,    \* tool results that failed: how many, and ...
  recovered,   \* ... how many of them an answer has followed
  timeouts,    \* steps that timed out: how many, and ...
  inTime,      \* ... whether a final answer has followed one of them
  policy,      \* "none", "pass" or "fail"
  cost         \* the sum of the costs, -1 when one is not known

watched == <<failures, recovered, timeouts, inTime, policy, cost>>

NoCost == -1

Answers(s) ==
  s.kind \in {"model_response", "final_answer"} /\ ~s.error
Fails(s) == s.kind = "tool_result" /\ s.succeeded = "no"

Begin ==
  /\ failures = 0 /\ recovered = 0
  /\ timeouts = 0 /\ inTime = FALSE
  /\ policy = "none" /\ cost = 0

Observe(s) ==
  /\ failures' = IF Fails(s) THEN failures + 1 ELSE failures
  /\ recovered' = IF Answers(s) THEN failures ELSE recovered
  /\ timeouts' = IF s.timeout THEN timeouts + 1 ELSE timeouts
  /\ inTime' = \/ inTime
                \/ /\ timeouts > 0 /\ Answers(s)
                   /\ s.kind = "final_answer"
  /\ policy' = IF s.policy = "none" \/ policy = "fail" THEN policy ELSE s.policy
  /\ cost' = IF cost = NoCost \/ s.cost = NoCost THEN NoCost ELSE cost + s.cost

Watching == Begin /\ [][\E s \in Steps : Observe(s)]_watched
=============================================================================
