----------------------------- MODULE MCCascade -----------------------------
(* Instances of Cascade for TLC: which replies each model can give.  They   *)
(* are chosen so that every condition is met by a success and by a failure  *)
(* where that is possible, and missed by another.                           *)
EXTENDS Cascade

Silent(status) ==
  [status |-> status, output |-> "none", score |-> 0, policy |-> "none",
   confidences |-> {}, cost |-> Unknown]

Good(output, score, confidence, cost) ==
  [status |-> "success", output |-> output, score |-> score,
   policy |-> "pass", confidences |-> {confidence}, cost |-> cost]

Bad(output, score, policy, cost) ==
  [status |-> "failed", output |-> output, score |-> score,
   policy |-> policy, confidences |-> {10}, cost |-> cost]

CheapReplies ==
  {Silent("error"), Silent("timeout"),
   Good("json", 10, 10, 1), Good("text", 10, 10, 1),
   Good("json", 4, 10, 0), Good("json", 10, 5, 1),
   Bad("text", 0, "none", 1), Bad("json", 5, "fail", 1),
   Bad("null", 7, "none", 0)}

(* With a price and, as a hosted model can be, without.                     *)
StrongReplies ==
  {Silent("timeout"), Good("json", 10, 10, 3), Bad("text", 2, "none", 3),
   Good("json", 10, 10, Unknown)}

ThreeModels == {"cheap", "strong", "spare"}
MCReplies == [m \in ThreeModels |->
                IF m = "cheap" THEN CheapReplies ELSE StrongReplies]
=============================================================================
