--------------------------- MODULE CascadeProofs ---------------------------
(* Proofs about Cascade, for every suite, every set of conditions and every *)
(* set of replies of the two models.                                        *)
EXTENDS Cascade, SumsProofs, SequenceTheorems, FiniteSetTheorems, TLAPS

(* The assumptions, as the proofs use them. *)
LEMMA Constants ==
  /\ NCases \in Nat \ {0}
  /\ FirstStage \in SuiteModels /\ EscalationModel \in SuiteModels
  /\ \A r \in Replies[FirstStage] \cup Replies[EscalationModel] :
       /\ r.cost \in Nat \cup {Unknown}
       /\ r.status = "success" => r.policy # "fail"
BY CasesAssumption, StagesAssumption, RepliesAssumption

(* A sum of costs is a cost: known, or unknown. *)
LEMMA CostsAdd ==
  ASSUME NEW left \in Nat \cup {Unknown}, NEW right \in Nat \cup {Unknown}
  PROVE  AddCosts(left, right) \in Nat \cup {Unknown}
BY DEF AddCosts, Unknown

ResultRecord == [case : Cases, model : SuiteModels, escalated : BOOLEAN,
                 reply : Replies[FirstStage] \cup Replies[EscalationModel]]

(* The loop is inside its bounds while it runs. *)
InLoop == stage \in {"build", "first", "second"} => case \in Cases

(* The run starts typed, before the loop. *)
LEMMA InitTyped == Init => TypeOK /\ InLoop
BY Constants DEF Init, TypeOK, InLoop, Cases, Stages, Unknown, NoSummary

(* Every step keeps the types, and the loop inside its bounds. *)
LEMMA NextTyped == TypeOK /\ InLoop /\ [Next]_vars => TypeOK' /\ InLoop'
<1> SUFFICES ASSUME TypeOK, InLoop, [Next]_vars PROVE TypeOK' /\ InLoop'
  OBVIOUS
<1> USE Constants DEF Stages, Cases
<1>1. CASE BuildProviders
  BY <1>1 DEF TypeOK, InLoop, BuildProviders, clients, counters, reports
<1>2. CASE BuildRefused
  BY <1>2 DEF TypeOK, InLoop, BuildRefused, clients, counters, reports
<1>3. CASE CallFirst
  <2>1. PICK r \in Replies[FirstStage] :
          /\ caseResults' = Append(caseResults, Result(case, FirstStage, r, FALSE))
          /\ totalCost' = AddCosts(totalCost, r.cost)
          /\ firstSuccess' = firstSuccess + One(r.status = "success")
          /\ \/ /\ escalated' = escalated + 1
                /\ stage' = "second"
                /\ UNCHANGED <<case, finalSuccess>>
             \/ /\ finalSuccess' = finalSuccess + One(r.status = "success")
                /\ escalated' = escalated
                /\ NextCase
    BY <1>3 DEF CallFirst
  <2>2. stage = "first" /\ firstClient' = "open" /\ UNCHANGED <<escalClient, raised, reports>>
    BY <1>3 DEF CallFirst
  <2>3. Result(case, FirstStage, r, FALSE) \in ResultRecord
    BY <2>2 DEF Result, ResultRecord, InLoop
  <2>4. caseResults' \in Seq(ResultRecord)
    BY <2>1, <2>3, AppendProperties DEF TypeOK, ResultRecord
  <2>5. totalCost' \in Nat \cup {Unknown}
    BY <2>1, CostsAdd DEF TypeOK
  <2>6. firstSuccess' \in Nat /\ finalSuccess' \in Nat /\ escalated' \in Nat
    <3>1. One(r.status = "success") \in {0, 1}
      BY DEF One
    <3>2. /\ firstSuccess \in Nat /\ finalSuccess \in Nat /\ escalated \in Nat
          /\ finalSuccess' \in {finalSuccess, finalSuccess + One(r.status = "success")}
          /\ escalated' \in {escalated, escalated + 1}
      BY <2>1 DEF TypeOK, NextCase
    <3> HIDE DEF One
    <3> QED BY <2>1, <3>1, <3>2
  <2>7. /\ stage' \in Stages /\ case' \in 1 .. NCases + 1
        /\ InLoop'
    <3>1. \/ stage' = "second" /\ case' = case
          \/ NextCase
      BY <2>1
    <3>2. case \in Cases
      BY <2>2 DEF InLoop
    <3> QED BY ONLY <3>1, <3>2, Constants DEF InLoop, NextCase, Cases, Stages
  <2> QED BY <2>2, <2>4, <2>5, <2>6, <2>7 DEF TypeOK, ResultRecord, reports
<1>4. CASE CallSecond
  <2>1. PICK r \in Replies[EscalationModel] :
          /\ caseResults' = Append(caseResults, Result(case, EscalationModel, r, TRUE))
          /\ totalCost' = AddCosts(totalCost, r.cost)
          /\ finalSuccess' = finalSuccess + One(r.status = "success")
    BY <1>4 DEF CallSecond
  <2>2. /\ stage = "second" /\ escalClient' = "open" /\ NextCase
        /\ UNCHANGED <<firstClient, raised, firstSuccess, escalated, reports>>
    BY <1>4 DEF CallSecond
  <2>3. Result(case, EscalationModel, r, TRUE) \in ResultRecord
    BY <2>2 DEF Result, ResultRecord, InLoop
  <2>4. caseResults' \in Seq(ResultRecord)
    BY <2>1, <2>3, AppendProperties DEF TypeOK, ResultRecord
  <2>5. totalCost' \in Nat \cup {Unknown}
    BY <2>1, CostsAdd DEF TypeOK
  <2>6. finalSuccess' \in Nat
    BY <2>1 DEF TypeOK, One
  <2>7. stage' \in Stages /\ case' \in 1 .. NCases + 1 /\ InLoop'
    BY <2>2 DEF TypeOK, InLoop, NextCase
  <2> QED BY <2>2, <2>4, <2>5, <2>6, <2>7 DEF TypeOK, ResultRecord, reports
<1>5. CASE CallRaised
  BY <1>5 DEF TypeOK, InLoop, CallRaised, counters, reports
<1>6. CASE CloseFirst
  BY <1>6 DEF TypeOK, InLoop, CloseFirst, counters, reports
<1>7. CASE CloseSecond
  <2>1. /\ stage' \in {"finalize", "failed"} /\ escalClient' = "none"
        /\ UNCHANGED <<case, firstClient, raised, caseResults, counters, modelSummaries>>
        /\ \/ summary' = summary
           \/ summary' = [total |-> NCases, first |-> firstSuccess,
                          escalated |-> escalated, final |-> finalSuccess,
                          cost |-> totalCost]
    BY <1>7 DEF CloseSecond
  <2>2. summary' \in [total : Nat, first : Nat, escalated : Nat, final : Nat,
                      cost : Nat \cup {Unknown}]
    BY <2>1 DEF TypeOK
  <2> QED BY <2>1, <2>2 DEF TypeOK, InLoop, counters
<1>8. CASE CloseRaised
  BY <1>8 DEF TypeOK, InLoop, CloseRaised, clients, counters, reports
<1>9. CASE Finalize
  BY <1>9 DEF TypeOK, InLoop, Finalize, clients, counters
<1>10. CASE Ended \/ UNCHANGED vars
  BY <1>10 DEF TypeOK, InLoop, Ended, vars, clients, counters, reports
<1> QED BY <1>1, <1>2, <1>3, <1>4, <1>5, <1>6, <1>7, <1>8, <1>9, <1>10 DEF Next

(* The loop's locals, the results and the summary keep their types, and the *)
(* loop ends with the last case: run_cascade never calls a model for a case *)
(* the suite does not have.                                                 *)
THEOREM TypeCorrect == Spec => [](TypeOK /\ InLoop)
<1>1. Init => TypeOK /\ InLoop BY InitTyped
<1>2. TypeOK /\ InLoop /\ [Next]_vars => (TypeOK /\ InLoop)' BY NextTyped
<1> QED BY <1>1, <1>2, PTL DEF Spec

-----------------------------------------------------------------------------
(* What the finally clause knows at each of its points. *)
CloseInv ==
  /\ stage = "build" => firstClient = "none" /\ escalClient = "none"
  /\ stage = "closeSecond" => firstClient = "none"
  /\ stage \in {"build", "first", "second", "close", "closeSecond"} => raised # "close"
  /\ stage \in {"finalize", "finished"} => raised = "none"
  /\ ClientsReleased

(* run_cascade: both providers are closed on every way out of the loop; one *)
(* is left open only by a close that raises.                                *)
THEOREM ProvidersAreClosed == Spec => []ClientsReleased
<1>1. Init => CloseInv
  BY DEF Init, CloseInv, ClientsReleased
<1>2. CloseInv /\ [Next]_vars => CloseInv'
  <2> SUFFICES ASSUME CloseInv, [Next]_vars PROVE CloseInv'
    OBVIOUS
  <2> USE DEF CloseInv, ClientsReleased, clients
  <2>1. CASE BuildProviders BY <2>1 DEF BuildProviders
  <2>2. CASE BuildRefused BY <2>2 DEF BuildRefused
  <2>3. CASE CallFirst
    <3>1. /\ stage' \in {"first", "second", "close"} /\ raised' = raised
          /\ stage = "first"
      BY <2>3 DEF CallFirst, NextCase
    <3> QED BY <3>1
  <2>4. CASE CallSecond
    <3>1. /\ stage' \in {"first", "close"} /\ raised' = raised
          /\ stage = "second"
      BY <2>4 DEF CallSecond, NextCase
    <3> QED BY <3>1
  <2>5. CASE CallRaised BY <2>5 DEF CallRaised
  <2>6. CASE CloseFirst BY <2>6 DEF CloseFirst
  <2>7. CASE CloseSecond BY <2>7 DEF CloseSecond
  <2>8. CASE CloseRaised BY <2>8 DEF CloseRaised
  <2>9. CASE Finalize BY <2>9 DEF Finalize
  <2>10. CASE Ended \/ UNCHANGED vars BY <2>10 DEF Ended, vars
  <2> QED BY <2>1, <2>2, <2>3, <2>4, <2>5, <2>6, <2>7, <2>8, <2>9, <2>10 DEF Next
<1>3. CloseInv => ClientsReleased BY DEF CloseInv
<1> QED BY <1>1, <1>2, <1>3, PTL DEF Spec

-----------------------------------------------------------------------------
(* What `case_results.append` leaves alone and what it adds. *)
LEMMA Appended ==
  ASSUME NEW s \in Seq(ResultRecord), NEW e, NEW t, t = Append(s, e)
  PROVE  /\ Len(t) = Len(s) + 1
         /\ DOMAIN t = 1 .. Len(s) + 1
         /\ \A i \in 1 .. Len(s) : t[i] = s[i]
         /\ t[Len(s) + 1] = e
         /\ t # << >>
OBVIOUS

(* What one more result adds to the doubted ones. *)
LEMMA DoubtedAfter ==
  ASSUME caseResults \in Seq(ResultRecord),
         NEW c, NEW m, NEW r, NEW e,
         Result(c, m, r, e) \in ResultRecord,
         caseResults' = Append(caseResults, Result(c, m, r, e))
  PROVE  /\ Cardinality(Doubted) \in Nat
         /\ ~e /\ r.status = "success" /\ ShouldEscalate(c, r) =>
              Cardinality(Doubted') = Cardinality(Doubted) + 1
         /\ ~(~e /\ r.status = "success" /\ ShouldEscalate(c, r)) =>
              Doubted' = Doubted
<1> DEFINE n == Len(caseResults)
           new == Result(c, m, r, e)
           added == ~e /\ r.status = "success" /\ ShouldEscalate(c, r)
<1>1. n \in Nat /\ DOMAIN caseResults = 1 .. n
  OBVIOUS
<1>2. /\ DOMAIN caseResults' = 1 .. n + 1
      /\ \A i \in 1 .. n : caseResults'[i] = caseResults[i]
      /\ caseResults'[n + 1] = new
  <2> HIDE DEF new
  <2>1. DOMAIN caseResults' = 1 .. n + 1 BY Appended DEF new
  <2>2. \A i \in 1 .. n : caseResults'[i] = caseResults[i] BY Appended DEF new
  <2>3. caseResults'[n + 1] = new BY Appended DEF new
  <2> QED BY <2>1, <2>2, <2>3
<1>3. /\ new.case = c /\ new.reply = r
      /\ ~new.escalated <=> ~e
  BY DEF Result
<1> HIDE DEF new
<1>4. /\ Doubted \subseteq 1 .. n
      /\ \A i \in 1 .. n : /\ i \in Doubted' => i \in Doubted
                           /\ i \in Doubted => i \in Doubted'
      /\ Doubted' \subseteq 1 .. n + 1
  BY <1>1, <1>2 DEF Doubted, First, Succeeded
<1>5. n + 1 \in Doubted' <=> added
  BY <1>1, <1>2, <1>3 DEF Doubted, First, Succeeded
<1>6. IsFiniteSet(Doubted) /\ Cardinality(Doubted) \in Nat
  <2>1. IsFiniteSet(1 .. n) BY <1>1, FS_Interval
  <2>2. IsFiniteSet(Doubted) BY <2>1, <1>4, FS_Subset
  <2> QED BY <2>2, FS_CardinalityType
<1>7. CASE added
  <2>1. Doubted' = Doubted \cup {n + 1} /\ n + 1 \notin Doubted
    <3> HIDE DEF n, added
    <3>1. n + 1 \in Doubted' BY <1>5, <1>7
    <3>2. ASSUME NEW i \in Doubted' PROVE i \in Doubted \cup {n + 1}
      BY <1>1, <1>4
    <3>3. ASSUME NEW i \in Doubted PROVE i \in Doubted'
      BY <1>4
    <3>4. n + 1 \notin Doubted BY <1>1, <1>4
    <3> QED BY <3>1, <3>2, <3>3, <3>4
  <2>2. Cardinality(Doubted \cup {n + 1}) = Cardinality(Doubted) + 1
    BY <2>1, <1>6, FS_AddElement
  <2> QED BY <2>1, <2>2, <1>6, <1>7
<1>8. CASE ~added
  <2>1. Doubted' = Doubted
    <3> HIDE DEF n, added
    <3>1. n + 1 \notin Doubted' BY <1>5, <1>8
    <3>2. ASSUME NEW i \in Doubted' PROVE i \in Doubted
      BY <1>1, <1>4, <3>1
    <3>3. ASSUME NEW i \in Doubted PROVE i \in Doubted'
      BY <1>4
    <3> QED BY <3>2, <3>3
  <2> QED BY <2>1, <1>6, <1>8
<1> QED BY <1>7, <1>8

(* A case is counted as escalated before its second call and as a final     *)
(* success after it.                                                        *)
CountInv ==
  /\ EscalationOnlyHelps
  /\ stage \in {"build", "first"} => escalated <= case - 1
  /\ stage = "second" => finalSuccess + 1 <= firstSuccess + escalated

(* Escalating only loses a success should_escalate doubted; whatever the    *)
(* conditions, a case is only won by escalating it.                         *)
THEOREM EscalatingOnlyHelps == Spec => []EscalationOnlyHelps
<1>1. Init => CountInv
  <2> SUFFICES ASSUME Init PROVE CountInv OBVIOUS
  <2>1. Doubted = {} BY DEF Init, Doubted
  <2> QED BY <2>1, FS_EmptySet DEF Init, CountInv, EscalationOnlyHelps
<1>2. TypeOK /\ InLoop /\ CountInv /\ [Next]_vars => CountInv'
  <2> SUFFICES ASSUME TypeOK, InLoop, CountInv, [Next]_vars PROVE CountInv'
    OBVIOUS
  <2> DEFINE doubted == Cardinality(Doubted)
  <2>0. /\ case \in Int /\ firstSuccess \in Nat /\ finalSuccess \in Nat
        /\ escalated \in Nat
        /\ caseResults \in Seq(ResultRecord)
    BY DEF TypeOK, ResultRecord
  <2>1. /\ escalated <= case
        /\ finalSuccess <= firstSuccess + escalated
        /\ firstSuccess <= finalSuccess + doubted
        /\ stage \in {"build", "first"} => escalated <= case - 1
        /\ stage = "second" => finalSuccess + 1 <= firstSuccess + escalated
    BY DEF CountInv, EscalationOnlyHelps
  <2>2. SUFFICES
          /\ escalated' <= case'
          /\ finalSuccess' <= firstSuccess' + escalated'
          /\ firstSuccess' <= finalSuccess' + doubted'
          /\ stage' \in {"build", "first"} => escalated' <= case' - 1
          /\ stage' = "second" => finalSuccess' + 1 <= firstSuccess' + escalated'
    BY DEF CountInv, EscalationOnlyHelps
  <2>3. CASE CallFirst
    <3>1. PICK r \in Replies[FirstStage] :
            /\ caseResults' = Append(caseResults, Result(case, FirstStage, r, FALSE))
            /\ firstSuccess' = firstSuccess + One(r.status = "success")
            /\ IF ShouldEscalate(case, r)
               THEN /\ escalated' = escalated + 1
                    /\ stage' = "second"
                    /\ UNCHANGED <<case, finalSuccess>>
               ELSE /\ finalSuccess' = finalSuccess + One(r.status = "success")
                    /\ escalated' = escalated
                    /\ NextCase
      BY <2>3 DEF CallFirst
    <3>2. stage = "first" BY <2>3 DEF CallFirst
    <3>3. Result(case, FirstStage, r, FALSE) \in ResultRecord
      BY <3>2, Constants DEF Result, ResultRecord, InLoop
    <3>4. /\ doubted \in Nat
          /\ r.status = "success" /\ ShouldEscalate(case, r) => doubted' = doubted + 1
          /\ ~(r.status = "success" /\ ShouldEscalate(case, r)) => doubted' = doubted
      BY <2>0, <3>1, <3>3, DoubtedAfter
    <3> HIDE DEF doubted
    <3>5. CASE ShouldEscalate(case, r)
      <4>1. \/ r.status = "success" /\ firstSuccess' = firstSuccess + 1
            \/ r.status # "success" /\ firstSuccess' = firstSuccess
        BY <3>1, <2>0 DEF One
      <4> QED BY <2>0, <2>1, <3>1, <3>2, <3>4, <3>5, <4>1
    <3>6. CASE ~ShouldEscalate(case, r)
      <4>1. \/ firstSuccess' = firstSuccess /\ finalSuccess' = finalSuccess
            \/ firstSuccess' = firstSuccess + 1 /\ finalSuccess' = finalSuccess + 1
        BY <3>1, <3>6, <2>0 DEF One
      <4>2. /\ escalated' = escalated /\ case' = case + 1
            /\ stage' \in {"first", "close"}
        BY <3>1, <3>6 DEF NextCase
      <4> QED BY <2>0, <2>1, <3>2, <3>4, <3>6, <4>1, <4>2
    <3> QED BY <3>5, <3>6
  <2>4. CASE CallSecond
    <3>1. PICK r \in Replies[EscalationModel] :
            /\ caseResults' = Append(caseResults, Result(case, EscalationModel, r, TRUE))
            /\ finalSuccess' = finalSuccess + One(r.status = "success")
      BY <2>4 DEF CallSecond
    <3>2. /\ stage = "second" /\ case' = case + 1 /\ stage' \in {"first", "close"}
          /\ firstSuccess' = firstSuccess /\ escalated' = escalated
      BY <2>4 DEF CallSecond, NextCase
    <3>3. finalSuccess' \in {finalSuccess, finalSuccess + 1}
      BY <3>1, <2>0 DEF One
    <3>4. Result(case, EscalationModel, r, TRUE) \in ResultRecord
      BY <3>2, Constants DEF Result, ResultRecord, InLoop
    <3>5. doubted \in Nat /\ doubted' = doubted
      BY <2>0, <3>1, <3>4, DoubtedAfter
    <3> HIDE DEF doubted
    <3>6. /\ finalSuccess' <= firstSuccess' + escalated'
          /\ firstSuccess' <= finalSuccess' + doubted'
      <4>1. /\ finalSuccess + 1 <= firstSuccess + escalated
            /\ firstSuccess <= finalSuccess + doubted
        BY <2>1, <3>2 DEF doubted
      <4>2. finalSuccess' \in Nat /\ finalSuccess <= finalSuccess' /\ finalSuccess' <= finalSuccess + 1
        BY <2>0, <3>3
      <4>3. finalSuccess' <= firstSuccess + escalated
        BY ONLY <2>0, <4>1, <4>2
      <4>4. firstSuccess <= finalSuccess' + doubted
        <5>1. /\ firstSuccess \in Nat /\ finalSuccess \in Nat
              /\ doubted \in Nat /\ firstSuccess <= finalSuccess + doubted
          BY <2>0, <3>5, <4>1
        <5>2. ASSUME NEW f \in Nat, finalSuccess <= f
              PROVE  firstSuccess <= f + doubted
          BY <5>1, <5>2
        <5> QED BY <4>2, <5>2
      <4> QED BY <4>3, <4>4, <3>2, <3>5
    <3>7. /\ escalated' <= case'
          /\ escalated' <= case' - 1
          /\ stage' # "second"
      BY <2>0, <2>1, <3>2
    <3> QED BY <3>6, <3>7
  <2>5. CASE \/ BuildProviders \/ BuildRefused \/ CallRaised \/ CloseFirst
             \/ CloseSecond \/ CloseRaised \/ Finalize \/ Ended \/ UNCHANGED vars
    <3>1. /\ UNCHANGED <<case, firstSuccess, finalSuccess, escalated, caseResults>>
          /\ \/ stage' = stage \/ stage' \notin {"build", "first", "second"}
             \/ stage = "build" /\ stage' = "first"
      BY <2>5 DEF BuildProviders, BuildRefused, CallRaised, CloseFirst, CloseSecond,
                  CloseRaised, Finalize, Ended, vars, counters
    <3>2. doubted' = doubted
      BY <3>1 DEF Doubted, First, Succeeded
    <3> HIDE DEF doubted
    <3> QED BY <2>0, <2>1, <3>1, <3>2
  <2> QED BY <2>3, <2>4, <2>5 DEF Next
<1>3. CountInv => EscalationOnlyHelps BY DEF CountInv
<1> QED BY <1>1, <1>2, <1>3, TypeCorrect, PTL DEF Spec

(* The conditions that only escalate a case the first model got wrong. *)
FailureConditions == {"evaluator_failure", "policy_failure", "timeout"}

(* Under them a first result that is escalated is not a success.            *)
LEMMA OnlyFailuresEscalate ==
  ASSUME Conditions \subseteq FailureConditions,
         NEW c, NEW r \in Replies[FirstStage] \cup Replies[EscalationModel],
         ShouldEscalate(c, r)
  PROVE  r.status # "success"
<1>1. r.policy = "fail" => r.status # "success" BY Constants
<1>2. /\ "invalid_json" \notin Conditions /\ "low_score" \notin Conditions
      /\ "low_confidence" \notin Conditions /\ "case_tag" \notin Conditions
  BY DEF FailureConditions
<1> QED BY <1>1, <1>2 DEF ShouldEscalate

(* A cascade that only escalates failures never loses a success of its      *)
(* first model.                                                             *)
THEOREM EscalatingFailuresLosesNothing ==
  Conditions \subseteq FailureConditions /\ Spec => [](firstSuccess <= finalSuccess)
<1>1. ASSUME Conditions \subseteq FailureConditions, TypeOK, EscalationOnlyHelps
      PROVE  firstSuccess <= finalSuccess
  <2>1. Doubted = {}
    <3> SUFFICES ASSUME NEW i \in Doubted PROVE FALSE OBVIOUS
    <3>0. caseResults \in Seq(ResultRecord) BY <1>1 DEF TypeOK, ResultRecord
    <3>1. caseResults[i] \in ResultRecord BY <3>0 DEF Doubted
    <3>2. /\ caseResults[i].reply \in Replies[FirstStage] \cup Replies[EscalationModel]
          /\ caseResults[i].reply.status = "success"
          /\ ShouldEscalate(caseResults[i].case, caseResults[i].reply)
      BY <3>1 DEF Doubted, Succeeded, ResultRecord
    <3> QED BY <3>2, <1>1, OnlyFailuresEscalate
  <2>2. Cardinality(Doubted) = 0 BY <2>1, FS_EmptySet
  <2>3. firstSuccess \in Nat /\ finalSuccess \in Nat BY <1>1 DEF TypeOK
  <2> QED BY <1>1, <2>2, <2>3 DEF EscalationOnlyHelps
<1>2. CASE Conditions \subseteq FailureConditions
  <2>1. TypeOK /\ EscalationOnlyHelps => firstSuccess <= finalSuccess BY <1>1, <1>2
  <2> QED BY <2>1, EscalatingOnlyHelps, TypeCorrect, PTL
<1>3. CASE ~(Conditions \subseteq FailureConditions)
  BY <1>3
<1> QED BY <1>2, <1>3

-----------------------------------------------------------------------------
(* What the loop knows of the last result it stored. *)
Latest == caseResults[Len(caseResults)]

TraceInv ==
  /\ EscalationIsTraceable
  /\ stage = "build" => caseResults = << >> /\ case = 1
  /\ stage = "first" =>
       IF caseResults = << >> THEN case = 1
       ELSE /\ Latest.case = case - 1
            /\ ~Latest.escalated => ~ShouldEscalate(Latest.case, Latest.reply)
  /\ stage = "second" =>
       /\ caseResults # << >>
       /\ ~Latest.escalated
       /\ Latest.case = case
       /\ ShouldEscalate(case, Latest.reply)

(* run_cascade: the stored results tell which cases were escalated and why, *)
(* in suite order, whatever was interrupted.                                *)
THEOREM ResultsAreTraceable == Spec => []EscalationIsTraceable
<1>1. Init => TraceInv
  BY DEF Init, TraceInv, EscalationIsTraceable
<1>2. TypeOK /\ InLoop /\ TraceInv /\ [Next]_vars => TraceInv'
  <2> SUFFICES ASSUME TypeOK, InLoop, TraceInv, [Next]_vars PROVE TraceInv'
    OBVIOUS
  <2> DEFINE n == Len(caseResults)
  <2>0. /\ caseResults \in Seq(ResultRecord) /\ case \in Int /\ n \in Nat
        /\ DOMAIN caseResults = 1 .. n
        /\ caseResults = << >> <=> n = 0
    BY DEF TypeOK, ResultRecord
  <2>1. CASE CallFirst
    <3>1. PICK r \in Replies[FirstStage] :
            /\ caseResults' = Append(caseResults, Result(case, FirstStage, r, FALSE))
            /\ IF ShouldEscalate(case, r)
               THEN stage' = "second" /\ case' = case
               ELSE NextCase
      BY <2>1 DEF CallFirst
    <3> DEFINE new == Result(case, FirstStage, r, FALSE)
    <3>2. stage = "first" BY <2>1 DEF CallFirst
    <3>3. /\ Len(caseResults') = n + 1
          /\ DOMAIN caseResults' = 1 .. n + 1
          /\ \A i \in 1 .. n : caseResults'[i] = caseResults[i]
          /\ caseResults'[n + 1] = new
          /\ caseResults' # << >>
      <4>1. caseResults \in Seq(ResultRecord) /\ caseResults' = Append(caseResults, new)
        BY <2>0, <3>1
      <4> HIDE DEF new
      <4>2. Len(caseResults') = n + 1 BY <4>1, Appended
      <4>3. DOMAIN caseResults' = 1 .. n + 1 BY <4>1, Appended
      <4>4. \A i \in 1 .. n : caseResults'[i] = caseResults[i] BY <4>1, Appended
      <4>5. caseResults'[n + 1] = new BY <4>1, Appended
      <4>6. caseResults' # << >> BY <4>1, Appended
      <4> QED BY <4>2, <4>3, <4>4, <4>5, <4>6
    <3>4. /\ new.case = case /\ new.model = FirstStage
          /\ new.reply = r /\ new.escalated = FALSE
      BY DEF Result
    <3> HIDE DEF new
    <3>5. EscalationIsTraceable'
      <4> SUFFICES ASSUME NEW i \in 1 .. n + 1
                   PROVE  LET this == caseResults'[i] IN
                     /\ ~this.escalated =>
                          /\ this.model = FirstStage
                          /\ this.case = IF i = 1 THEN 1 ELSE caseResults'[i - 1].case + 1
                          /\ IF i < Len(caseResults')
                             THEN ShouldEscalate(this.case, this.reply) <=> caseResults'[i + 1].escalated
                             ELSE ShouldEscalate(this.case, this.reply) =>
                                    stage' = "second" \/ raised' \in {"call", "close"}
                     /\ this.escalated =>
                          /\ this.model = EscalationModel
                          /\ i > 1 /\ ~caseResults'[i - 1].escalated
                          /\ caseResults'[i - 1].case = this.case
        BY <3>3 DEF EscalationIsTraceable, First
      <4>1. CASE i = n + 1
        <5>1. case = IF i = 1 THEN 1 ELSE caseResults'[i - 1].case + 1
          BY <2>0, <3>2, <3>3, <4>1 DEF TraceInv, Latest
        <5>2. ShouldEscalate(case, r) => stage' = "second"
          BY <3>1
        <5> QED BY <3>3, <3>4, <4>1, <5>1, <5>2
      <4>2. CASE i \in 1 .. n - 1
        <5>1. /\ caseResults'[i] = caseResults[i]
              /\ caseResults'[i + 1] = caseResults[i + 1]
              /\ i > 1 => caseResults'[i - 1] = caseResults[i - 1]
              /\ i < Len(caseResults) /\ i < Len(caseResults') /\ i \in DOMAIN caseResults
          BY <2>0, <3>3, <4>2
        <5> QED BY <5>1 DEF TraceInv, EscalationIsTraceable, First
      <4>3. CASE i = n /\ n > 0
        <5>1. /\ caseResults'[i] = caseResults[i]
              /\ caseResults'[i + 1].escalated = FALSE
              /\ i > 1 => caseResults'[i - 1] = caseResults[i - 1]
              /\ i < Len(caseResults') /\ i \in DOMAIN caseResults
          BY <2>0, <3>3, <3>4, <4>3
        <5>2. ~caseResults[i].escalated =>
                ~ShouldEscalate(caseResults[i].case, caseResults[i].reply)
          BY <2>0, <3>2, <4>3 DEF TraceInv, Latest
        <5>3. ShouldEscalate(caseResults[i].case, caseResults[i].reply) \in BOOLEAN
          BY DEF ShouldEscalate
        <5> QED BY <5>1, <5>2, <5>3 DEF TraceInv, EscalationIsTraceable, First
      <4>4. i = n + 1 \/ i \in 1 .. n - 1 \/ (i = n /\ n > 0)
        <5>1. n \in Nat
          BY <2>0
        <5>2. i \in Int /\ 1 <= i /\ i <= n + 1
          BY <5>1
        <5> HIDE DEF n
        <5> QED BY <5>1, <5>2
      <4> QED BY ONLY <4>1, <4>2, <4>3, <4>4
    <3>6. Latest' = new
      BY <3>3 DEF Latest
    <3>7. CASE ShouldEscalate(case, r)
      <4>1. (ShouldEscalate(case, Latest.reply))'
        BY <3>1, <3>4, <3>6, <3>7 DEF ShouldEscalate, ValidJson
      <4> QED BY <3>1, <3>3, <3>4, <3>5, <3>6, <3>7, <4>1 DEF TraceInv
    <3>8. CASE ~ShouldEscalate(case, r)
      <4>1. (~ShouldEscalate(Latest.case, Latest.reply))'
        BY <3>1, <3>4, <3>6, <3>8 DEF ShouldEscalate, ValidJson
      <4>2. case' = case + 1 /\ stage' \in {"first", "close"}
        BY <3>1, <3>8 DEF NextCase
      <4>3. (Latest.case = case - 1)'
        BY <2>0, <3>4, <3>6, <4>2
      <4> QED BY <3>3, <3>5, <4>1, <4>2, <4>3 DEF TraceInv
    <3> QED BY <3>7, <3>8
  <2>2. CASE CallSecond
    <3>1. PICK r \in Replies[EscalationModel] :
            caseResults' = Append(caseResults, Result(case, EscalationModel, r, TRUE))
      BY <2>2 DEF CallSecond
    <3> DEFINE new == Result(case, EscalationModel, r, TRUE)
    <3>2. stage = "second" /\ case' = case + 1 /\ stage' \in {"first", "close"}
      BY <2>2 DEF CallSecond, NextCase
    <3>3. /\ Len(caseResults') = n + 1
          /\ DOMAIN caseResults' = 1 .. n + 1
          /\ \A i \in 1 .. n : caseResults'[i] = caseResults[i]
          /\ caseResults'[n + 1] = new
          /\ caseResults' # << >>
      <4>1. caseResults \in Seq(ResultRecord) /\ caseResults' = Append(caseResults, new)
        BY <2>0, <3>1
      <4> HIDE DEF new
      <4>2. Len(caseResults') = n + 1 BY <4>1, Appended
      <4>3. DOMAIN caseResults' = 1 .. n + 1 BY <4>1, Appended
      <4>4. \A i \in 1 .. n : caseResults'[i] = caseResults[i] BY <4>1, Appended
      <4>5. caseResults'[n + 1] = new BY <4>1, Appended
      <4>6. caseResults' # << >> BY <4>1, Appended
      <4> QED BY <4>2, <4>3, <4>4, <4>5, <4>6
    <3>4. /\ new.case = case /\ new.model = EscalationModel
          /\ new.reply = r /\ new.escalated = TRUE
      BY DEF Result
    <3> HIDE DEF new
    <3>5. /\ n > 0 /\ ~caseResults[n].escalated /\ caseResults[n].case = case
          /\ ShouldEscalate(caseResults[n].case, caseResults[n].reply)
      BY <2>0, <3>2 DEF TraceInv, Latest
    <3>6. EscalationIsTraceable'
      <4> SUFFICES ASSUME NEW i \in 1 .. n + 1
                   PROVE  LET this == caseResults'[i] IN
                     /\ ~this.escalated =>
                          /\ this.model = FirstStage
                          /\ this.case = IF i = 1 THEN 1 ELSE caseResults'[i - 1].case + 1
                          /\ IF i < Len(caseResults')
                             THEN ShouldEscalate(this.case, this.reply) <=> caseResults'[i + 1].escalated
                             ELSE ShouldEscalate(this.case, this.reply) =>
                                    stage' = "second" \/ raised' \in {"call", "close"}
                     /\ this.escalated =>
                          /\ this.model = EscalationModel
                          /\ i > 1 /\ ~caseResults'[i - 1].escalated
                          /\ caseResults'[i - 1].case = this.case
        BY <3>3 DEF EscalationIsTraceable, First
      <4>1. CASE i = n + 1
        BY <2>0, <3>3, <3>4, <3>5, <4>1
      <4>2. CASE i \in 1 .. n - 1
        <5>1. /\ caseResults'[i] = caseResults[i]
              /\ caseResults'[i + 1] = caseResults[i + 1]
              /\ i > 1 => caseResults'[i - 1] = caseResults[i - 1]
              /\ i < Len(caseResults) /\ i < Len(caseResults') /\ i \in DOMAIN caseResults
          BY <2>0, <3>3, <4>2
        <5> QED BY <5>1 DEF TraceInv, EscalationIsTraceable, First
      <4>3. CASE i = n /\ n > 0
        <5>1. /\ caseResults'[i] = caseResults[i]
              /\ caseResults'[i + 1].escalated = TRUE
              /\ i > 1 => caseResults'[i - 1] = caseResults[i - 1]
              /\ i < Len(caseResults') /\ i \in DOMAIN caseResults
          BY <2>0, <3>3, <3>4, <4>3
        <5>3. ShouldEscalate(caseResults[i].case, caseResults[i].reply) = TRUE
          BY <3>5, <4>3 DEF ShouldEscalate
        <5> QED BY <3>5, <4>3, <5>1, <5>3 DEF TraceInv, EscalationIsTraceable, First
      <4>4. i = n + 1 \/ i \in 1 .. n - 1 \/ (i = n /\ n > 0)
        <5>1. n \in Nat
          BY <2>0
        <5>2. i \in Int /\ 1 <= i /\ i <= n + 1
          BY <5>1
        <5> HIDE DEF n
        <5> QED BY <5>1, <5>2
      <4> QED BY ONLY <4>1, <4>2, <4>3, <4>4
    <3>7. Latest' = new
      BY <3>3 DEF Latest
    <3>8. (Latest.case = case - 1)' /\ (Latest.escalated)'
      BY <2>0, <3>2, <3>4, <3>7
    <3> QED BY <3>2, <3>3, <3>6, <3>8 DEF TraceInv
  <2>3. CASE \/ BuildProviders \/ BuildRefused \/ CallRaised \/ CloseFirst
             \/ CloseSecond \/ CloseRaised \/ Finalize \/ Ended \/ UNCHANGED vars
    <3>1. /\ UNCHANGED <<case, caseResults>>
          /\ \/ stage' = stage
             \/ stage' \notin {"build", "first", "second"}
             \/ stage = "build" /\ stage' = "first"
          /\ stage = "second" /\ stage' # "second" => raised' \in {"call", "close"}
          /\ raised \in {"call", "close"} =>
               raised' \in {"call", "close"} \/ stage = "build"
      BY <2>3 DEF BuildProviders, BuildRefused, CallRaised, CloseFirst, CloseSecond,
                  CloseRaised, Finalize, Ended, vars, counters
    <3>2. EscalationIsTraceable'
      BY <3>1 DEF TraceInv, EscalationIsTraceable, First, ShouldEscalate, ValidJson
    <3>3. (ShouldEscalate(case, Latest.reply))' <=> ShouldEscalate(case, Latest.reply)
      BY <3>1 DEF ShouldEscalate, ValidJson, Latest
    <3>4. (ShouldEscalate(Latest.case, Latest.reply))' <=> ShouldEscalate(Latest.case, Latest.reply)
      BY <3>1 DEF ShouldEscalate, ValidJson, Latest
    <3>5. Latest' = Latest
      BY <3>1 DEF Latest
    <3> QED BY <3>1, <3>2, <3>3, <3>4, <3>5 DEF TraceInv
  <2> QED BY <2>1, <2>2, <2>3 DEF Next
<1>3. TraceInv => EscalationIsTraceable BY DEF TraceInv
<1> QED BY <1>1, <1>2, <1>3, TypeCorrect, PTL DEF Spec

-----------------------------------------------------------------------------
(* What the stored results say: which attempts there were, which succeeded, *)
(* and which result is a case's last.                                       *)
FirstsOf(results) == {i \in DOMAIN results : ~results[i].escalated}
SecondsOf(results) == {i \in DOMAIN results : results[i].escalated}
WinsOf(results, S) == {i \in S : results[i].reply.status = "success"}
IsLastOf(results, c, i) ==
  /\ i \in DOMAIN results /\ results[i].case = c
  /\ \A j \in DOMAIN results : results[j].case = c => j <= i

(* A stored result is counted once, as what it is. *)
LEMMA CountsAfter ==
  ASSUME NEW results \in Seq(ResultRecord), NEW new \in ResultRecord,
         NEW longer, longer = Append(results, new)
  PROVE  /\ Cardinality(FirstsOf(longer)) =
              Cardinality(FirstsOf(results)) + One(~new.escalated)
         /\ Cardinality(SecondsOf(longer)) =
              Cardinality(SecondsOf(results)) + One(new.escalated)
         /\ Cardinality(WinsOf(longer, FirstsOf(longer))) =
              Cardinality(WinsOf(results, FirstsOf(results)))
                + One(~new.escalated /\ new.reply.status = "success")
         /\ Cardinality(WinsOf(longer, SecondsOf(longer))) =
              Cardinality(WinsOf(results, SecondsOf(results)))
                + One(new.escalated /\ new.reply.status = "success")
<1> DEFINE n == Len(results)
<1>1. /\ n \in Nat /\ DOMAIN results = 1 .. n /\ DOMAIN longer = 1 .. n + 1
      /\ \A i \in 1 .. n : longer[i] = results[i]
      /\ longer[n + 1] = new
  BY Appended
<1>2. n + 1 \notin 1 .. n /\ \A i \in 1 .. n + 1 : i \in 1 .. n \/ i = n + 1
  BY <1>1
<1> HIDE DEF n
<1>3. ASSUME NEW old \in SUBSET (1 .. n), NEW now, NEW picked \in BOOLEAN,
             now = old \cup (IF picked THEN {n + 1} ELSE {})
      PROVE  Cardinality(now) = Cardinality(old) + One(picked)
  <2>1. CASE picked
    <3>1. now = old \cup {n + 1} /\ now # old
      BY <1>2, <1>3, <2>1
    <3>2. Cardinality(now) = Cardinality(old) + 1
      BY <1>1, <3>1, PickedOneMore
    <3> QED BY <2>1, <3>2 DEF One
  <2>2. CASE ~picked
    <3>1. now = old
      BY <1>3, <2>2
    <3>2. Cardinality(old) \in Nat
      BY <1>1, <3>1, PickedOneMore
    <3> QED BY <2>2, <3>1, <3>2 DEF One
  <2> QED BY <2>1, <2>2
<1>4. new.escalated \in BOOLEAN
  BY DEF ResultRecord
<1>5. /\ FirstsOf(results) \in SUBSET (1 .. n) /\ SecondsOf(results) \in SUBSET (1 .. n)
      /\ WinsOf(results, FirstsOf(results)) \in SUBSET (1 .. n)
      /\ WinsOf(results, SecondsOf(results)) \in SUBSET (1 .. n)
  BY <1>1 DEF FirstsOf, SecondsOf, WinsOf
<1>6. /\ FirstsOf(longer) =
           FirstsOf(results) \cup (IF ~new.escalated THEN {n + 1} ELSE {})
      /\ SecondsOf(longer) =
           SecondsOf(results) \cup (IF new.escalated THEN {n + 1} ELSE {})
  BY <1>1, <1>2 DEF FirstsOf, SecondsOf
<1>7. /\ WinsOf(longer, FirstsOf(longer)) =
           WinsOf(results, FirstsOf(results))
             \cup (IF ~new.escalated /\ new.reply.status = "success" THEN {n + 1} ELSE {})
      /\ WinsOf(longer, SecondsOf(longer)) =
           WinsOf(results, SecondsOf(results))
             \cup (IF new.escalated /\ new.reply.status = "success" THEN {n + 1} ELSE {})
  BY <1>1, <1>2 DEF FirstsOf, SecondsOf, WinsOf
<1> QED BY <1>3, <1>4, <1>5, <1>6, <1>7

LastIn(results, c) ==
  CHOOSE k \in DOMAIN results :
    /\ results[k].case = c
    /\ \A j \in DOMAIN results : results[j].case = c => j <= k

(* A case has one last result. *)
LEMMA LastIs ==
  ASSUME NEW results \in Seq(ResultRecord), NEW c, NEW i, IsLastOf(results, c, i)
  PROVE  LastIn(results, c) = i
<1>1. DOMAIN results \subseteq Int
  OBVIOUS
<1>2. ASSUME NEW k, IsLastOf(results, c, k)
      PROVE  k = i
  <2>1. k <= i /\ i <= k /\ k \in Int /\ i \in Int
    BY <1>1, <1>2 DEF IsLastOf
  <2> QED BY <2>1
<1>3. IsLastOf(results, c, LastIn(results, c))
  BY DEF IsLastOf, LastIn
<1> QED BY <1>2, <1>3

(* The cases before case k whose last result is a success. *)
SettledBefore(results, k) ==
  {c \in 1 .. k - 1 : results[LastIn(results, c)].reply.status = "success"}

LastsBefore(results, k) == \A c \in 1 .. k - 1 : \E i : IsLastOf(results, c, i)

(* A result is the last one of its case, and no other case's.               *)
LEMMA SettledAfter ==
  ASSUME NEW results \in Seq(ResultRecord), NEW new \in ResultRecord,
         NEW longer, longer = Append(results, new),
         NEW k \in Nat \ {0}, new.case = k,
         LastsBefore(results, k)
  PROVE  /\ LastsBefore(longer, k + 1)
         /\ SettledBefore(longer, k) = SettledBefore(results, k)
         /\ Cardinality(SettledBefore(longer, k + 1)) =
              Cardinality(SettledBefore(results, k))
                + One(new.reply.status = "success")
<1> DEFINE n == Len(results)
<1>0. longer \in Seq(ResultRecord)
  OBVIOUS
<1>1. /\ n \in Nat /\ DOMAIN results = 1 .. n /\ DOMAIN longer = 1 .. n + 1
      /\ \A i \in 1 .. n : longer[i] = results[i]
      /\ longer[n + 1] = new
  BY Appended
<1>2. n + 1 \notin 1 .. n /\ \A i \in 1 .. n + 1 : i \in 1 .. n \/ i = n + 1
  BY <1>1
<1> HIDE DEF n
<1>3. ASSUME NEW c \in 1 .. k - 1, NEW i, IsLastOf(results, c, i)
      PROVE  IsLastOf(longer, c, i)
  <2>1. c # k
    OBVIOUS
  <2>2. i \in 1 .. n /\ results[i].case = c
    BY <1>1, <1>3 DEF IsLastOf
  <2>3. ASSUME NEW j \in 1 .. n + 1, longer[j].case = c PROVE j <= i
    <3>1. j # n + 1
      BY <1>1, <2>1, <2>3
    <3>2. j \in 1 .. n /\ results[j].case = c
      BY <1>1, <1>2, <2>3, <3>1
    <3> QED BY <1>1, <1>3, <3>2 DEF IsLastOf
  <2>4. i \in DOMAIN longer /\ longer[i].case = c
    BY <1>1, <2>2
  <2>5. \A j \in DOMAIN longer : longer[j].case = c => j <= i
    BY <1>1, <2>3
  <2> QED BY <2>4, <2>5 DEF IsLastOf
<1>4. IsLastOf(longer, k, n + 1)
  BY <1>1 DEF IsLastOf
<1>5. ASSUME NEW c \in 1 .. k - 1
      PROVE  longer[LastIn(longer, c)] = results[LastIn(results, c)]
  <2>1. PICK i : IsLastOf(results, c, i)
    BY DEF LastsBefore
  <2>2. LastIn(results, c) = i
    BY <2>1, LastIs
  <2>3. LastIn(longer, c) = i
    BY <1>0, <1>3, <2>1, LastIs
  <2>4. i \in 1 .. n
    BY <1>1, <2>1 DEF IsLastOf
  <2> QED BY <1>1, <2>2, <2>3, <2>4
<1>6. LastIn(longer, k) = n + 1
  BY <1>0, <1>4, LastIs
<1>7. LastsBefore(longer, k + 1)
  <2> SUFFICES ASSUME NEW c \in 1 .. k PROVE \E i : IsLastOf(longer, c, i)
    BY DEF LastsBefore
  <2>1. CASE c = k
    BY <1>4, <2>1
  <2>2. CASE c \in 1 .. k - 1
    BY <1>3, <2>2 DEF LastsBefore
  <2> QED BY <2>1, <2>2
<1>8. SettledBefore(longer, k) = SettledBefore(results, k)
  BY <1>5 DEF SettledBefore
<1>9. Cardinality(SettledBefore(longer, k + 1)) =
        Cardinality(SettledBefore(results, k)) + One(new.reply.status = "success")
  <2> DEFINE old == SettledBefore(results, k)
             now == SettledBefore(longer, k + 1)
             m == k - 1
             won == new.reply.status = "success"
  <2>1. m \in Nat /\ m + 1 = k /\ (k + 1) - 1 = k
    OBVIOUS
  <2>2. old \in SUBSET (1 .. m) /\ k \notin old
    BY DEF SettledBefore
  <2>3. now \subseteq 1 .. k
    BY <2>1 DEF SettledBefore
  <2>4. k \in now <=> won
    BY <1>1, <1>6, <2>1 DEF SettledBefore
  <2>5. ASSUME NEW c \in 1 .. m
        PROVE  c \in now <=> c \in old
    <3>1. c \in 1 .. k /\ c \in 1 .. (k + 1) - 1
      BY <2>1
    <3> QED BY <1>5, <3>1 DEF SettledBefore
  <2> HIDE DEF old, now, m, won
  <2>6. \A c \in 1 .. k : c \in 1 .. m \/ c = m + 1
    BY <2>1
  <2>7. CASE won
    <3>1. now = old \cup {m + 1} /\ now # old
      BY <2>1, <2>2, <2>3, <2>4, <2>5, <2>6, <2>7
    <3>2. Cardinality(now) = Cardinality(old) + 1
      BY <2>1, <2>2, <3>1, PickedOneMore
    <3> QED BY <2>7, <3>2 DEF won, now, old, One
  <2>8. CASE ~won
    <3>1. now = old
      BY <2>1, <2>2, <2>3, <2>4, <2>5, <2>6, <2>8
    <3>2. Cardinality(old) \in Nat
      BY <2>1, <2>2, PickedOneMore
    <3> QED BY <2>8, <3>1, <3>2 DEF won, now, old, One
  <2> QED BY <2>7, <2>8
<1> QED BY <1>7, <1>8, <1>9

-----------------------------------------------------------------------------
(* The counters of the loop, against what it stored: how many first and     *)
(* second attempts there are, how many succeeded, and how many cases are    *)
(* settled with a success.  A case waits while its second attempt is due.   *)
Firsts == Cardinality(FirstsOf(caseResults))
Seconds == Cardinality(SecondsOf(caseResults))
FirstWins == Cardinality(WinsOf(caseResults, FirstsOf(caseResults)))
SecondWins == Cardinality(WinsOf(caseResults, SecondsOf(caseResults)))
Settled == Cardinality(SettledBefore(caseResults, case))
Waiting == One(stage = "second")

BookInv ==
  /\ Firsts = case - 1 + Waiting
  /\ Seconds + Waiting = escalated
  /\ FirstWins = firstSuccess
  /\ Settled = finalSuccess
  /\ finalSuccess <= FirstWins + SecondWins
  /\ LastsBefore(caseResults, case)
  /\ stage \in {"close", "closeSecond", "finalize", "finished"} => case = NCases + 1

(* An exception leaves the loop with a case begun and not counted; without  *)
(* one the books are in order, and the summaries are made of them.          *)
AddUpInv ==
  /\ raised = "none" => BookInv
  /\ stage \in {"finalize", "finished"} =>
       /\ raised = "none"
       /\ summary = [total |-> NCases, first |-> firstSuccess,
                     escalated |-> escalated, final |-> finalSuccess,
                     cost |-> totalCost]
  /\ stage = "finished" =>
       modelSummaries = [m \in Selected |-> ModelSummary(m)]

(* The counts of what is stored are numbers. *)
LEMMA CountsAreNumbers ==
  ASSUME caseResults \in Seq(ResultRecord), case \in Nat \ {0}
  PROVE  /\ Firsts \in Nat /\ Seconds \in Nat
         /\ FirstWins \in Nat /\ SecondWins \in Nat /\ Settled \in Nat
<1>1. /\ FirstsOf(caseResults) \in SUBSET (1 .. Len(caseResults))
      /\ SecondsOf(caseResults) \in SUBSET (1 .. Len(caseResults))
      /\ WinsOf(caseResults, FirstsOf(caseResults)) \in SUBSET (1 .. Len(caseResults))
      /\ WinsOf(caseResults, SecondsOf(caseResults)) \in SUBSET (1 .. Len(caseResults))
      /\ Len(caseResults) \in Nat
  BY DEF FirstsOf, SecondsOf, WinsOf
<1>2. SettledBefore(caseResults, case) \in SUBSET (1 .. case - 1) /\ case - 1 \in Nat
  BY DEF SettledBefore
<1> QED BY <1>1, <1>2, PickedOneMore DEF Firsts, Seconds, FirstWins, SecondWins, Settled

(* A call keeps the books. *)
LEMMA CallKeepsBooks ==
  ASSUME TypeOK, InLoop, BookInv, CallFirst \/ CallSecond
  PROVE  BookInv'
<1>0. /\ caseResults \in Seq(ResultRecord) /\ NCases \in Nat \ {0}
      /\ case \in Nat \ {0} /\ escalated \in Nat
      /\ firstSuccess \in Nat /\ finalSuccess \in Nat
  BY Constants DEF TypeOK, ResultRecord
<1>n. /\ Firsts \in Nat /\ Seconds \in Nat
      /\ FirstWins \in Nat /\ SecondWins \in Nat /\ Settled \in Nat
  BY <1>0, CountsAreNumbers
<1>3. BookInv
  OBVIOUS
<1>1. CASE CallFirst
  <2>0. stage = "first" /\ case \in Cases
    BY <1>1 DEF CallFirst, InLoop
  <2>1. PICK r \in Replies[FirstStage] :
          /\ caseResults' = Append(caseResults, Result(case, FirstStage, r, FALSE))
          /\ firstSuccess' = firstSuccess + One(r.status = "success")
          /\ \/ /\ escalated' = escalated + 1
                /\ stage' = "second"
                /\ UNCHANGED <<case, finalSuccess>>
             \/ /\ finalSuccess' = finalSuccess + One(r.status = "success")
                /\ escalated' = escalated
                /\ NextCase
    BY <1>1 DEF CallFirst
  <2> DEFINE new == Result(case, FirstStage, r, FALSE)
             longer == caseResults'
             won == One(r.status = "success")
  <2>2. new \in ResultRecord /\ new.escalated = FALSE /\ new.reply = r /\ new.case = case
    BY <1>0, <2>0, Constants DEF Result, ResultRecord
  <2>3. longer = Append(caseResults, new)
    BY <2>1
  <2> HIDE DEF new, longer
  <2>4. /\ Firsts' = Firsts + 1 /\ Seconds' = Seconds + 0
        /\ FirstWins' = FirstWins + won
        /\ SecondWins' = SecondWins + 0
    <3>1. /\ Cardinality(FirstsOf(longer)) =
               Cardinality(FirstsOf(caseResults)) + One(~new.escalated)
          /\ Cardinality(SecondsOf(longer)) =
               Cardinality(SecondsOf(caseResults)) + One(new.escalated)
          /\ Cardinality(WinsOf(longer, FirstsOf(longer))) =
               Cardinality(WinsOf(caseResults, FirstsOf(caseResults)))
                 + One(~new.escalated /\ new.reply.status = "success")
          /\ Cardinality(WinsOf(longer, SecondsOf(longer))) =
               Cardinality(WinsOf(caseResults, SecondsOf(caseResults)))
                 + One(new.escalated /\ new.reply.status = "success")
      BY <1>0, <2>2, <2>3, CountsAfter
    <3>2. /\ One(~new.escalated) = 1 /\ One(new.escalated) = 0
          /\ One(~new.escalated /\ new.reply.status = "success") = won
          /\ One(new.escalated /\ new.reply.status = "success") = 0
      BY <2>2 DEF One
    <3> QED BY <3>1, <3>2 DEF longer, Firsts, Seconds, FirstWins, SecondWins
  <2>5. /\ LastsBefore(caseResults', case + 1)
        /\ Cardinality(SettledBefore(caseResults', case)) = Settled
        /\ Cardinality(SettledBefore(caseResults', case + 1)) = Settled + won
    <3>1. LastsBefore(caseResults, case)
      BY <1>3 DEF BookInv
    <3>2. /\ LastsBefore(longer, case + 1)
          /\ SettledBefore(longer, case) = SettledBefore(caseResults, case)
          /\ Cardinality(SettledBefore(longer, case + 1)) =
               Cardinality(SettledBefore(caseResults, case))
                 + One(new.reply.status = "success")
      <4>1. case \in Nat \ {0}
        BY <1>0
      <4>2. new \in ResultRecord /\ new.case = case
        BY <2>2
      <4>3. caseResults \in Seq(ResultRecord)
        BY <1>0
      <4> QED BY ONLY <2>3, <3>1, <4>1, <4>2, <4>3, SettledAfter
    <3> QED BY <2>2, <3>2 DEF longer, Settled
  <2>6. won \in {0, 1}
    BY DEF One
  <2> HIDE DEF won
  <2>7. /\ Firsts = case - 1 /\ Seconds = escalated /\ FirstWins = firstSuccess
        /\ Settled = finalSuccess /\ finalSuccess <= FirstWins + SecondWins
    BY <1>0, <1>n, <2>0 DEF BookInv, Waiting, One
  <2>8. firstSuccess' = firstSuccess + won /\ FirstWins' = firstSuccess'
    BY <2>1, <2>4, <2>7 DEF won
  <2>9. CASE /\ escalated' = escalated + 1 /\ stage' = "second"
             /\ UNCHANGED <<case, finalSuccess>>
    <3>1. Waiting' = 1
      BY <2>9 DEF Waiting, One
    <3>2. Firsts' = case' - 1 + Waiting' /\ Seconds' + Waiting' = escalated'
      BY <1>0, <1>n, <2>4, <2>7, <2>9, <3>1
    <3>3. Settled' = finalSuccess' /\ LastsBefore(caseResults, case)'
      <4>1. LastsBefore(caseResults', case)
        BY <1>0, <2>5 DEF LastsBefore
      <4> QED BY <2>5, <2>7, <2>9, <4>1 DEF Settled
    <3>4. finalSuccess' <= FirstWins' + SecondWins'
      BY <1>0, <1>n, <2>4, <2>6, <2>7, <2>9
    <3> QED BY <2>8, <2>9, <3>2, <3>3, <3>4 DEF BookInv
  <2>10. CASE /\ finalSuccess' = finalSuccess + One(r.status = "success")
              /\ escalated' = escalated /\ NextCase
    <3>1. /\ Waiting' = 0 /\ case' = case + 1 /\ stage' \in {"first", "close"}
          /\ stage' = "close" => case' = NCases + 1
      BY <2>10 DEF Waiting, One, NextCase
    <3>2. Firsts' = case' - 1 + Waiting' /\ Seconds' + Waiting' = escalated'
      BY <1>0, <1>n, <2>4, <2>7, <2>10, <3>1
    <3>3. finalSuccess' = finalSuccess + won
      BY <2>10 DEF won
    <3>4. Settled' = finalSuccess' /\ LastsBefore(caseResults, case)'
      BY <2>5, <2>7, <3>1, <3>3 DEF Settled
    <3>5. finalSuccess' <= FirstWins' + SecondWins'
      BY <1>0, <1>n, <2>4, <2>6, <2>7, <3>3
    <3> QED BY <2>8, <3>1, <3>2, <3>4, <3>5 DEF BookInv
  <2> QED BY <2>1, <2>9, <2>10
<1>2. CASE CallSecond
  <2>0. /\ stage = "second" /\ case \in Cases
        /\ case' = case + 1 /\ stage' \in {"first", "close"}
        /\ stage' = "close" => case' = NCases + 1
        /\ UNCHANGED <<firstSuccess, escalated>>
    BY <1>2 DEF CallSecond, InLoop, NextCase
  <2>1. PICK r \in Replies[EscalationModel] :
          /\ caseResults' = Append(caseResults, Result(case, EscalationModel, r, TRUE))
          /\ finalSuccess' = finalSuccess + One(r.status = "success")
    BY <1>2 DEF CallSecond
  <2> DEFINE new == Result(case, EscalationModel, r, TRUE)
             longer == caseResults'
             won == One(r.status = "success")
  <2>2. new \in ResultRecord /\ new.escalated = TRUE /\ new.reply = r /\ new.case = case
    BY <1>0, <2>0, Constants DEF Result, ResultRecord
  <2>3. longer = Append(caseResults, new)
    BY <2>1
  <2> HIDE DEF new, longer
  <2>4. /\ Firsts' = Firsts + 0 /\ Seconds' = Seconds + 1
        /\ FirstWins' = FirstWins + 0
        /\ SecondWins' = SecondWins + won
    <3>1. /\ Cardinality(FirstsOf(longer)) =
               Cardinality(FirstsOf(caseResults)) + One(~new.escalated)
          /\ Cardinality(SecondsOf(longer)) =
               Cardinality(SecondsOf(caseResults)) + One(new.escalated)
          /\ Cardinality(WinsOf(longer, FirstsOf(longer))) =
               Cardinality(WinsOf(caseResults, FirstsOf(caseResults)))
                 + One(~new.escalated /\ new.reply.status = "success")
          /\ Cardinality(WinsOf(longer, SecondsOf(longer))) =
               Cardinality(WinsOf(caseResults, SecondsOf(caseResults)))
                 + One(new.escalated /\ new.reply.status = "success")
      BY <1>0, <2>2, <2>3, CountsAfter
    <3>2. /\ One(~new.escalated) = 0 /\ One(new.escalated) = 1
          /\ One(~new.escalated /\ new.reply.status = "success") = 0
          /\ One(new.escalated /\ new.reply.status = "success") = won
      BY <2>2 DEF One
    <3> QED BY <3>1, <3>2 DEF longer, Firsts, Seconds, FirstWins, SecondWins
  <2>5. /\ LastsBefore(caseResults', case + 1)
        /\ Cardinality(SettledBefore(caseResults', case)) = Settled
        /\ Cardinality(SettledBefore(caseResults', case + 1)) = Settled + won
    <3>1. LastsBefore(caseResults, case)
      BY <1>3 DEF BookInv
    <3>2. /\ LastsBefore(longer, case + 1)
          /\ SettledBefore(longer, case) = SettledBefore(caseResults, case)
          /\ Cardinality(SettledBefore(longer, case + 1)) =
               Cardinality(SettledBefore(caseResults, case))
                 + One(new.reply.status = "success")
      <4>1. case \in Nat \ {0}
        BY <1>0
      <4>2. new \in ResultRecord /\ new.case = case
        BY <2>2
      <4>3. caseResults \in Seq(ResultRecord)
        BY <1>0
      <4> QED BY ONLY <2>3, <3>1, <4>1, <4>2, <4>3, SettledAfter
    <3> QED BY <2>2, <3>2 DEF longer, Settled
  <2>6. won \in {0, 1}
    BY DEF One
  <2> HIDE DEF won
  <2>7. /\ Firsts = case /\ Seconds + 1 = escalated /\ FirstWins = firstSuccess
        /\ Settled = finalSuccess /\ finalSuccess <= FirstWins + SecondWins
    BY <1>0, <1>n, <2>0 DEF BookInv, Waiting, One
  <2>8. Waiting' = 0
    BY <2>0 DEF Waiting, One
  <2>9. Firsts' = case' - 1 + Waiting' /\ Seconds' + Waiting' = escalated'
    BY <1>0, <1>n, <2>0, <2>4, <2>7, <2>8
  <2>10. FirstWins' = firstSuccess' /\ finalSuccess' = finalSuccess + won
    BY <1>0, <1>n, <2>0, <2>1, <2>4, <2>7 DEF won
  <2>11. Settled' = finalSuccess' /\ LastsBefore(caseResults, case)'
    BY <2>0, <2>5, <2>7, <2>10 DEF Settled
  <2>12. finalSuccess' <= FirstWins' + SecondWins'
    <3>1. finalSuccess + won <= FirstWins + (SecondWins + won)
      BY <1>0, <1>n, <2>6, <2>7
    <3> QED BY <1>n, <2>4, <2>10, <3>1
  <2> QED BY <2>0, <2>9, <2>10, <2>11, <2>12 DEF BookInv
<1> QED BY <1>1, <1>2

(* Every step of the loop and what follows it keeps the books, and makes    *)
(* the summaries of them.                                                   *)
LEMMA AddUpStep ==
  ASSUME TypeOK, InLoop, AddUpInv, [Next]_vars
  PROVE  AddUpInv'
<1>1. CASE CallFirst \/ CallSecond
  <2>1. stage' \in {"first", "second", "close"} /\ raised' = raised
    BY <1>1 DEF CallFirst, CallSecond, NextCase
  <2> QED BY <1>1, <2>1, CallKeepsBooks DEF AddUpInv
<1>2. CASE \/ BuildProviders \/ BuildRefused \/ CallRaised \/ CloseFirst
           \/ CloseSecond \/ CloseRaised \/ Finalize \/ Ended \/ UNCHANGED vars
  <2>1. /\ UNCHANGED <<case, caseResults, firstSuccess, escalated, finalSuccess, totalCost>>
        /\ raised' = "none" =>
             /\ raised = "none" /\ (stage' = "second" <=> stage = "second")
             /\ stage' \in {"close", "closeSecond", "finalize", "finished"} =>
                  stage \in {"close", "closeSecond", "finalize", "finished"}
    BY <1>2 DEF BuildProviders, BuildRefused, CallRaised, CloseFirst, CloseSecond,
                CloseRaised, Finalize, Ended, vars, counters
  <2>2. raised' = "none" => BookInv'
    BY <2>1 DEF AddUpInv, BookInv, Firsts, Seconds, FirstWins, SecondWins, Settled,
                Waiting, LastsBefore
  <2>3. stage' \in {"finalize", "finished"} =>
          /\ raised' = "none"
          /\ summary' = [total |-> NCases, first |-> firstSuccess,
                         escalated |-> escalated, final |-> finalSuccess,
                         cost |-> totalCost]
    BY <1>2 DEF BuildProviders, BuildRefused, CallRaised, CloseFirst, CloseSecond,
                CloseRaised, Finalize, Ended, vars, reports, AddUpInv
  <2>4. stage' = "finished" => (modelSummaries = [m \in Selected |-> ModelSummary(m)])'
    <3>1. [m \in Selected |-> ModelSummary(m)]' = [m \in Selected |-> ModelSummary(m)]
      BY <2>1 DEF ModelSummary, ResultsOf, Succeeded
    <3>2. stage' = "finished" =>
            modelSummaries' = [m \in Selected |-> ModelSummary(m)]
      BY <1>2 DEF BuildProviders, BuildRefused, CallRaised, CloseFirst, CloseSecond,
                  CloseRaised, Finalize, Ended, vars, reports, AddUpInv
    <3> QED BY <3>1, <3>2
  <2> QED BY <2>1, <2>2, <2>3, <2>4 DEF AddUpInv
<1> QED BY <1>1, <1>2 DEF Next

(* The two stories told of a finished run are the same one: the counters of *)
(* CascadeSummary say what the results stored beside them say, and so do    *)
(* the summaries that _finalize makes of the results for each model.        *)
THEOREM CountersSayWhatIsStored == Spec => []SummariesAddUp
<1>1. Init => AddUpInv
  <2> SUFFICES ASSUME Init PROVE AddUpInv
    OBVIOUS
  <2>1. caseResults = << >> /\ case = 1 /\ stage = "build" /\ escalated = 0
        /\ firstSuccess = 0 /\ finalSuccess = 0
    BY DEF Init
  <2>2. FirstsOf(caseResults) = {} /\ SecondsOf(caseResults) = {}
    BY <2>1 DEF FirstsOf, SecondsOf
  <2>3. WinsOf(caseResults, {}) = {}
    BY DEF WinsOf
  <2>4. SettledBefore(caseResults, case) = {} /\ LastsBefore(caseResults, case)
    BY <2>1 DEF SettledBefore, LastsBefore
  <2>5. Firsts = 0 /\ Seconds = 0 /\ FirstWins = 0 /\ SecondWins = 0 /\ Settled = 0
    BY <2>2, <2>3, <2>4, FS_EmptySet
       DEF Firsts, Seconds, FirstWins, SecondWins, Settled
  <2>6. Waiting = 0
    BY <2>1 DEF Waiting, One
  <2>7. BookInv
    BY <2>1, <2>4, <2>5, <2>6 DEF BookInv
  <2> QED BY <2>1, <2>7 DEF AddUpInv
<1>2. AddUpInv /\ TypeOK /\ InLoop /\ [Next]_vars => AddUpInv'
  BY AddUpStep
<1>3. TypeOK /\ AddUpInv /\ EscalationIsTraceable => SummariesAddUp
  <2> SUFFICES ASSUME TypeOK, AddUpInv, EscalationIsTraceable,
                      stage \in {"finalize", "finished"}
               PROVE  SummariesAddUp
    BY DEF SummariesAddUp, SummaryAddsUp, SummariesAgree
  <2>0. /\ caseResults \in Seq(ResultRecord) /\ NCases \in Nat \ {0}
        /\ escalated \in Nat /\ firstSuccess \in Nat /\ finalSuccess \in Nat
    BY Constants DEF TypeOK, ResultRecord
  <2>1. /\ BookInv /\ case = NCases + 1 /\ Waiting = 0
        /\ summary.total = NCases /\ summary.first = firstSuccess
        /\ summary.escalated = escalated /\ summary.final = finalSuccess
    BY DEF AddUpInv, BookInv, Waiting, One
  <2>2. (NCases + 1) - 1 = NCases /\ Cases = 1 .. NCases
    BY <2>0 DEF Cases
  <2>n. /\ Firsts \in Nat /\ Seconds \in Nat
        /\ FirstWins \in Nat /\ SecondWins \in Nat /\ Settled \in Nat
    BY <2>0, <2>1, CountsAreNumbers
  <2>3. /\ Firsts = NCases /\ Seconds = escalated /\ FirstWins = firstSuccess
        /\ Settled = finalSuccess /\ finalSuccess <= FirstWins + SecondWins
    BY <2>0, <2>1, <2>n DEF BookInv
  <2>4. SummaryAddsUp
    <3>1. {caseResults[i].case : i \in DOMAIN caseResults} = Cases
      <4>1. ASSUME NEW i \in DOMAIN caseResults PROVE caseResults[i].case \in Cases
        <5>1. caseResults[i] \in ResultRecord
          BY <2>0
        <5> QED BY <5>1 DEF ResultRecord
      <4>2. ASSUME NEW c \in Cases
            PROVE  \E i \in DOMAIN caseResults : caseResults[i].case = c
        BY <2>1, <2>2 DEF BookInv, LastsBefore, IsLastOf
      <4> QED BY <4>1, <4>2
    <3>2. /\ {i \in DOMAIN caseResults : First(i) /\ Succeeded(i)} =
               WinsOf(caseResults, FirstsOf(caseResults))
          /\ {i \in DOMAIN caseResults : ~First(i)} = SecondsOf(caseResults)
      BY DEF First, Succeeded, WinsOf, FirstsOf, SecondsOf
    <3>3. {c \in Cases : Succeeded(LastOf(c))} = SettledBefore(caseResults, case)
      <4>1. \A c : LastOf(c) = LastIn(caseResults, c)
        BY DEF LastOf, LastIn
      <4> QED BY <2>1, <2>2, <4>1 DEF Succeeded, SettledBefore
    <3> QED BY <2>1, <2>3, <3>1, <3>2, <3>3 DEF SummaryAddsUp, FirstWins, Seconds, Settled
  <2>5. SummariesAgree
    <3> SUFFICES ASSUME stage = "finished", FirstStage # EscalationModel,
                        {FirstStage, EscalationModel} \subseteq Selected
                 PROVE  LET first == modelSummaries[FirstStage]
                            second == modelSummaries[EscalationModel]
                        IN  /\ first.total = NCases
                            /\ first.successful = summary.first
                            /\ first.escalated = 0
                            /\ second.total = summary.escalated
                            /\ second.escalated = second.total
                            /\ summary.final <= first.successful + second.successful
                            /\ \A m \in Selected \ {FirstStage, EscalationModel} :
                                 modelSummaries[m].total = 0
      BY DEF SummariesAgree
    <3>1. \A m \in Selected : modelSummaries[m] = ModelSummary(m)
      BY DEF AddUpInv
    <3>2. \A i \in DOMAIN caseResults :
            /\ ~caseResults[i].escalated => caseResults[i].model = FirstStage
            /\ caseResults[i].escalated => caseResults[i].model = EscalationModel
      BY DEF EscalationIsTraceable, First
    <3>3. /\ ResultsOf(FirstStage) = FirstsOf(caseResults)
          /\ ResultsOf(EscalationModel) = SecondsOf(caseResults)
          /\ \A m \in Selected \ {FirstStage, EscalationModel} : ResultsOf(m) = {}
      BY <3>2 DEF ResultsOf, FirstsOf, SecondsOf
    <3>4. \A S : {i \in S : Succeeded(i)} = WinsOf(caseResults, S)
      BY DEF Succeeded, WinsOf
    <3>5. /\ {i \in FirstsOf(caseResults) : caseResults[i].escalated} = {}
          /\ {i \in SecondsOf(caseResults) : caseResults[i].escalated} =
               SecondsOf(caseResults)
      BY DEF FirstsOf, SecondsOf
    <3>6. ModelSummary(FirstStage) =
            [total |-> Firsts, successful |-> FirstWins, escalated |-> 0]
      BY <3>3, <3>4, <3>5, FS_EmptySet DEF ModelSummary, Firsts, FirstWins
    <3>7. ModelSummary(EscalationModel) =
            [total |-> Seconds, successful |-> SecondWins, escalated |-> Seconds]
      BY <3>3, <3>4, <3>5 DEF ModelSummary, Seconds, SecondWins
    <3>8. \A m \in Selected \ {FirstStage, EscalationModel} : ModelSummary(m).total = 0
      BY <3>3, FS_EmptySet DEF ModelSummary
    <3> QED BY <2>1, <2>3, <3>1, <3>6, <3>7, <3>8
  <2> QED BY <2>4, <2>5 DEF SummariesAddUp
<1> QED BY <1>1, <1>2, <1>3, TypeCorrect, ResultsAreTraceable, PTL DEF Spec

-----------------------------------------------------------------------------
CostsOf(results) == [i \in DOMAIN results |-> results[i].reply.cost]
SomeUnknown(results) == \E i \in DOMAIN results : results[i].reply.cost = Unknown

TotalOf(results) ==
  IF SomeUnknown(results) THEN Unknown ELSE RunningSum(CostsOf(results), Len(results))

(* add_optional_costs keeps the total: a sum of known costs is known, and   *)
(* is never mistaken for an unknown one.                                    *)
LEMMA CostStep ==
  ASSUME NEW results \in Seq(ResultRecord), NEW new \in ResultRecord,
         NEW longer, longer = Append(results, new)
  PROVE  AddCosts(TotalOf(results), new.reply.cost) = TotalOf(longer)
<1> DEFINE sum == RunningSum(CostsOf(results), Len(results))
           sumAfter == RunningSum(CostsOf(longer), Len(longer))
<1> DEFINE n == Len(results)
<1>1. /\ n \in Nat /\ DOMAIN results = 1 .. n /\ DOMAIN longer = 1 .. n + 1
      /\ Len(longer) = n + 1
      /\ \A i \in 1 .. n : longer[i] = results[i]
      /\ longer[n + 1] = new
  BY Appended
<1>2. \A i \in 1 .. n + 1 : i \in 1 .. n \/ i = n + 1
  BY <1>1
<1> DEFINE f == CostsOf(results)
<1> DEFINE g == CostsOf(longer)
<1>3. /\ \A i \in 1 .. n : f[i] = results[i].reply.cost /\ g[i] = f[i]
      /\ g[n + 1] = new.reply.cost
  BY <1>1 DEF CostsOf
<1>4. \A i \in 1 .. n : results[i].reply.cost \in Nat \cup {Unknown}
  <2> TAKE i \in 1 .. n
  <2>1. results[i].reply \in Replies[FirstStage] \cup Replies[EscalationModel]
    <3>1. results[i] \in ResultRecord
      BY <1>1
    <3> QED BY <3>1 DEF ResultRecord
  <2> QED BY <2>1, Constants
<1>5. new.reply.cost \in Nat \cup {Unknown}
  BY Constants DEF ResultRecord
<1> HIDE DEF n
<1>6. SomeUnknown(longer) <=> SomeUnknown(results) \/ new.reply.cost = Unknown
  BY <1>1, <1>2 DEF SomeUnknown
<1>7. CASE SomeUnknown(results)
  BY <1>6, <1>7 DEF AddCosts, TotalOf
<1>8. CASE ~SomeUnknown(results)
  <2>1. \A i \in 1 .. n : f[i] \in Nat
    BY <1>1, <1>3, <1>4, <1>8 DEF SomeUnknown
  <2> HIDE DEF f, g
  <2>2. sum \in Nat
    <3>1. RunningSum(f, n) \in Nat
      BY <1>1, <2>1, SumNat
    <3> QED BY <3>1 DEF f, n
  <2>3. sumAfter = sum + new.reply.cost
    <3>1. RunningSum(g, n + 1) = RunningSum(g, n) + g[n + 1]
      BY <1>1, SumOfMore
    <3>2. RunningSum(g, n) = RunningSum(f, n)
      BY <1>1, <1>3, SumOfSame
    <3>3. sumAfter = RunningSum(g, n + 1) /\ sum = RunningSum(f, n)
      BY <1>1 DEF f, g, n
    <3> QED BY <1>3, <3>1, <3>2, <3>3
  <2>4. TotalOf(results) = sum /\ sum # Unknown
    BY <1>8, <2>2 DEF Unknown, TotalOf
  <2>5. TotalOf(longer) = IF new.reply.cost = Unknown THEN Unknown ELSE sumAfter
    BY <1>6, <1>8 DEF TotalOf
  <2> QED BY <2>3, <2>4, <2>5 DEF AddCosts
<1> QED BY <1>7, <1>8

(* What the run is said to have cost is the sum of what its calls cost,     *)
(* failed first attempts included, and "unknown" exactly when a call's cost *)
(* is: add_optional_costs treats no unknown cost as zero.                   *)
THEOREM TheTotalIsHonest == Spec => []CostIsHonest
<1>1. Init => CostIsHonest
  <2> SUFFICES ASSUME Init PROVE CostIsHonest
    OBVIOUS
  <2>1. caseResults = << >> /\ totalCost = 0 /\ Len(caseResults) = 0
    BY DEF Init
  <2>2. SumOfCosts = 0
    BY <2>1, SumOfNone DEF SumOfCosts
  <2> QED BY <2>1, <2>2 DEF CostIsHonest
<1>2. CostIsHonest /\ TypeOK /\ InLoop /\ [Next]_vars => CostIsHonest'
  <2> SUFFICES ASSUME CostIsHonest, TypeOK, InLoop, [Next]_vars PROVE CostIsHonest'
    OBVIOUS
  <2>0. caseResults \in Seq(ResultRecord)
    BY DEF TypeOK, ResultRecord
  <2>1. ASSUME NEW m \in {FirstStage, EscalationModel}, NEW e \in BOOLEAN,
               NEW r \in Replies[m], case \in Cases,
               caseResults' = Append(caseResults, Result(case, m, r, e)),
               totalCost' = AddCosts(totalCost, r.cost)
        PROVE  CostIsHonest'
    <3> DEFINE new == Result(case, m, r, e)
               longer == caseResults'
    <3>1. new \in ResultRecord /\ new.reply = r
      BY <2>1, Constants DEF Result, ResultRecord
    <3>2. longer = Append(caseResults, new)
      BY <2>1
    <3> HIDE DEF new, longer
    <3>3. totalCost = TotalOf(caseResults)
      BY DEF CostIsHonest, SomeUnknown, SumOfCosts, CostsOf, TotalOf
    <3>4. AddCosts(TotalOf(caseResults), new.reply.cost) = TotalOf(longer)
      BY <2>0, <3>1, <3>2, CostStep
    <3>5. totalCost' = TotalOf(longer)
      BY <2>1, <3>1, <3>3, <3>4
    <3> QED BY <3>5 DEF CostIsHonest, SomeUnknown, SumOfCosts, CostsOf, TotalOf, longer
  <2>2. CASE CallFirst
    BY <2>1, <2>2 DEF CallFirst, InLoop
  <2>3. CASE CallSecond
    BY <2>1, <2>3 DEF CallSecond, InLoop
  <2>4. CASE \/ BuildProviders \/ BuildRefused \/ CallRaised \/ CloseFirst
             \/ CloseSecond \/ CloseRaised \/ Finalize \/ Ended \/ UNCHANGED vars
    <3>1. UNCHANGED <<caseResults, totalCost>>
      BY <2>4 DEF BuildProviders, BuildRefused, CallRaised, CloseFirst, CloseSecond,
                  CloseRaised, Finalize, Ended, vars, counters
    <3> QED BY <3>1 DEF CostIsHonest, SumOfCosts
  <2> QED BY <2>2, <2>3, <2>4 DEF Next
<1> QED BY <1>1, <1>2, TypeCorrect, PTL DEF Spec
=============================================================================
