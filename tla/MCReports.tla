----------------------------- MODULE MCReports -----------------------------
(* Instances of Evidence for TLC.                                           *)
EXTENDS Evidence

-----------------------------------------------------------------------------
(* Options and inputs of the three report commands.                         *)

K(n) == Exactly(n)

(* The input has a second name, and so has a file that is already there.    *)
MCFileOf ==
  [in |-> "data", link |-> "data", new |-> "new", extra |-> "extra",
   old |-> "kept", alias |-> "kept"]
MCExisting == {"data", "kept"}

To(output, json, aimeter, log) ==
  [output |-> output, json |-> json, aimeter |-> aimeter, audit |-> log]
Options(profiles, chaining, destinations) ==
  [profile : profiles, chained : chaining, destination : destinations]

MCInvocations ==
  Options(RiskProfiles \cup {"unlisted"}, {TRUE},
          {To("new", Nowhere, Nowhere, Nowhere)})
  \cup Options({"low"}, {TRUE},
         {To("new", Nowhere, "extra", "alias"), To("old", "alias", Nowhere, "new"),
          To("new", "extra", Nowhere, "link"), To("in", Nowhere, Nowhere, Nowhere)})
  \cup Options({"low"}, BOOLEAN, {To("new", "old", Nowhere, "extra")})
  \cup Options({"none"}, {TRUE}, {To("new", Nowhere, Nowhere, Nowhere),
                                  To(Nowhere, Nowhere, Nowhere, Nowhere)})

-----------------------------------------------------------------------------
(* Plans of a task that differs from a good one in at most two respects, or *)
(* of two tasks that differ in one respect from each other, and the first   *)
(* in one from a good one, or in two when it failed or violates policy.     *)
Good ==
  [id |-> "a", valid |-> TRUE, risk |-> "low", terms |-> {}, failed |-> FALSE,
   baseline |-> [score |-> K(100), latency |-> K(10), cost |-> K(10)],
   candidate |-> [score |-> K(95), latency |-> K(12), cost |-> K(5)],
   policy |-> K(100), sample |-> 20, review |-> FALSE]

Changed(t) ==
  {t} \cup {[t EXCEPT !.risk = r] : r \in RiskLevels \ {"low"}}
  \cup {[t EXCEPT !.terms = {x}] : x \in Terms}
  \cup {[t EXCEPT !.failed = TRUE], [t EXCEPT !.review = TRUE],
        [t EXCEPT !.sample = 5]}
  \cup {[t EXCEPT !.policy = v] : v \in {Unknown, K(50)}}
  \cup {[t EXCEPT !.candidate.score = v] : v \in {Unknown, K(70), K(85)}}
  \cup {[t EXCEPT !.candidate.latency = v] : v \in {Unknown, K(4), K(20)}}
  \cup {[t EXCEPT !.candidate.cost = v] : v \in {Unknown, K(9), K(12)}}
  \cup {[t EXCEPT !.baseline.score = K(0)], [t EXCEPT !.baseline.cost = K(0)]}

Once == Changed(Good)
Twice == UNION {Changed(t) : t \in Once}

MCTaskFiles ==
  {<< >>, <<[Good EXCEPT !.valid = FALSE]>>, <<Good, Good>>}
  \cup {<<t>> : t \in Twice}
  \cup UNION {{<<t, [u EXCEPT !.id = "b"]>> : u \in Changed(t)} :
              t \in Once \cup {t \in Twice : t.failed \/ t.policy # K(100)}}

-----------------------------------------------------------------------------
(* Up to four rows per model, in one order: rows are only added up.         *)
R(model, failed, score, latency, cost) ==
  [model |-> model, failed |-> failed, score |-> score, latency |-> latency,
   cost |-> cost]
B(score, latency, cost) == R("baseline", FALSE, score, latency, cost)
C(failed, score, latency, cost) == R("candidate", failed, score, latency, cost)

BaselineRows ==
  LET good == B(K(10), K(10), K(10))
  IN  {<<good, good>>, <<good, good, good>>,
       <<good, good, B(K(8), K(12), Unknown)>>,
       <<good, good, B(K(10), Unknown, K(0))>>}

CandidateRow ==
  <<C(FALSE, K(9), K(10), K(4)), C(FALSE, K(7), K(4), K(6)),
    C(TRUE, K(3), K(10), K(4)), C(FALSE, K(10), K(30), K(8)),
    C(FALSE, K(9), K(10), Unknown), C(FALSE, Unknown, Unknown, K(2)),
    FailedRow>>

(* The multisets of one to four of them. *)
CandidateRows ==
  LET kinds == {s \in UNION {[1 .. n -> DOMAIN CandidateRow] : n \in 1 .. 4} :
                  \A i \in DOMAIN s, j \in DOMAIN s : i < j => s[i] <= s[j]}
  IN  {[i \in DOMAIN s |-> CandidateRow[s[i]]] : s \in kinds}

File(kind, rows) == [kind |-> kind, rows |-> rows]

MCExitFiles ==
  {File("unreadable", << >>), File("not_a_summary", << >>),
   File("rows", <<R("none", FALSE, K(1), K(1), K(1))>>),
   File("rows", <<B(K(1), K(1), K(1))>>)}
  \cup {File("rows", b \o c) : b \in BaselineRows, c \in CandidateRows}
  \cup {f \in {File("run", b \o c) : b \in BaselineRows, c \in CandidateRows} :
          \A i \in DOMAIN f.rows : RunRow(f.rows[i])}

-----------------------------------------------------------------------------
(* Gates on artifacts that differ from good ones in a few metrics, under    *)
(* thresholds of every kind.                                                *)
Mins == {"quality", "success_rate", "policy_pass_rate"}
Maxs == {"p95_latency_ms", "estimated_cost_usd", "error_rate"}

GoodMetrics ==
  [quality |-> K(80), success_rate |-> K(90), policy_pass_rate |-> K(100),
   p95_latency_ms |-> K(10), estimated_cost_usd |-> K(10), error_rate |-> K(2)]

WorseMetrics(metrics) ==
  {[metrics EXCEPT ![m] = v] : m \in Mins, v \in {Unknown, K(50), K(100)}}
  \cup {[metrics EXCEPT ![m] = v] : m \in Maxs, v \in {Unknown, K(0), K(30)}}

Case(risk, quality, success) ==
  [risk |-> risk,
   fields |-> [f \in CaseFields |-> CASE f = "quality" -> quality
                                      [] f = "success" -> success
                                      [] OTHER -> Unknown]]

MCCases ==
  {<< >>, <<Case("high", K(90), K(100))>>,
   <<Case("high", K(40), K(100)), Case("low", K(90), Unknown)>>,
   <<Case("high", Unknown, K(0)), Case("high", K(80), K(100))>>}

An(metrics, cases, sample) ==
  [valid |-> TRUE, dataset |-> "d", sample |-> sample, metrics |-> metrics,
   cases |-> cases]

NoMinimum == [m \in Mins |-> NotSet]
NoMaximum == [m \in Maxs |-> NotSet]
Default ==
  [sample |-> 20, minimum |-> NoMinimum, maximum |-> NoMaximum,
   drop |-> [m \in {"quality", "success_rate"} |-> 5],
   increase |-> NotSet, reduction |-> NotSet,
   risk |-> [r \in {"low", "high"} |-> << >>]]

MCThresholds ==
  {Default,
   [Default EXCEPT !.minimum = [m \in Mins |-> 70]],
   [Default EXCEPT !.maximum = [m \in Maxs |-> 20]],
   [Default EXCEPT !.drop["quality"] = NotSet, !.increase = 20, !.reduction = 10],
   [Default EXCEPT !.risk["high"] =
      [f \in CaseFields |-> IF f \in {"quality", "success"} THEN 60 ELSE NotSet]]}

Gates(baselines, candidates) ==
  [same : {FALSE}, baseline : baselines, candidate : candidates,
   thresholds : MCThresholds]

MCGateFiles ==
  LET base == An(GoodMetrics, << >>, 20)
  IN  Gates({An(m, << >>, 20) : m \in WorseMetrics(GoodMetrics)},
            {An(m, << >>, n) : m \in WorseMetrics(GoodMetrics), n \in {5, 20}})
      \cup Gates({base}, {An(m, c, 20) : m \in WorseMetrics(GoodMetrics), c \in MCCases})
      \cup Gates({base}, {[base EXCEPT !.dataset = "e"], [base EXCEPT !.valid = FALSE]})
      \cup {[same |-> TRUE, baseline |-> base, candidate |-> base,
             thresholds |-> Default]}

-----------------------------------------------------------------------------
(* Rows of a hosted and a local model, named in the ways a row can name     *)
(* them.                                                                    *)
MCNames == {"unknown", "local", "qwen", "Qwen", "3b", "gpt"}
MCLower == [n \in MCNames |-> IF n = "Qwen" THEN "qwen" ELSE n]

NoText == << >>
ResultRow(provider, model, label, failed) ==
  [provider |-> provider, model |-> model, label |-> label, keyed |-> TRUE,
   failed |-> failed]

MCRows ==
  {ResultRow(<<"local">>, <<"qwen">>, <<"3b", "gpt">>, FALSE),
   ResultRow(<<"local">>, <<"qwen", "3b">>, <<"gpt">>, TRUE),
   ResultRow(<<"local">>, <<"qwen">>, NoText, TRUE),
   ResultRow(<<"local">>, <<"Qwen">>, NoText, FALSE),
   ResultRow(<<"local">>, NoText, <<"qwen">>, FALSE),
   ResultRow(<<"unknown">>, <<"gpt">>, <<"gpt">>, FALSE),
   ResultRow(<<"unknown">>, <<"gpt">>, <<"local", "qwen">>, TRUE),
   ResultRow(NoText, <<"gpt">>, NoText, FALSE),
   [ResultRow(NoText, <<"gpt">>, NoText, FALSE)
      EXCEPT !.keyed = FALSE]}

MCReferences == {<<"local", "qwen">>, <<"Qwen">>, <<"gpt">>}

-----------------------------------------------------------------------------
(* Labels of a success and of failures.                                     *)
HumanLabel(label, success, cost) ==
  [label |-> label, success |-> success, cost |-> cost]
MCRecords ==
  {HumanLabel("accepted", "yes", 2), HumanLabel("corrected", "yes", 5),
   HumanLabel("customer_reopened", "no", 1)}
MCMaxRecords == [side \in {"baseline", "candidate"} |-> 2]

-----------------------------------------------------------------------------
(* Steps that differ where the evaluation tells them apart.                 *)
Plain(kind) ==
  [kind |-> kind, tool |-> "", content |-> "", succeeded |-> "unknown",
   error |-> FALSE, timeout |-> FALSE, policy |-> "none", cost |-> 1]

MCSteps ==
  {[Plain("tool_call") EXCEPT !.tool = "lookup", !.policy = "pass"],
   [Plain("tool_call") EXCEPT !.tool = "update", !.timeout = TRUE],
   [Plain("tool_result") EXCEPT !.succeeded = "no"],
   [Plain("tool_result") EXCEPT !.succeeded = "yes", !.policy = "fail"],
   [Plain("model_response") EXCEPT !.error = TRUE, !.timeout = TRUE],
   [Plain("model_response") EXCEPT !.cost = -1],
   Plain("human_review"),
   Plain("final_answer")}
MCExpectations == {<<"lookup", "update">>}
=============================================================================
