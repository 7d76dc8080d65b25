----------------------------- MODULE Evaluation -----------------------------
(***************************************************************************)
(* How an answer is graded: the evaluators (evaluators/), which run one    *)
(* after the other over one shared, lazily parsed context, and the status  *)
(* and quality of a case (execution/runner.py, results.py).  An answer is  *)
(* what the evaluators can see of it; its text is the phrases in it.       *)
(***************************************************************************)
EXTENDS Integers, Sequences, FiniteSets, SequencesExt, Sums

CONSTANTS
  Fields,          \* the fields of expected and answered objects
  BenchmarkCases,  \* benchmark cases
  ModelAnswers,    \* what a model can answer
  Rubrics          \* the sequences of evaluator specifications of a suite

(* The registered evaluators, and what a suite and a case give them: lists  *)
(* whose order and repetitions do not matter are sets.                     *)
EvaluatorNames ==
  {"exact_match", "contains", "forbidden_content", "regex", "json_parse",
   "json_schema", "field_match", "tool_selection", "policy_compliance",
   "citation", "latency", "cost", "rubric"}
IsSpec(spec) ==
  /\ DOMAIN spec = {"name", "weight", "keywords", "threshold", "ordered", "max",
                    "pattern", "banned", "allowed"}
  /\ spec.name \in EvaluatorNames
  /\ {spec.weight, spec.threshold} \subseteq Int
  /\ IsFiniteSet(spec.keywords)
IsCase(c) ==
  /\ IsList(c.tools)
  /\ \A set \in {c.required, c.forbidden, c.forbiddenTools, c.citations} :
       IsFiniteSet(set)

NotSet == -1
Absent == [type |-> "absent", value |-> 0]

VARIABLES
  case,         \* the case that is executed
  answer,       \* the response to it
  specs,        \* its effective evaluators
  context,      \* EvalContext: whether a parse was attempted, and its result
  evaluations,  \* the results so far
  result        \* the status and the parsed output, once they are known

vars == <<case, answer, specs, context, evaluations, result>>

-----------------------------------------------------------------------------
(* json.loads: None for a text that is no JSON, and for null.              *)
NotParsed == [kind |-> "none", fields |-> [k \in Fields |-> Absent]]
Parsed(a) ==
  IF a.json \in {"invalid", "null"} THEN NotParsed
  ELSE [kind |-> a.json, fields |-> a.fields]

(* The context after ensure_parsed.                                        *)
EnsureParsed(c, a) ==
  IF c.attempted THEN c ELSE [attempted |-> TRUE, parsed |-> Parsed(a)]

(* resolve_evaluator: forbidden_content is another name.                   *)
NameOf(spec) == IF spec.name = "forbidden_content" THEN "contains" ELSE spec.name

Graded(spec, passed, num, den) ==
  [evaluator |-> NameOf(spec), weight |-> spec.weight, num |-> num, den |-> den,
   status |-> IF passed THEN "pass" ELSE "fail"]
Verdict(spec, passed) == Graded(spec, passed, IF passed THEN 1 ELSE 0, 1)
Skip(spec) == [Graded(spec, TRUE, 1, 1) EXCEPT !.status = "skipped"]

-----------------------------------------------------------------------------
(* Each evaluator: a specification, a case, an answer and what was parsed. *)
ExactMatch(spec, c, a) ==
  IF c.text = NotSet THEN Skip(spec) ELSE Verdict(spec, a.text = c.text)

(* forbidden_content is contains without the required phrases.             *)
ContainsPhrases(spec, c, a) ==
  LET required == IF spec.name = "forbidden_content" THEN {} ELSE c.required
      missing == required \ a.says
      present == c.forbidden \cap a.says
      checks == Cardinality(required) + Cardinality(c.forbidden)
  IN  IF checks = 0 THEN Skip(spec)
      ELSE Graded(spec, missing = {} /\ present = {},
                  checks - Cardinality(missing) - Cardinality(present), checks)

Regex(spec, a) ==
  IF spec.pattern = {} /\ spec.banned = {} THEN Skip(spec)
  ELSE Verdict(spec, /\ spec.pattern \subseteq a.says
                     /\ spec.banned \cap a.says = {})

JsonParse(spec, parsed) == Verdict(spec, parsed.kind # "none")

(* _matches: True equals 1, numbers and normalized strings have a slack,   *)
(* and a field that is not there is None.                                  *)
Matches(expected, actual) ==
  \/ expected = actual
  \/ /\ {expected.type, actual.type} = {"boolean", "integer"}
     /\ expected.value = actual.value
  \/ {expected.type, actual.type} = {"null", "absent"}

FieldMatch(spec, c, parsed) ==
  LET fields == {k \in Fields : c.expected[k] # Absent}
      matched == {k \in fields : Matches(c.expected[k], parsed.fields[k])}
  IN  IF fields = {} THEN Skip(spec)
      ELSE IF parsed.kind # "object" THEN Verdict(spec, FALSE)
      ELSE Graded(spec, matched = fields,
                  Cardinality(matched), Cardinality(fields))

(* The schema of the case, or one derived from its expected object: every  *)
(* key is required, with its type; a null can be anything.                 *)
Conforms(expected, actual) ==
  actual # Absent /\ (expected.type = "null" \/ expected.type = actual.type)
JsonSchema(spec, c, parsed) ==
  LET schema == IF c.schema.given THEN c.schema.fields ELSE c.expected
      required == {k \in Fields : schema[k] # Absent}
  IN  IF ~c.schema.given /\ ~c.expects THEN Skip(spec)
      ELSE Verdict(spec, /\ parsed.kind = "object"
                         /\ \A k \in required :
                              Conforms(schema[k], parsed.fields[k]))

ToolSelection(spec, c, a) ==
  LET called == ToSet(a.tools)
      missing == {i \in DOMAIN c.tools : c.tools[i] \notin called}
      present == c.forbiddenTools \cap called
      inOrder == SelectSeq(a.tools, LAMBDA t : t \in ToSet(c.tools)) = c.tools
      checks == Len(c.tools) + Cardinality(c.forbiddenTools)
  IN  IF checks = 0 THEN Skip(spec)
      ELSE Graded(spec,
                  /\ missing = {} /\ present = {}
                  /\ spec.ordered /\ c.tools # << >> => inOrder,
                  checks - Cardinality(missing) - Cardinality(present), checks)

(* No policy event is ever recorded: the context is made without any.      *)
Recorded == {}
PolicyCompliance(spec, c, a) ==
  LET called == ToSet(a.tools)
      p == c.policy
  IN  IF ~p.given THEN Skip(spec)
      ELSE Verdict(spec,
             /\ p.forbidden \cap (called \cup a.says) = {}
             /\ p.refusal => "refusal" \in a.says
             /\ p.approval => \/ "approval" \in a.says \cup Recorded
                              \/ "escalate" \in called
             /\ p.events \subseteq Recorded)

AtLeastOne(n) == IF n = 0 THEN 1 ELSE n

Citation(spec, c, a) ==
  LET allowed == IF spec.allowed = {} THEN c.citations ELSE spec.allowed
      missing == c.citations \ a.cites
      grounded == a.cites \subseteq allowed
      checks == AtLeastOne(Cardinality(c.citations))
  IN  IF c.citations = {} /\ spec.allowed = {} THEN Skip(spec)
      ELSE Graded(spec, missing = {} /\ grounded,
                  IF grounded THEN checks - Cardinality(missing) ELSE 0, checks)

(* latency and cost: a budget, and a cost that may not be known.           *)
Budget(spec, spent) ==
  IF spec.max = NotSet \/ spent = NotSet THEN Skip(spec)
  ELSE Verdict(spec, spent <= spec.max)
Latency(spec, c, a) ==
  Budget([spec EXCEPT !.max = IF @ = NotSet THEN c.timeout ELSE @], a.latency)

(* Without keywords the mode is judge, which is not there.                 *)
Rubric(spec, a) ==
  LET hits == Cardinality(spec.keywords \cap a.says)
      all == Cardinality(spec.keywords)
  IN  IF all = 0 THEN Skip(spec)
      ELSE Graded(spec, 100 * hits >= spec.threshold * all, hits, all)

(* resolve_evaluator and evaluate.                                         *)
Evaluate(spec, c, a, parsed) ==
  CASE spec.name = "exact_match" -> ExactMatch(spec, c, a)
    [] spec.name \in {"contains", "forbidden_content"} -> ContainsPhrases(spec, c, a)
    [] spec.name = "regex" -> Regex(spec, a)
    [] spec.name = "json_parse" -> JsonParse(spec, parsed)
    [] spec.name = "json_schema" -> JsonSchema(spec, c, parsed)
    [] spec.name = "field_match" -> FieldMatch(spec, c, parsed)
    [] spec.name = "tool_selection" -> ToolSelection(spec, c, a)
    [] spec.name = "policy_compliance" -> PolicyCompliance(spec, c, a)
    [] spec.name = "citation" -> Citation(spec, c, a)
    [] spec.name = "latency" -> Latency(spec, c, a)
    [] spec.name = "cost" -> Budget(spec, a.cost)
    [] spec.name = "rubric" -> Rubric(spec, a)

(* The evaluators that parse; json_schema and field_match do once they     *)
(* have something to compare with. Mutant: only json_parse parses.         *)
OnlyJsonParse(spec, c) == spec.name = "json_parse"
Parses(spec, c) ==
  \/ spec.name = "json_parse"
  \/ spec.name = "json_schema" /\ (c.schema.given \/ c.expects)
  \/ spec.name = "field_match" /\ \E k \in Fields : c.expected[k] # Absent

-----------------------------------------------------------------------------
(* status and quality_score.                                               *)
NotSkipped(results) ==
  Only(results, {i \in DOMAIN results : results[i].status # "skipped"},
       Len(results))
StatusOf(results) ==
  IF \A i \in DOMAIN results : results[i].status # "fail"
  THEN "success" ELSE "failed"

Unit == 60   \* scores as 60ths: every number of checks up to 6 divides it
WeightedSum(scored) ==
  RunningSum([i \in DOMAIN scored |->
                scored[i].weight * ((Unit * scored[i].num) \div scored[i].den)],
             Len(scored))
TotalWeight(scored) ==
  RunningSum([i \in DOMAIN scored |-> scored[i].weight], Len(scored))
QualityOf(results) ==
  LET scored == NotSkipped(results)
  IN  IF scored = << >>
      THEN [num |-> IF StatusOf(results) = "success" THEN Unit ELSE 0, den |-> Unit]
      ELSE [num |-> WeightedSum(scored),
            den |-> Unit * (IF TotalWeight(scored) = 0 THEN 1
                            ELSE TotalWeight(scored))]

Unfinished == [status |-> "none", parsed |-> NotParsed]
Fresh == [attempted |-> FALSE, parsed |-> NotParsed]

Init ==
  /\ case \in BenchmarkCases
  /\ answer \in ModelAnswers
  /\ specs \in Rubrics
  /\ context = Fresh
  /\ evaluations = << >>
  /\ result = Unfinished

Grade ==
  /\ Len(evaluations) < Len(specs)
  /\ LET spec == specs[Len(evaluations) + 1]
         after == IF Parses(spec, case) THEN EnsureParsed(context, answer)
                  ELSE context
     IN  /\ context' = after
         /\ evaluations' =
              Append(evaluations, Evaluate(spec, case, answer, after.parsed))
  /\ UNCHANGED <<case, answer, specs, result>>

Finish ==
  /\ Len(evaluations) = Len(specs) /\ result = Unfinished
  /\ result' = [status |-> StatusOf(evaluations), parsed |-> context.parsed]
  /\ UNCHANGED <<case, answer, specs, context, evaluations>>

Next == Grade \/ Finish

Spec == Init /\ [][Next]_vars

-----------------------------------------------------------------------------
Finished == result # Unfinished

(* "Ordering is not fragile": whatever ran before it, an evaluator says    *)
(* what it says of a context of its own, and the parsed output, which the  *)
(* valid JSON rate counts, is there exactly when one of them needed it.    *)
OrderIsNotFragile ==
  /\ \A i \in DOMAIN evaluations :
       evaluations[i] = Evaluate(specs[i], case, answer, Parsed(answer))
  /\ Finished =>
       LET needed == \E i \in DOMAIN specs : Parses(specs[i], case)
       IN  result.parsed = IF needed THEN Parsed(answer) ELSE NotParsed

(* A failed case is not hidden behind a full score, nor a success behind a *)
(* poor one: but for weights of 0, the order of tools, which has no score, *)
(* and the threshold of a rubric, which can be more than all of it.        *)
ScoresFollowVerdicts ==
  Finished /\ (\A i \in DOMAIN specs : specs[i].weight > 0) =>
    LET quality == QualityOf(evaluations)
    IN  /\ result.status = "failed" /\ quality.num = quality.den =>
             \E i \in DOMAIN specs :
               \/ specs[i].name = "tool_selection" /\ specs[i].ordered
               \/ specs[i].name = "rubric" /\ specs[i].threshold > 100
        /\ result.status = "success" /\ quality.num < quality.den =>
             \E i \in DOMAIN specs : specs[i].name = "rubric"
=============================================================================
