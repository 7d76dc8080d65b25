----------------------------- MODULE MCCommands -----------------------------
(* Instances of Commands for TLC.                                          *)
EXTENDS Commands

-----------------------------------------------------------------------------
(* The suites of a user, and the options of the command line.              *)
a == <<"a">>
b == <<"b">>
ab == <<"a", "b">>
x == <<"x">>
bx == <<"b", "x">>

Model(alias, kind, endpoint, fixture) ==
  [alias |-> alias, kind |-> kind, endpoint |-> endpoint, fixture |-> fixture,
   copied |-> FALSE]
Fixed(alias, fixture) == Model(alias, "deterministic", "none", fixture)
At(alias, kind, endpoint) == Model(alias, kind, endpoint, NoName)
Of(models) == [NoSuite EXCEPT !.models = models, !.cases = 2]

Compared == Of(<<Fixed(a, x), Fixed(b, x)>>)
Replaced(candidate) ==
  [Compared EXCEPT !.everyCallMustSucceed = TRUE,
                   !.replacement = {[baseline |-> a, candidates |-> {candidate}]}]
Cascaded(second) ==
  [Of(<<Fixed(a, bx), Fixed(b, NoName),
        At(ab, "openai_compatible", "external")>>) EXCEPT
     !.cascade = {[first |-> a, second |-> second, escalates |-> {"failed"}]}]
Remote(allowed) ==
  [Of(<<Fixed(a, NoName), At(b, "openai_compatible", "external")>>) EXCEPT
     !.allowHosted = allowed, !.mode = "cascade", !.baseline = b]
Escalated ==
  [Of(<<Fixed(a, bx), At(b, "ollama", "none")>>) EXCEPT
     !.cascade = {[first |-> a, second |-> b, escalates |-> {"failed"}]}]
Alone(kind, endpoint) == Of(<<At(a, kind, endpoint)>>)
Colliding == Of(<<Fixed(a, bx), Fixed(ab, x)>>)

MCSuites ==
  {Replaced(b), Replaced(ab), Cascaded(b), Cascaded(<<"c">>), Escalated,
   Remote(TRUE), Remote(FALSE), Alone("openai_compatible", "none"),
   [Alone("hosted", "none") EXCEPT !.allowHosted = TRUE],
   Alone("ollama", "external"), [Compared EXCEPT !.repetitions = 0]}
(* Two models whose fixtures get one name when they are copied. *)
OnlyColliding == {Colliding}
(* A model that Ollama serves on another machine. *)
OnlyRemoteOllama == {Alone("ollama", "external")}
MCFixtures == {x, bx}
MCVersions == {"good", "bad", "erring", "bad_case", "ungradable", "not_a_mapping",
               "not_YAML"}

Options(only, repetitions, concurrency, allowHosted, dry) ==
  [only : only, repetitions : repetitions, concurrency : concurrency,
   allowHosted : allowHosted, dry : dry]
MCInvocations ==
  Options({NoName, a}, {{}}, {{}}, BOOLEAN, BOOLEAN)
  \cup Options({<<"c">>}, {{}}, {{}}, {TRUE}, {FALSE})
  \cup Options({NoName}, {{2}, {0}}, {{4}}, {TRUE}, {FALSE})
Plain == Options({NoName}, {{}}, {{}}, {FALSE}, {FALSE})

-----------------------------------------------------------------------------
(* A dataset with a hard and a symbolic link to it, a file of traces, and  *)
(* the outputs, two of which are one file.                                 *)
MCPaths == {"data", "hard", "soft", "train", "rest", "alias", "notes", "traces"}
MCResolved == [p \in MCPaths |-> IF p = "soft" THEN "data" ELSE p]
MCFileOf ==
  [p \in MCPaths |-> CASE p \in {"hard", "soft"} -> "data"
                       [] p = "alias" -> "rest"
                       [] OTHER -> p]
MCSuffix == [p \in MCPaths |-> IF p = "train" THEN "jsonl"
                               ELSE IF p = "notes" THEN "txt" ELSE "json"]
MCRank == [c \in CaseIds |-> (3 * c) % 7]

FileWith(kind, cases, idRoom, nameRoom) ==
  [kind |-> kind, cases |-> cases, idRoom |-> idRoom, nameRoom |-> nameRoom,
   redacted |-> FALSE]
MCOriginalFiles ==
  [f \in {"data", "train", "rest", "notes", "traces"} |->
     CASE f = "data" -> FileWith("dataset", {1, 2, 3, 4}, 13, 40)
       [] f = "rest" -> FileWith("dataset", {1}, 100, 12)
       [] f = "traces" -> FileWith("traces", {}, 0, 0)
       [] OTHER -> FileWith("absent", {}, 0, 0)]

Command(verb, input, outputs, percent) ==
  [verb |-> verb, input |-> input, outputs |-> outputs, percent |-> percent]
Splits(inputs, firsts, seconds, percents) ==
  {Command("split", i, <<t, e>>, n) :
     i \in inputs, t \in firsts, e \in seconds, n \in percents}

MCFileCommands ==
  {Command("create", p, << >>, 0) : p \in {"notes", "train"}}
  \cup Splits({"data"}, {"train"}, {"rest", "train"}, {50, 80})
  \cup Splits({"data"}, {"train", "hard", "soft"}, {"notes", "hard"}, {50})
  \cup Splits({"train", "rest", "soft"}, {"train", "notes"}, {"data"}, {10})
  \cup Splits({"data"}, {"train"}, {"rest"}, {100})
  \cup {Command("redact", i, <<o>>, 0) : i \in {"data", "train"},
                                   o \in {"hard", "soft", "train", "notes"}}
  \cup {Command("derive", i, <<o>>, 0) : i \in {"traces", "data"},
                                   o \in {"notes", "traces"}}
  \cup {Command("derive", "traces", <<"notes", "rest">>, 0)}

-----------------------------------------------------------------------------
(* Two models, one with two providers.                                     *)
A1 == <<"a", "p1">>
A2 == <<"a", "p2">>
B1 == <<"b", "p1">>
MCKeys == {A1, A2, B1}
MCPrices == {1, 2, -1}
MCMeasured == [k \in MCKeys |-> IF k = A1 THEN 3 ELSE 4]

(* One model is listed twice, as a user can by hand. *)
MCOriginalPrices ==
  <<[key |-> A1, price |-> 3, measured |-> TRUE],
    [key |-> B1, price |-> 0, measured |-> FALSE],
    [key |-> B1, price |-> 4, measured |-> TRUE]>>

-----------------------------------------------------------------------------
(* Cases with and without each expectation, answers that meet them or not, *)
(* and suites of two evaluators, or of three of those that parse, in every *)
(* order.                                                                  *)
Text(v) == [type |-> "string", value |-> v]
Int1 == [type |-> "integer", value |-> 1]
Null == [type |-> "null", value |-> 0]
NoField == [type |-> "absent", value |-> 0]
Unset == -1
Object(id, flag) == [k \in Fields |-> IF k = "id" THEN id ELSE flag]
NoFields == Object(NoField, NoField)

NoPolicy == [given |-> FALSE, forbidden |-> {}, refusal |-> FALSE,
             approval |-> FALSE, events |-> {}]
Bare ==
  [text |-> Unset, expects |-> FALSE, expected |-> NoFields,
   schema |-> [given |-> FALSE, fields |-> NoFields],
   required |-> {}, forbidden |-> {}, tools |-> << >>, forbiddenTools |-> {},
   citations |-> {}, policy |-> NoPolicy, timeout |-> Unset]
Structured ==
  [Bare EXCEPT !.expects = TRUE, !.expected = Object(Text(1), Int1),
               !.tools = <<"lookup", "escalate">>, !.required = {"ticket"},
               !.policy = [NoPolicy EXCEPT !.given = TRUE, !.approval = TRUE]]
Guarded ==
  [Bare EXCEPT !.expects = TRUE, !.expected = Object(Text(1), Null),
               !.schema = [given |-> TRUE, fields |-> Object(Text(1), NoField)],
               !.forbiddenTools = {"delete"}, !.forbidden = {"secret"},
               !.required = {"refusal"}, !.text = 1,
               !.policy = [NoPolicy EXCEPT !.given = TRUE, !.refusal = TRUE,
                                           !.forbidden = {"delete", "secret"}]]
Cited == [Bare EXCEPT !.citations = {"s1", "s2"}, !.text = 2,
                    !.timeout = 5]
MCBenchmarkCases == {Bare, Structured, Guarded, Cited}

Silent ==
  [json |-> "invalid", fields |-> NoFields, text |-> 0, says |-> {},
   tools |-> << >>, cites |-> {}, latency |-> 1, cost |-> 1]
MCModelAnswers ==
  {Silent,
   [Silent EXCEPT !.json = "null"],
   [Silent EXCEPT !.json = "other", !.cost = Unset, !.latency = 9],
   [Silent EXCEPT !.json = "object", !.fields = Object(Text(1), Int1),
                  !.says = {"ticket"}, !.tools = <<"escalate", "lookup">>,
                  !.cites = {"s1"}],
   [Silent EXCEPT !.json = "object", !.text = 1, !.cost = 5,
                  !.fields = Object(Text(1), [type |-> "boolean", value |-> 1]),
                  !.says = {"refusal", "secret"},
                  !.tools = <<"lookup", "escalate", "delete">>,
                  !.cites = {"s1", "s2"}],
   [Silent EXCEPT !.json = "object", !.fields = Object(Text(2), NoField),
                  !.cites = {"s3"}, !.says = {"refusal", "approval"}]}

Named(name) ==
  [name |-> name, weight |-> 1, keywords |-> {}, threshold |-> 50,
   ordered |-> FALSE, max |-> Unset, pattern |-> {}, banned |-> {},
   allowed |-> {}]
MCSpecs ==
  {Named(n) : n \in {"exact_match", "contains", "forbidden_content", "json_parse",
                     "json_schema", "field_match", "policy_compliance"}}
  \cup {[Named("tool_selection") EXCEPT !.ordered = TRUE, !.weight = 2],
        Named("tool_selection"),
        [Named("regex") EXCEPT !.pattern = {"ticket"}, !.banned = {"secret"}],
        [Named("citation") EXCEPT !.allowed = {"s1", "s2"}],
        [Named("latency") EXCEPT !.max = 9], Named("latency"), [Named("cost") EXCEPT !.max = 2],
        [Named("rubric") EXCEPT !.keywords = {"ticket", "refusal"}],
        Named("rubric")}

Sequences(set, n) == {s \in [1 .. n -> set] : Cardinality(ToSet(s)) = n}
Parsing ==
  {d \in MCSpecs : d.name \in {"json_parse", "json_schema", "field_match",
                               "tool_selection", "policy_compliance"}}
Pairs == UNION {Sequences(MCSpecs, n) : n \in 0 .. 2}
MCRubrics == Pairs \cup Sequences(Parsing, 3)
=============================================================================
