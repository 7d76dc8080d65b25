----------------------------- MODULE RunCommand -----------------------------
(***************************************************************************)
(* What a user reaches with `validate`, `run` (with its overrides, --model,*)
(* --dry-run and --allow-hosted) and `reproduce`: the checks a suite file  *)
(* passes (config/), which providers are built, which calls are made and   *)
(* how the command ends (cli/commands.py), and the snapshot a run leaves   *)
(* behind (storage/repository.py).                                         *)
(*                                                                         *)
(* One command runs at a time: what several processes do to the repository *)
(* is the subject of RunStore, and what the calls of one model do to each  *)
(* other is the subject of Runner; here the calls of a model are one step. *)
(* Between commands the user edits fixture files and servers go up or down.*)
(***************************************************************************)
EXTENDS Integers, FiniteSets, SequencesExt, Sums

CONSTANTS
  Suites,       \* what a suite file may contain
  Invocations,  \* the option records `run` is called with
  Fixtures,     \* names of the fixture files beside the suites
  Versions,     \* what such a file may contain
  Ungradable,   \* answers on which an evaluator of the suite raises
  MaxCommands,  \* bound: commands started
  MaxChanges    \* bound: changes of the world between commands

ASSUME BoundsAssumption == MaxCommands \in Nat /\ MaxChanges \in Nat

SUCCESS == 0
CONSTRAINTS_FAILED == 1
INVALID_INPUT == 2
PROVIDER_UNAVAILABLE == 3
PARTIAL_RUN == 4
INTERNAL_ERROR == 5

(* Names and aliases are sequences of the words their dashes separate, so  *)
(* that joining two of them with a dash is concatenation.                  *)
NoName == << >>
NoFile == "missing"

VARIABLES
  suiteFile, \* what the suite file contains
  file,      \* fixture name -> version, in the directory of the suites
  up,        \* the servers that answer
  command,   \* the command in progress
  runs,      \* the runs saved so far
  foretold,  \* invocations a dry run has accepted in this very world
  started,   \* counts of commands
  changed    \* ... and of changes

vars == <<suiteFile, file, up, command, runs, foretold, started, changed>>

AliasesOf(suite) == {m.alias : m \in ToSet(suite.models)}
ModelByAlias(suite, a) ==
  CHOOSE m \in ToSet(suite.models) : m.alias = a

-----------------------------------------------------------------------------
(* Loading: what pydantic checks of a value, and what validate_suite       *)
(* checks of the references between values.                                *)
FieldsValid(suite) == suite.repetitions >= 1 /\ suite.concurrency >= 1

References(suite) ==
  ({suite.baseline} \ {NoName})
  \cup (UNION {{r.baseline} \cup r.candidates : r \in suite.replacement})
  \cup (UNION {{c.first, c.second} : c \in suite.cascade})

ValidSuite(suite) ==
  /\ FieldsValid(suite)
  /\ suite.models # << >> /\ suite.cases > 0
  /\ \A i, j \in DOMAIN suite.models :
       suite.models[i].alias = suite.models[j].alias => i = j
  /\ References(suite) \subseteq AliasesOf(suite)

(* An option that is given replaces the value; nothing validates it again. *)
Override(value, option) ==
  IF option = {} THEN value ELSE CHOOSE x \in option : TRUE
Overridden(suite, options) ==
  [suite EXCEPT !.repetitions = Override(@, options.repetitions),
                !.concurrency = Override(@, options.concurrency)]

(* Mutant: the option alone enables them. *)
HostedByOption(suite, options) == options.allowHosted

HostedEnabled(suite, options) ==
  options.allowHosted /\ suite.allowHosted

-----------------------------------------------------------------------------
(* The file a model's fixture is read from. A suite lies in the directory  *)
(* of the user's files; the suite of a saved run lies in the directory of  *)
(* the run, with its copies under fixtures/.                               *)
Here == 0
Look(f, name) == IF name \in DOMAIN f THEN f[name] ELSE NoFile
Source(model, dir) ==
  IF dir = Here THEN Look(file, model.fixture)
  ELSE IF model.copied THEN Look(runs[dir].fixtures, model.fixture)
  ELSE NoFile

(* The parts of build_provider: an adapter reads its fixture, or looks at  *)
(* its endpoint.                                                           *)
BuildDeterministic(model, dir) ==
  IF model.fixture = NoName THEN SUCCESS
  ELSE IF Source(model, dir) \in {NoFile, "not_a_mapping"} THEN INVALID_INPUT
  ELSE IF Source(model, dir) = "not_YAML" THEN INTERNAL_ERROR ELSE SUCCESS
BuildCompatible(model, hosted) ==
  IF model.endpoint = "none" THEN INVALID_INPUT
  ELSE IF model.endpoint = "external" /\ ~hosted THEN PROVIDER_UNAVAILABLE
  ELSE SUCCESS

(* build_provider: SUCCESS, or the exit code of what it raises.  Ollama and *)
(* Forge (kind "ollama") are built for whatever endpoint they are given.    *)
Build(model, dir, hosted) ==
  CASE model.kind = "deterministic" -> BuildDeterministic(model, dir)
    [] model.kind = "openai_compatible" -> BuildCompatible(model, hosted)
    [] model.kind = "hosted" -> PROVIDER_UNAVAILABLE
    [] OTHER -> SUCCESS

Served(model) == model.kind # "deterministic"

(* health(): without a base_url, Ollama is looked for on this machine.      *)
Healthy(model) ==
  Served(model) => (IF model.endpoint = "external" THEN "external" ELSE "local") \in up

(* What a model answers with: a fixture, itself, or the server.            *)
Answers(model, dir) ==
  IF Served(model) THEN {"live"}
  ELSE IF model.fixture = NoName THEN {"oracle"} ELSE {Source(model, dir)}

(* Served calls can end in any way, whatever health() said: it asks for     *)
(* another path, and a server comes and goes.                               *)
Statuses(model, dir) ==
  IF Served(model) THEN {"success", "failed", "timeout", "error"}
  ELSE IF Answers(model, dir) = {"bad"} THEN {"failed"}
  ELSE IF Answers(model, dir) = {"erring"} THEN {"error"}
  ELSE {"success"}

(* What run_case does not catch of a model whose answers are known: a       *)
(* fixture that holds something other than a mapping for a case, which the  *)
(* call finds (ConfigError), and an evaluator that raises on the answer.    *)
Raising == {"bad_case"} \cup Ungradable
Raises(model, dir) == Answers(model, dir) \subseteq Raising
RaisedCode(model, dir) ==
  IF Answers(model, dir) = {"bad_case"} THEN INVALID_INPUT ELSE INTERNAL_ERROR

-----------------------------------------------------------------------------
NoOptions ==
  [only |-> NoName, repetitions |-> {}, concurrency |-> {},
   allowHosted |-> FALSE, dry |-> FALSE]
NoSuite ==
  [models |-> << >>, cases |-> 0, mode |-> "unset", baseline |-> NoName,
   replacement |-> {}, cascade |-> {}, repetitions |-> 1, concurrency |-> 1,
   allowHosted |-> FALSE, everyCallMustSucceed |-> FALSE]

(* What pydantic makes of a suite file, and the command line of `run`: the *)
(* fields, and at most one cascade.  No model of a file is a copy yet.     *)
IsModel(model) ==
  /\ DOMAIN model = {"alias", "kind", "endpoint", "fixture", "copied"}
  /\ IsList(model.alias) /\ IsList(model.fixture)
IsSuite(suite) ==
  /\ DOMAIN suite = DOMAIN NoSuite
  /\ IsList(suite.models)
  /\ \A m \in ToSet(suite.models) : IsModel(m)
  /\ \A c, d \in suite.cascade : c = d

ASSUME SuitesAssumption ==
  \A suite \in Suites :
    IsSuite(suite) /\ \A m \in ToSet(suite.models) : ~m.copied
ASSUME InvocationsAssumption ==
  \A options \in Invocations : DOMAIN options = DOMAIN NoOptions

Idle ==
  [doing |-> "nothing", suite |-> NoSuite, dir |-> Here, options |-> NoOptions,
   origin |-> Here, hosted |-> FALSE, todo |-> << >>, chosen |-> << >>,
   unavailable |-> FALSE, results |-> << >>, opened |-> {},
   code |-> SUCCESS, saved |-> FALSE, broken |-> FALSE]

Init ==
  /\ suiteFile \in Suites
  /\ file \in [Fixtures -> {"good"}]
  /\ up = {"local", "external"}
  /\ command = Idle
  /\ runs = << >>
  /\ foretold = {}
  /\ started = 0 /\ changed = 0

AtRest == command.doing \in {"nothing", "ended"}
End(code) == [command EXCEPT !.doing = "ended", !.code = code]

(* An exception from outside the program, which nothing on the way maps.    *)
Broken == [End(INTERNAL_ERROR) EXCEPT !.broken = TRUE]

(* The user edits or deletes a fixture file that the suite names.          *)
EditFixture ==
  /\ AtRest /\ changed < MaxChanges
  /\ \E n \in Fixtures \cap {m.fixture : m \in ToSet(suiteFile.models)},
        v \in Versions \cup {NoFile} :
       v # file[n] /\ file' = [file EXCEPT ![n] = v]
  /\ changed' = changed + 1 /\ foretold' = {}
  /\ UNCHANGED <<suiteFile, up, command, runs, started>>

ServerChanges ==
  /\ AtRest /\ changed < MaxChanges
  /\ \E s \in {"local", "external"} :
       up' = IF s \in up THEN up \ {s} ELSE up \cup {s}
  /\ changed' = changed + 1 /\ foretold' = {}
  /\ UNCHANGED <<suiteFile, file, command, runs, started>>

(* The models a run goes through, and how: those with the alias, of which  *)
(* a suite that was validated has one or none.                             *)
Chosen(suite, only) ==
  IF only = NoName THEN suite.models
  ELSE IF only \in AliasesOf(suite) THEN <<ModelByAlias(suite, only)>>
  ELSE << >>

Mode(suite, models) ==
  IF suite.mode # "unset" THEN suite.mode
  ELSE IF suite.cascade # {} THEN "cascade"
  ELSE IF suite.replacement # {} THEN "baseline_vs_candidate"
  ELSE IF Len(models) = 1 THEN "single" ELSE "comparison"

IsCascade(suite, models) ==
  Mode(suite, models) = "cascade" /\ suite.cascade # {}

Begin(doing, suite, dir, origin, options, hosted, only) ==
  command' = [Idle EXCEPT !.doing = doing, !.suite = suite, !.dir = dir,
                          !.origin = origin, !.options = options,
                          !.hosted = hosted,
                          !.chosen = Chosen(suite, only),
                          !.todo = IF doing = "dry_run" THEN suite.models
                                   ELSE Chosen(suite, only)]

StartRun(loaded, options) ==
  LET suite == Overridden(loaded, options)
      unknown == options.only \notin AliasesOf(loaded) \cup {NoName}
  IN  /\ AtRest /\ started < MaxCommands
      /\ IF ~ValidSuite(loaded) \/ (~options.dry /\ unknown)
         THEN command' = [Idle EXCEPT !.doing = "ended",
                                      !.code = INVALID_INPUT,
                                      !.suite = loaded, !.options = options]
         ELSE Begin(IF options.dry THEN "dry_run"
                    ELSE IF IsCascade(suite, Chosen(suite, options.only))
                    THEN "cascade" ELSE "comparison",
                    suite, Here, Here, options,
                    HostedEnabled(suite, options), options.only)
      /\ started' = started + 1
      /\ UNCHANGED <<suiteFile, file, up, runs, foretold, changed>>

(* reproduce validates the fields of the snapshot when it parses it, takes *)
(* no options and never enables a hosted provider.                         *)
Reproduce(r) ==
  LET suite == runs[r].suite
  IN  /\ AtRest /\ started < MaxCommands
      /\ IF ~FieldsValid(suite)
         THEN command' = [Idle EXCEPT !.doing = "ended", !.suite = suite,
                                      !.origin = r, !.code = INTERNAL_ERROR]
         ELSE Begin(IF IsCascade(suite, suite.models)
                    THEN "cascade" ELSE "comparison",
                    suite, r, r, NoOptions, FALSE, NoName)
      /\ started' = started + 1
      /\ UNCHANGED <<suiteFile, file, up, runs, foretold, changed>>

-----------------------------------------------------------------------------
(* Mutant: the dry run only looks at the first model. *)
CheckingFirst ==
  command.doing = "dry_run" /\ command.todo = command.suite.models
Checking == command.doing = "dry_run" /\ command.todo # << >>

CheckModel ==
  /\ Checking
  /\ LET model == Head(command.todo)
         built == Build(model, Here, command.hosted)
     IN  command' =
           IF built \in {INVALID_INPUT, INTERNAL_ERROR} THEN End(built)
           ELSE [command EXCEPT
                   !.todo = Tail(@),
                   !.opened = @ \cup {m \in {model} : built = SUCCESS},
                   !.unavailable = @ \/ built # SUCCESS \/ ~Healthy(model)]
  /\ UNCHANGED <<suiteFile, file, up, runs, foretold, started, changed>>

EndDryRun ==
  /\ command.doing = "dry_run" /\ ~Checking
  /\ command' = End(IF command.unavailable THEN PROVIDER_UNAVAILABLE ELSE SUCCESS)
  /\ foretold' = IF command.unavailable THEN foretold
                 ELSE foretold \cup {<<command.suite, command.options>>}
  /\ UNCHANGED <<suiteFile, file, up, runs, started, changed>>

Calls(n) == IF n < 0 THEN 0 ELSE n
Batch(model, status, count) ==
  [alias |-> model.alias, status |-> status, count |-> count,
   answer |-> CHOOSE a \in Answers(model, command.dir) : TRUE]

(* The next model of a comparison: built, called for every case as often   *)
(* as repetitions says, and closed.  An exception loses the whole run.     *)
RunModel ==
  /\ command.doing = "comparison" /\ command.todo # << >>
  /\ LET model == Head(command.todo)
         built == Build(model, command.dir, command.hosted)
         count == command.suite.cases * Calls(command.suite.repetitions)
     IN  IF built # SUCCESS THEN command' = End(built)
         ELSE IF Raises(model, command.dir) /\ count > 0
         THEN command' = [End(RaisedCode(model, command.dir))
                            EXCEPT !.opened = @ \cup {model}]
         ELSE \E status \in Statuses(model, command.dir) :
                command' = [command EXCEPT
                  !.todo = Tail(@), !.opened = @ \cup {model},
                  !.results = Append(@, Batch(model, status, count))]
  /\ UNCHANGED <<suiteFile, file, up, runs, foretold, started, changed>>

(* A cascade builds its two stages, whatever --model says, and calls each  *)
(* case once; the second stage gets the cases of the first one that its    *)
(* conditions escalate.                                                    *)
RunCascade ==
  /\ command.doing = "cascade"
  /\ \E c \in command.suite.cascade :
       LET first == ModelByAlias(command.suite, c.first)
           second == ModelByAlias(command.suite, c.second)
           one == Build(first, command.dir, command.hosted)
           two == Build(second, command.dir, command.hosted)
           both == [command EXCEPT !.opened = {first, second}]
       IN  IF one # SUCCESS THEN command' = End(one)
           ELSE IF two # SUCCESS
           THEN command' = [End(two) EXCEPT !.opened = {first}]
           ELSE IF Raises(first, command.dir)
           THEN command' = [both EXCEPT !.doing = "ended",
                                        !.code = RaisedCode(first, command.dir)]
           ELSE \E s \in Statuses(first, command.dir),
                   t \in Statuses(second, command.dir) :
                  IF s \in c.escalates /\ Raises(second, command.dir)
                  THEN command' =
                    [both EXCEPT !.doing = "ended",
                                 !.code = RaisedCode(second, command.dir)]
                  ELSE command' =
                    [both EXCEPT !.doing = "comparison", !.todo = << >>,
                      !.results =
                        <<Batch(first, s, command.suite.cases)>>
                        \o (IF s \in c.escalates
                            THEN <<Batch(second, t, command.suite.cases)>>
                            ELSE << >>)]
  /\ UNCHANGED <<suiteFile, file, up, runs, foretold, started, changed>>

(* A served model raises what the adapter does not map: in health() or     *)
(* complete() a body that is not JSON, in Ollama's a transport error other *)
(* than connecting, the client's URL, or aclose().                         *)
ServerBreaks ==
  /\ Checking \/ (command.doing = "comparison" /\ command.todo # << >>)
  /\ LET model == Head(command.todo)
     IN  /\ Served(model)
         /\ Build(model, command.dir, command.hosted) = SUCCESS
         /\ command' = [Broken EXCEPT !.opened = @ \cup {model}]
  /\ UNCHANGED <<suiteFile, file, up, runs, foretold, started, changed>>

(* ... or a stage of a cascade, once it is called.                         *)
CascadeBreaks ==
  /\ command.doing = "cascade"
  /\ \E c \in command.suite.cascade :
       LET first == ModelByAlias(command.suite, c.first)
           second == ModelByAlias(command.suite, c.second)
       IN  /\ \A m \in {first, second} :
                Build(m, command.dir, command.hosted) = SUCCESS
           /\ \/ Served(first)
              \/ /\ Served(second) /\ ~Raises(first, command.dir)
                 /\ Statuses(first, command.dir) \cap c.escalates # {}
           /\ command' = [Broken EXCEPT !.opened = {first, second}]
  /\ UNCHANGED <<suiteFile, file, up, runs, foretold, started, changed>>

-----------------------------------------------------------------------------
(* Saving. A model whose fixture file is there gets a copy of it, named    *)
(* after the model and the file; a later copy of the same name overwrites. *)
CopyName(model) == model.alias \o model.fixture
HasSource(model) ==
  model.fixture # NoName /\ Source(model, command.dir) # NoFile

(* Mutant: the copies are made, the snapshot goes on naming the originals. *)
SnapshotOfPaths(suite) == suite

Snapshot(suite) ==
  LET copied(m) == [m EXCEPT !.fixture = CopyName(m), !.copied = TRUE]
  IN  [suite EXCEPT !.models =
         [i \in DOMAIN suite.models |->
            IF HasSource(suite.models[i]) THEN copied(suite.models[i])
            ELSE suite.models[i]]]

Copies(suite) ==
  LET copied == {i \in DOMAIN suite.models : HasSource(suite.models[i])}
      last(n) == CHOOSE i \in copied :
                   /\ CopyName(suite.models[i]) = n
                   /\ \A j \in copied :
                        CopyName(suite.models[j]) = n => j <= i
  IN  [n \in {CopyName(suite.models[i]) : i \in copied} |->
         Source(suite.models[last(n)], command.dir)]

(* Decisions, summaries and constraints are about the chosen models.       *)
Called(results, a) == \E b \in ToSet(results) : b.alias = a /\ b.count > 0
Summarised == {m.alias : m \in ToSet(command.chosen)}
Decisions(suite) ==
  UNION {{a \in r.candidates : a \in Summarised /\ r.baseline \in Summarised}
         : r \in suite.replacement}

ConstraintsPassed(suite, results) ==
  suite.everyCallMustSucceed =>
    \A a \in Summarised :
      /\ Called(results, a)
      /\ \A b \in ToSet(results) : b.alias = a => b.status = "success"

ExitCodeOf(suite, results) ==
  LET made == {b \in ToSet(results) : b.count > 0}
      lost == {b \in made : b.status = "error"}
  IN  IF lost # {} THEN IF lost = made THEN PROVIDER_UNAVAILABLE ELSE PARTIAL_RUN
      ELSE IF ConstraintsPassed(suite, results) THEN SUCCESS
      ELSE CONSTRAINTS_FAILED

(* Mutant: the manifest of a run describes the suite as it was loaded. *)
ManifestOfLoaded(snapshot) == [suite |-> command.suite]
ManifestOf(snapshot) == [suite |-> snapshot]

Save ==
  /\ command.doing = "comparison" /\ command.todo = << >>
  /\ LET snapshot == Snapshot(command.suite)
     IN  runs' = Append(runs,
           [suite |-> snapshot, manifest |-> ManifestOf(snapshot),
            fixtures |-> Copies(command.suite), origin |-> command.origin,
            results |-> command.results, options |-> command.options,
            decided |-> Decisions(command.suite),
            drift |-> /\ command.origin # Here
                      /\ runs[command.origin].manifest # [suite |-> command.suite]])
  /\ command' = [End(ExitCodeOf(command.suite, command.results))
                   EXCEPT !.saved = TRUE]
  /\ UNCHANGED <<suiteFile, file, up, foretold, started, changed>>

(* repo.save raises (the disk, the database): the run is lost.             *)
SaveFails ==
  /\ command.doing = "comparison" /\ command.todo = << >>
  /\ command' = Broken
  /\ UNCHANGED <<suiteFile, file, up, runs, foretold, started, changed>>

Next ==
  \/ EditFixture
  \/ ServerChanges
  \/ \E options \in Invocations : StartRun(suiteFile, options)
  \/ \E r \in DOMAIN runs : Reproduce(r)
  \/ CheckModel
  \/ EndDryRun
  \/ RunModel
  \/ RunCascade
  \/ ServerBreaks
  \/ CascadeBreaks
  \/ Save
  \/ SaveFails

Spec == Init /\ [][Next]_vars

-----------------------------------------------------------------------------
(* An external OpenAI-compatible endpoint needs both consents: no command, *)
(* a dry run and a reproduction included, builds a provider for one unless *)
(* the suite and the command line allow it.  A hosted service is never     *)
(* built.  (Ollama and Forge ask for no consent: DataStaysWithoutConsent.) *)
CompatibleNeedsBothConsents ==
  \A m \in command.opened :
    /\ m.kind # "hosted"
    /\ m.kind = "openai_compatible" /\ m.endpoint = "external" =>
         command.options.allowHosted /\ command.suite.allowHosted

(* What a dry run accepts can be run: with the same options, in the same   *)
(* world, no model is missing when its turn comes, so that the run is      *)
(* saved.  Excepted are an unknown --model, which a dry run ignores, models*)
(* whose answers raise (a dry run makes no call), and what breaks from     *)
(* outside: a server that raises what its adapter does not map, a save that*)
(* fails.                                                                  *)
DryRunPredicts ==
  LET asked == <<command.suite, [command.options EXCEPT !.dry = TRUE]>>
  IN  /\ command.doing = "ended" /\ ~command.options.dry
      /\ command.origin = Here /\ asked \in foretold
      /\ command.options.only \in AliasesOf(command.suite) \cup {NoName}
      /\ \A m \in ToSet(command.suite.models) : ~Raises(m, Here)
      => command.saved \/ command.broken

(* What is accepted is carried out: dry runs predict, and a saved run has  *)
(* decided on every candidate its suite names.  Decisions are made for the *)
(* aliases that are found, and only validate_suite stands between one that *)
(* is not and a decision that is missing without a word.                   *)
AcceptedIsCarriedOut ==
  /\ DryRunPredicts
  /\ \A r \in DOMAIN runs :
       runs[r].options.only = NoName =>
         runs[r].decided = UNION {x.candidates : x \in runs[r].suite.replacement}

Ended(r) == command.doing = "ended" /\ command.origin = r

(* A reproduction of r was saved as a run with the same results, and the   *)
(* last command did not fail to reproduce r, unless the save of the        *)
(* reproduction failed (or a served model broke).                          *)
Reproduces(r) ==
  /\ Ended(r) => command.saved \/ command.broken
  /\ \A s \in DOMAIN runs :
       runs[s].origin = r => runs[s].results = runs[r].results

OnDeterministicModels(r) ==
  \A m \in ToSet(runs[r].suite.models) : m.kind = "deterministic"
OnAllModels(r) == runs[r].options.only = NoName
CopiesKeptApart(r) ==
  \A m, n \in ToSet(runs[r].suite.models) :
    m.copied /\ n.copied /\ m.fixture = n.fixture => m = n

(* "A run can be re-executed exactly": whatever the user does to the       *)
(* fixture files, a run of deterministic models repeats, and so do its     *)
(* repetitions, if it was a run of all models, with legal overrides, no two*)
(* copies got one name and the disk takes the reproduction.  And reproduce *)
(* never cries wolf: the hashes it compares are both of the snapshot,      *)
(* although saving rewrites the fixtures of the suite.                     *)
ReproductionRepeats ==
  \A r \in DOMAIN runs :
    /\ ~runs[r].drift
    /\ /\ OnDeterministicModels(r) /\ OnAllModels(r)
       /\ FieldsValid(runs[r].suite) /\ CopiesKeptApart(r)
       => Reproduces(r)

-----------------------------------------------------------------------------
(* What the documentation says and the code does not do.                   *)

(* docs/reproducibility.md: the suite is "snapshotted so a run can be      *)
(* re-executed exactly", without the conditions above.                     *)
SavedRunsReproduce ==
  \A r \in DOMAIN runs : OnDeterministicModels(r) => Reproduces(r)

(* SECURITY.md: "Benchmark data never leaves the machine unless you pass   *)
(* `--allow-hosted` **and** set `privacy.allow_hosted_providers`."  So no  *)
(* case was sent to an external endpoint without both.                     *)
DataStaysWithoutConsent ==
  \A b \in ToSet(command.results) :
    LET m == ModelByAlias(command.suite, b.alias)
    IN  b.count > 0 /\ Served(m) /\ m.endpoint = "external" =>
          command.options.allowHosted /\ command.suite.allowHosted
=============================================================================
