-------------------------- MODULE CommandsProofs --------------------------
(***************************************************************************)
(* Proofs about the commands of a user: for any suites, options, fixture   *)
(* files and servers, and any number of commands, an external endpoint of  *)
(* the OpenAI-compatible adapter is built only if the suite and the command*)
(* line both allow it, what is accepted is carried out unless something    *)
(* outside breaks, and what is reproduced repeats; for any number *)
(* of processes a price that was set is found; for any rubrics, cases and  *)
(* answers a score agrees with its verdict; and what DatasetFilesProofs    *)
(* says of datasets.                                                       *)
(***************************************************************************)
EXTENDS Commands, SumsProofs, SequenceTheorems, TLAPS

(* The fields of a command, which no step adds to.                         *)
CommandFields ==
  {"doing", "suite", "dir", "options", "origin", "hosted", "todo", "chosen",
   "unavailable", "results", "opened", "code", "saved", "broken"}
Shape == DOMAIN command = CommandFields

(* What allows a hosted endpoint is decided when a command starts, and is  *)
(* kept while its models are built.                                        *)
Consented ==
  command.hosted =>
    command.options.allowHosted /\ command.suite.allowHosted

(* What is built passed build_provider under what was decided.             *)
Permitted(m, hosted) ==
  /\ m.kind # "hosted"
  /\ m.kind = "openai_compatible" /\ m.endpoint = "external" => hosted
BuiltByConsent == \A m \in command.opened : Permitted(m, command.hosted)

ConsentInv == Shape /\ Consented /\ BuiltByConsent

-----------------------------------------------------------------------------
(* build_provider refuses hosted services, and external endpoints of the   *)
(* OpenAI-compatible adapter without consent.                              *)
LEMMA BuildRefuses ==
  ASSUME NEW m, NEW dir, NEW hosted, Build(m, dir, hosted) = SUCCESS
  PROVE  Permitted(m, hosted)
<1>1. ASSUME m.kind = "hosted" PROVE FALSE
  <2>1. Build(m, dir, hosted) = PROVIDER_UNAVAILABLE
    BY <1>1 DEF Build
  <2> QED BY <2>1 DEF SUCCESS, PROVIDER_UNAVAILABLE
<1>2. ASSUME m.kind = "openai_compatible", m.endpoint = "external", ~hosted
      PROVE  FALSE
  <2>1. Build(m, dir, hosted) = PROVIDER_UNAVAILABLE
    BY <1>2 DEF Build, BuildCompatible
  <2> QED BY <2>1 DEF SUCCESS, PROVIDER_UNAVAILABLE
<1> QED BY <1>1, <1>2 DEF Permitted

(* A field that is not assigned keeps its value.                           *)
LEMMA ExceptKeeps ==
  ASSUME NEW f, NEW k, NEW v
  PROVE  /\ DOMAIN [f EXCEPT ![k] = v] = DOMAIN f
         /\ \A l \in DOMAIN f \ {k} : [f EXCEPT ![k] = v][l] = f[l]
         /\ k \in DOMAIN f => [f EXCEPT ![k] = v][k] = v
OBVIOUS

LEMMA IdleFields == DOMAIN Idle = CommandFields
BY DEF Idle, CommandFields

(* A command ends as it is.                                                *)
LEMMA EndKeeps ==
  ASSUME Shape, NEW code
  PROVE  /\ DOMAIN End(code) = CommandFields
         /\ \A k \in CommandFields \ {"doing", "code"} :
              End(code)[k] = command[k]
<1> DEFINE ended == [command EXCEPT !["doing"] = "ended"]
<1>1. DOMAIN ended = CommandFields
  BY ExceptKeeps DEF Shape
<1>2. \A k \in CommandFields \ {"doing"} : ended[k] = command[k]
  BY ExceptKeeps DEF Shape
<1>3. End(code) = [ended EXCEPT !["code"] = code]
  BY DEF End
<1> HIDE DEF ended
<1> QED BY <1>1, <1>2, <1>3, ExceptKeeps

(* What a step has to leave alone: consent is kept with the three fields   *)
(* that give it, and with everything that is built by it.                  *)
LEMMA ConsentIsKept ==
  ASSUME ConsentInv,
         DOMAIN command' = CommandFields,
         \A k \in {"hosted", "options", "suite"} : command'[k] = command[k],
         \A m \in command'.opened \ command.opened : Permitted(m, command.hosted)
  PROVE  ConsentInv'
<1>1. /\ command'.hosted = command.hosted
      /\ command'.options = command.options
      /\ command'.suite = command.suite
  OBVIOUS
<1>2. Shape'
  BY DEF Shape
<1>3. Consented'
  BY <1>1 DEF ConsentInv, Consented
<1>4. BuiltByConsent'
  BY <1>1 DEF ConsentInv, BuiltByConsent
<1> QED BY <1>2, <1>3, <1>4 DEF ConsentInv

-----------------------------------------------------------------------------
(* A command begins with nothing built.                                    *)
LEMMA BeginConsents ==
  ASSUME NEW doing, NEW suite, NEW dir, NEW origin, NEW options, NEW hosted,
         NEW only,
         hosted => options.allowHosted /\ suite.allowHosted,
         Begin(doing, suite, dir, origin, options, hosted, only)
  PROVE  ConsentInv'
<1> DEFINE chosen == Chosen(suite, only)
           todo == IF doing = "dry_run" THEN suite.models ELSE chosen
<1>1. command' = [Idle EXCEPT !.doing = doing, !.suite = suite, !.dir = dir,
                              !.origin = origin, !.options = options,
                              !.hosted = hosted, !.chosen = chosen,
                              !.todo = todo]
  BY DEF Begin
<1> HIDE DEF chosen, todo
<1>2. /\ DOMAIN command' = CommandFields
      /\ command'.hosted = hosted /\ command'.options = options
      /\ command'.suite = suite /\ command'.opened = {}
  BY <1>1 DEF Idle, CommandFields
<1> QED BY <1>2 DEF ConsentInv, Shape, Consented, BuiltByConsent

(* The consents of `run` are those of the suite it loaded; `reproduce`     *)
(* gives none.                                                             *)
LEMMA StartingConsents ==
  ASSUME ConsentInv,
         NEW options, NEW r,
         StartRun(suiteFile, options) \/ Reproduce(r)
  PROVE  ConsentInv'
<1> DEFINE suite == Overridden(suiteFile, options)
<1>1. ASSUME NEW with, NEW origin, NEW code, NEW given,
             \/ command' = [Idle EXCEPT !.doing = "ended", !.code = code,
                                       !.suite = with, !.options = given]
             \/ command' = [Idle EXCEPT !.doing = "ended", !.suite = with,
                                       !.origin = origin, !.code = code]
      PROVE  ConsentInv'
  <2>1. /\ DOMAIN command' = CommandFields
        /\ command'.hosted = FALSE /\ command'.opened = {}
    BY <1>1 DEF Idle, CommandFields
  <2> QED BY <2>1 DEF ConsentInv, Shape, Consented, BuiltByConsent
<1>2. HostedEnabled(suite, options) => options.allowHosted /\ suite.allowHosted
  BY DEF HostedEnabled
<1> HIDE DEF suite
<1>3. CASE StartRun(suiteFile, options)
  <2>1. \/ command' = [Idle EXCEPT !.doing = "ended", !.code = INVALID_INPUT,
                                   !.suite = suiteFile, !.options = options]
        \/ \E doing : Begin(doing, suite, Here, Here, options,
                            HostedEnabled(suite, options), options.only)
    BY <1>3 DEF StartRun, suite
  <2> QED BY <2>1, <1>1, <1>2, BeginConsents
<1>4. CASE Reproduce(r)
  <2> DEFINE again == runs[r].suite
  <2>1. \/ command' = [Idle EXCEPT !.doing = "ended", !.suite = again,
                                   !.origin = r, !.code = INTERNAL_ERROR]
        \/ \E doing : Begin(doing, again, r, r, NoOptions, FALSE, NoName)
    BY <1>4 DEF Reproduce
  <2> HIDE DEF again
  <2> QED BY <2>1, <1>1, BeginConsents
<1> QED BY <1>3, <1>4

(* A step that builds nothing but changes fields of the command.           *)
LEMMA EndConsents ==
  ASSUME ConsentInv, NEW code, command' = End(code)
  PROVE  ConsentInv'
<1>1. Shape
  BY DEF ConsentInv
<1>2. /\ DOMAIN command' = CommandFields
      /\ \A k \in {"hosted", "options", "suite", "opened"} :
           command'[k] = command[k]
  BY <1>1, EndKeeps DEF CommandFields
<1> QED BY <1>2, ConsentIsKept

(* A step that builds a model, or several.                                 *)
LEMMA OpeningConsents ==
  ASSUME ConsentInv, NEW built,
         \A m \in built : \E dir : Build(m, dir, command.hosted) = SUCCESS,
         DOMAIN command' = CommandFields,
         \A k \in {"hosted", "options", "suite"} : command'[k] = command[k],
         command'.opened \subseteq command.opened \cup built
  PROVE  ConsentInv'
<1>1. \A m \in command'.opened \ command.opened : Permitted(m, command.hosted)
  BY BuildRefuses
<1> QED BY <1>1, ConsentIsKept

LEMMA CheckingConsents == ConsentInv /\ CheckModel => ConsentInv'
<1> SUFFICES ASSUME ConsentInv, CheckModel PROVE ConsentInv'
  OBVIOUS
<1> DEFINE model == Head(command.todo)
           built == Build(model, Here, command.hosted)
<1>1. CASE built \in {INVALID_INPUT, INTERNAL_ERROR}
  BY <1>1, EndConsents DEF CheckModel
<1>2. CASE built \notin {INVALID_INPUT, INTERNAL_ERROR}
  <2> DEFINE opened == {m \in {model} : built = SUCCESS}
  <2>1. PICK rest, doubt :
          command' = [command EXCEPT !.todo = rest,
                        !.opened = command.opened \cup opened,
                        !.unavailable = doubt]
    BY <1>2 DEF CheckModel
  <2>2. \A m \in opened : \E dir : Build(m, dir, command.hosted) = SUCCESS
    OBVIOUS
  <2> HIDE DEF opened, model, built
  <2>3. /\ DOMAIN command' = CommandFields
        /\ \A k \in {"hosted", "options", "suite"} : command'[k] = command[k]
        /\ command'.opened = command.opened \cup opened
    BY <2>1, ExceptKeeps DEF ConsentInv, Shape, CommandFields
  <2> QED BY <2>2, <2>3, OpeningConsents
<1> QED BY <1>1, <1>2

LEMMA RunningConsents == ConsentInv /\ RunModel => ConsentInv'
<1> SUFFICES ASSUME ConsentInv, RunModel PROVE ConsentInv'
  OBVIOUS
<1> DEFINE model == Head(command.todo)
           built == Build(model, command.dir, command.hosted)
           code == RaisedCode(model, command.dir)
<1>1. Shape
  BY DEF ConsentInv
<1>2. CASE built # SUCCESS
  BY <1>2, EndConsents DEF RunModel
<1>3. CASE built = SUCCESS
  <2>1. \/ command' = [End(code) EXCEPT
                         !.opened = End(code).opened \cup {model}]
        \/ \E rest, results :
             command' = [command EXCEPT
                           !.todo = rest,
                           !.opened = command.opened \cup {model},
                           !.results = results]
    BY <1>3 DEF RunModel
  <2> DEFINE opened == {model}
  <2>2. \A m \in opened : \E dir : Build(m, dir, command.hosted) = SUCCESS
    BY <1>3
  <2> HIDE DEF opened, model, built, code
  <2>3. /\ DOMAIN command' = CommandFields
        /\ \A k \in {"hosted", "options", "suite"} : command'[k] = command[k]
        /\ command'.opened = command.opened \cup opened
    <3>1. CASE command' = [End(code) EXCEPT
                            !.opened = End(code).opened \cup {model}]
      BY <1>1, <3>1, EndKeeps, ExceptKeeps DEF CommandFields, opened
    <3>2. CASE \E rest, results :
                 command' = [command EXCEPT
                               !.todo = rest,
                               !.opened = command.opened \cup {model},
                               !.results = results]
      <4>1. PICK rest, results :
              command' = [command EXCEPT
                            !.todo = rest,
                            !.opened = command.opened \cup {model},
                            !.results = results]
        BY <3>2
      <4> QED BY <1>1, <4>1, ExceptKeeps DEF Shape, CommandFields, opened
    <3> QED BY <2>1, <3>1, <3>2
  <2> QED BY <2>2, <2>3, OpeningConsents
<1> QED BY <1>2, <1>3

LEMMA CascadingConsents == ConsentInv /\ RunCascade => ConsentInv'
<1> SUFFICES ASSUME ConsentInv, RunCascade PROVE ConsentInv'
  OBVIOUS
<1>1. Shape
  BY DEF ConsentInv
<1> DEFINE First(c) == ModelByAlias(command.suite, c.first)
           Second(c) == ModelByAlias(command.suite, c.second)
           Builds(m) == Build(m, command.dir, command.hosted)
           Both(c) == [command EXCEPT !.opened = {First(c), Second(c)}]
<1>2. PICK c \in command.suite.cascade :
        \/ /\ Builds(First(c)) # SUCCESS
           /\ command' = End(Builds(First(c)))
        \/ /\ Builds(First(c)) = SUCCESS
           /\ Builds(Second(c)) # SUCCESS
           /\ command' = [End(Builds(Second(c))) EXCEPT !.opened = {First(c)}]
        \/ /\ Builds(First(c)) = SUCCESS
           /\ Builds(Second(c)) = SUCCESS
           /\ \/ \E code : command' = [Both(c) EXCEPT !.doing = "ended",
                                                     !.code = code]
              \/ \E results :
                   command' = [Both(c) EXCEPT !.doing = "comparison",
                                 !.todo = << >>, !.results = results]
  BY DEF RunCascade
<1> DEFINE first == First(c)
           second == Second(c)
           one == Build(first, command.dir, command.hosted)
           two == Build(second, command.dir, command.hosted)
           both == [command EXCEPT !.opened = {first, second}]
<1>3. CASE one # SUCCESS
  BY <1>2, <1>3, EndConsents
<1>4. CASE one = SUCCESS /\ two # SUCCESS
  <2>1. command' = [End(two) EXCEPT !.opened = {first}]
    BY <1>2, <1>4
  <2>2. \A m \in {first} : \E dir : Build(m, dir, command.hosted) = SUCCESS
    BY <1>4
  <2> HIDE DEF first, two
  <2>3. /\ DOMAIN command' = CommandFields
        /\ \A k \in {"hosted", "options", "suite"} : command'[k] = command[k]
        /\ command'.opened = {first}
    BY <1>1, <2>1, EndKeeps, ExceptKeeps DEF CommandFields
  <2> QED BY <2>2, <2>3, OpeningConsents
<1>5. CASE one = SUCCESS /\ two = SUCCESS
  <2>1. \/ \E code : command' = [both EXCEPT !.doing = "ended", !.code = code]
        \/ \E results : command' = [both EXCEPT !.doing = "comparison",
                                   !.todo = << >>, !.results = results]
    BY <1>2, <1>5
  <2>2. \A m \in {first, second} :
          \E dir : Build(m, dir, command.hosted) = SUCCESS
    BY <1>5
  <2> HIDE DEF first, second
  <2>3. /\ DOMAIN both = CommandFields
        /\ \A k \in {"hosted", "options", "suite"} : both[k] = command[k]
        /\ both.opened = {first, second}
    BY <1>1, ExceptKeeps DEF Shape, CommandFields
  <2> HIDE DEF both
  <2>4. /\ DOMAIN command' = CommandFields
        /\ \A k \in {"hosted", "options", "suite"} : command'[k] = command[k]
        /\ command'.opened = {first, second}
    <3>1. CASE \E code : command' = [both EXCEPT !.doing = "ended", !.code = code]
      <4>1. PICK code : command' = [both EXCEPT !.doing = "ended", !.code = code]
        BY <3>1
      <4> QED BY <2>3, <4>1, ExceptKeeps DEF CommandFields
    <3>2. CASE \E results : command' = [both EXCEPT !.doing = "comparison",
                                      !.todo = << >>, !.results = results]
      <4>1. PICK results : command' = [both EXCEPT !.doing = "comparison",
                                         !.todo = << >>, !.results = results]
        BY <3>2
      <4> QED BY <2>3, <4>1, ExceptKeeps DEF CommandFields
    <3> QED BY <2>1, <3>1, <3>2
  <2> QED BY <2>2, <2>4, OpeningConsents
<1> QED BY <1>3, <1>4, <1>5

LEMMA SavingConsents == ConsentInv /\ Save => ConsentInv'
<1> SUFFICES ASSUME ConsentInv, Save PROVE ConsentInv'
  OBVIOUS
<1>1. Shape
  BY DEF ConsentInv
<1>2. PICK code : command' = [End(code) EXCEPT !.saved = TRUE]
  BY DEF Save
<1>3. /\ DOMAIN command' = CommandFields
      /\ \A k \in {"hosted", "options", "suite", "opened"} :
           command'[k] = command[k]
  BY <1>1, <1>2, EndKeeps, ExceptKeeps DEF CommandFields
<1> QED BY <1>3, ConsentIsKept

(* What breaks from outside ends the command as it is, with the provider it*)
(* came from among those that were built.                                  *)
Breaks == ServerBreaks \/ CascadeBreaks \/ SaveFails

LEMMA BrokenKeeps ==
  ASSUME Shape
  PROVE  /\ DOMAIN Broken = CommandFields
         /\ \A k \in CommandFields \ {"doing", "code", "broken"} :
              Broken[k] = command[k]
         /\ Broken.doing = "ended" /\ Broken.broken = TRUE
<1> DEFINE ended == End(INTERNAL_ERROR)
<1>1. /\ DOMAIN ended = CommandFields
      /\ \A k \in CommandFields \ {"doing", "code"} : ended[k] = command[k]
  BY EndKeeps
<1>2. ended["doing"] = "ended"
  BY DEF End, Shape, CommandFields
<1>3. Broken = [ended EXCEPT !["broken"] = TRUE]
  BY DEF Broken
<1> HIDE DEF ended
<1> QED BY <1>1, <1>2, <1>3, ExceptKeeps DEF CommandFields

LEMMA BreakingOpens ==
  ASSUME Breaks
  PROVE  \E built :
           /\ \A m \in built : \E dir : Build(m, dir, command.hosted) = SUCCESS
           /\ \/ command' = Broken
              \/ \E opened : /\ command' = [Broken EXCEPT !["opened"] = opened]
                             /\ opened \subseteq Broken.opened \cup built
<1>1. CASE ServerBreaks
  <2> DEFINE model == Head(command.todo)
             built == {model}
             opened == Broken.opened \cup {model}
  <2>1. /\ Build(model, command.dir, command.hosted) = SUCCESS
        /\ command' = [Broken EXCEPT !["opened"] = opened]
    BY <1>1 DEF ServerBreaks
  <2>2. opened \subseteq Broken.opened \cup built
    OBVIOUS
  <2>3. \A m \in built : \E dir : Build(m, dir, command.hosted) = SUCCESS
    BY <2>1
  <2> QED BY <2>1, <2>2, <2>3
<1>2. CASE CascadeBreaks
  <2>1. PICK c \in command.suite.cascade :
          /\ \A m \in {ModelByAlias(command.suite, c.first),
                      ModelByAlias(command.suite, c.second)} :
               Build(m, command.dir, command.hosted) = SUCCESS
          /\ command' = [Broken EXCEPT
                !.opened = {ModelByAlias(command.suite, c.first),
                            ModelByAlias(command.suite, c.second)}]
    BY <1>2 DEF CascadeBreaks
  <2> DEFINE built == {ModelByAlias(command.suite, c.first),
                       ModelByAlias(command.suite, c.second)}
  <2>2. command' = [Broken EXCEPT !["opened"] = built]
    BY <2>1
  <2>3. \A m \in built : \E dir : Build(m, dir, command.hosted) = SUCCESS
    BY <2>1
  <2> HIDE DEF built
  <2> QED BY <2>2, <2>3
<1>3. CASE SaveFails
  <2> DEFINE none == {}
  <2>1. command' = Broken
    BY <1>3 DEF SaveFails
  <2>2. \A m \in none : \E dir : Build(m, dir, command.hosted) = SUCCESS
    OBVIOUS
  <2> HIDE DEF none
  <2> QED BY <2>1, <2>2
<1> QED BY <1>1, <1>2, <1>3 DEF Breaks

LEMMA BreakingConsents == ConsentInv /\ Breaks => ConsentInv'
<1> SUFFICES ASSUME ConsentInv, Breaks PROVE ConsentInv'
  OBVIOUS
<1>1. Shape
  BY DEF ConsentInv
<1>2. PICK built :
        /\ \A m \in built : \E dir : Build(m, dir, command.hosted) = SUCCESS
        /\ \/ command' = Broken
           \/ \E opened : /\ command' = [Broken EXCEPT !["opened"] = opened]
                          /\ opened \subseteq Broken.opened \cup built
  BY BreakingOpens
<1>3. /\ DOMAIN command' = CommandFields
      /\ \A k \in {"hosted", "options", "suite"} : command'[k] = command[k]
      /\ command'.opened \subseteq command.opened \cup built
  BY <1>1, <1>2, BrokenKeeps, ExceptKeeps DEF CommandFields
<1> QED BY <1>2, <1>3, OpeningConsents

-----------------------------------------------------------------------------
LEMMA ConsentInvariant == Spec => []ConsentInv
<1>1. Init => ConsentInv
  BY IdleFields DEF Init, ConsentInv, Shape, Consented, BuiltByConsent, Idle
<1>2. ConsentInv /\ [Next]_vars => ConsentInv'
  <2> SUFFICES ASSUME ConsentInv, [Next]_vars PROVE ConsentInv'
    OBVIOUS
  <2>1. CASE EditFixture \/ ServerChanges \/ UNCHANGED vars
    BY <2>1 DEF EditFixture, ServerChanges, vars, ConsentInv, Shape,
                Consented, BuiltByConsent
  <2>2. CASE \E options \in Invocations : StartRun(suiteFile, options)
    BY <2>2, StartingConsents
  <2>3. CASE \E r \in DOMAIN runs : Reproduce(r)
    BY <2>3, StartingConsents
  <2>4. CASE CheckModel
    BY <2>4, CheckingConsents
  <2>5. CASE EndDryRun
    BY <2>5, EndConsents DEF EndDryRun
  <2>6. CASE RunModel
    BY <2>6, RunningConsents
  <2>7. CASE RunCascade
    BY <2>7, CascadingConsents
  <2>8. CASE Save
    BY <2>8, SavingConsents
  <2>9. CASE Breaks
    BY <2>9, BreakingConsents
  <2> QED
    BY <2>1, <2>2, <2>3, <2>4, <2>5, <2>6, <2>7, <2>8, <2>9 DEF Next, Breaks
<1> QED BY <1>1, <1>2, PTL DEF Spec

(* Whatever suites hold, options say and servers do, `run`, its dry run and *)
(* `reproduce` build the OpenAI-compatible provider of an external endpoint*)
(* only with both consents, and none of a hosted service.  (That other     *)
(* adapters ask for none is what DataStaysWithoutConsent is about.)        *)
THEOREM BothConsentsAreNeeded == Spec => []CompatibleNeedsBothConsents
<1>1. ConsentInv => CompatibleNeedsBothConsents
  BY DEF ConsentInv, Consented, BuiltByConsent, Permitted,
         CompatibleNeedsBothConsents
<1> QED BY <1>1, ConsentInvariant, PTL

-----------------------------------------------------------------------------
(* What the steps do, field by field. A command keeps what it was started  *)
(* with.                                                                   *)
Kept ==
  \A k \in {"suite", "dir", "options", "origin", "hosted", "chosen"} :
    command'[k] = command[k]

LEMMA EndFacts ==
  ASSUME Shape, NEW code, command' = End(code)
  PROVE  Kept /\ command'.doing = "ended" /\ command'.saved = command.saved
<1> DEFINE ended == [command EXCEPT !["doing"] = "ended"]
<1>1. DOMAIN ended = CommandFields /\ ended["doing"] = "ended"
  BY ExceptKeeps DEF Shape, CommandFields
<1>2. command' = [ended EXCEPT !["code"] = code]
  BY DEF End
<1> HIDE DEF ended
<1>3. command'.doing = "ended"
  BY <1>1, <1>2, ExceptKeeps
<1> QED BY <1>3, EndKeeps DEF CommandFields, Kept

LEMMA BeginFacts ==
  ASSUME NEW doing, NEW suite, NEW dir, NEW origin, NEW options, NEW hosted,
         NEW only,
         Begin(doing, suite, dir, origin, options, hosted, only)
  PROVE  /\ command'.doing = doing /\ command'.suite = suite
         /\ command'.dir = dir /\ command'.origin = origin
         /\ command'.options = options /\ command'.hosted = hosted
         /\ command'.chosen = Chosen(suite, only)
         /\ command'.todo = (IF doing = "dry_run" THEN suite.models
                             ELSE Chosen(suite, only))
         /\ command'.results = << >> /\ command'.saved = FALSE
         /\ command'.unavailable = FALSE
<1> DEFINE chosen == Chosen(suite, only)
           todo == IF doing = "dry_run" THEN suite.models ELSE chosen
<1>1. command' = [Idle EXCEPT !.doing = doing, !.suite = suite, !.dir = dir,
                              !.origin = origin, !.options = options,
                              !.hosted = hosted, !.chosen = chosen,
                              !.todo = todo]
  BY DEF Begin
<1> HIDE DEF chosen, todo
<1>2. /\ command'.doing = doing /\ command'.suite = suite
      /\ command'.dir = dir /\ command'.origin = origin
      /\ command'.options = options /\ command'.hosted = hosted
      /\ command'.chosen = chosen /\ command'.todo = todo
  BY <1>1 DEF Idle
<1>3. /\ command'.results = << >> /\ command'.saved = FALSE
      /\ command'.unavailable = FALSE
  BY <1>1 DEF Idle
<1> QED BY <1>2, <1>3 DEF chosen, todo

(* The suite a command works on, if it is not refused.                     *)
Doing(options, suite, only) ==
  IF options.dry THEN "dry_run"
  ELSE IF IsCascade(suite, Chosen(suite, only)) THEN "cascade"
  ELSE "comparison"
Known(options) == options.only \in AliasesOf(suiteFile) \cup {NoName}

LEMMA StartFacts ==
  ASSUME NEW options, StartRun(suiteFile, options)
  PROVE  \/ /\ ~ValidSuite(suiteFile) \/ (~options.dry /\ ~Known(options))
            /\ command'.doing = "ended" /\ command'.saved = FALSE
            /\ command'.suite = suiteFile /\ command'.options = options
            /\ command'.origin = Here
         \/ /\ ValidSuite(suiteFile) /\ (options.dry \/ Known(options))
            /\ LET suite == Overridden(suiteFile, options)
               IN  Begin(Doing(options, suite, options.only), suite, Here, Here,
                         options, HostedEnabled(suite, options), options.only)
<1> DEFINE suite == Overridden(suiteFile, options)
           unknown == options.only \notin AliasesOf(suiteFile) \cup {NoName}
<1>1. CASE ~ValidSuite(suiteFile) \/ (~options.dry /\ unknown)
  <2>1. command' = [Idle EXCEPT !.doing = "ended", !.code = INVALID_INPUT,
                                !.suite = suiteFile, !.options = options]
    BY <1>1 DEF StartRun
  <2>2. /\ command'.doing = "ended" /\ command'.saved = FALSE
        /\ command'.suite = suiteFile /\ command'.options = options
        /\ command'.origin = Here
    BY <2>1 DEF Idle
  <2> QED BY <1>1, <2>2 DEF Known
<1>2. CASE ValidSuite(suiteFile) /\ (options.dry \/ ~unknown)
  <2> HIDE DEF suite
  <2>1. Begin(Doing(options, suite, options.only), suite, Here, Here, options,
              HostedEnabled(suite, options), options.only)
    BY <1>2 DEF StartRun, Doing, suite
  <2> QED BY <1>2, <2>1 DEF Known, suite
<1> QED BY <1>1, <1>2

LEMMA ReproduceFacts ==
  ASSUME NEW r, Reproduce(r)
  PROVE  \/ /\ ~FieldsValid(runs[r].suite)
            /\ command'.doing = "ended" /\ command'.origin = r
            /\ command'.options = NoOptions
         \/ /\ FieldsValid(runs[r].suite)
            /\ \E doing \in {"cascade", "comparison"} :
                 /\ doing = Doing(NoOptions, runs[r].suite, NoName)
                 /\ Begin(doing, runs[r].suite, r, r, NoOptions, FALSE, NoName)
<1> DEFINE suite == runs[r].suite
<1>1. CASE ~FieldsValid(suite)
  <2>1. command' = [Idle EXCEPT !.doing = "ended", !.suite = suite,
                                !.origin = r, !.code = INTERNAL_ERROR]
    BY <1>1 DEF Reproduce
  <2>2. /\ command'.doing = "ended" /\ command'.origin = r
        /\ command'.options = NoOptions
    BY <2>1 DEF Idle
  <2> QED BY <1>1, <2>2
<1>2. CASE FieldsValid(suite)
  <2>1. Begin(IF IsCascade(suite, suite.models) THEN "cascade" ELSE "comparison",
              suite, r, r, NoOptions, FALSE, NoName)
    BY <1>2 DEF Reproduce
  <2>2. Chosen(suite, NoName) = suite.models /\ ~NoOptions.dry
    BY DEF Chosen, NoOptions
  <2>3. Doing(NoOptions, suite, NoName) =
          IF IsCascade(suite, suite.models) THEN "cascade" ELSE "comparison"
    BY <2>2 DEF Doing
  <2> HIDE DEF suite
  <2>4. Doing(NoOptions, suite, NoName) \in {"cascade", "comparison"}
    BY <2>3
  <2>5. Begin(Doing(NoOptions, suite, NoName), suite, r, r, NoOptions, FALSE,
              NoName)
    BY <2>1, <2>3
  <2>6. \E doing \in {"cascade", "comparison"} :
          /\ doing = Doing(NoOptions, suite, NoName)
          /\ Begin(doing, suite, r, r, NoOptions, FALSE, NoName)
    BY <2>4, <2>5
  <2> QED BY <1>2, <2>6 DEF suite
<1> QED BY <1>1, <1>2

LEMMA CheckFacts ==
  ASSUME Shape, CheckModel
  PROVE  /\ Kept /\ command'.saved = command.saved
         /\ command.doing = "dry_run" /\ command.todo # << >>
         /\ \/ command'.doing = "ended"
            \/ /\ command'.doing = "dry_run"
               /\ command'.todo = Tail(command.todo)
               /\ ~command'.unavailable =>
                    /\ ~command.unavailable
                    /\ Build(Head(command.todo), Here, command.hosted) = SUCCESS
                    /\ Healthy(Head(command.todo))
<1> DEFINE model == Head(command.todo)
           built == Build(model, Here, command.hosted)
           doubt == command.unavailable \/ built # SUCCESS \/ ~Healthy(model)
<1>1. command.doing = "dry_run" /\ command.todo # << >>
  BY DEF CheckModel, Checking
<1>2. CASE built \in {INVALID_INPUT, INTERNAL_ERROR}
  <2>1. command' = End(built)
    BY <1>2 DEF CheckModel
  <2> HIDE DEF built
  <2>2. Kept /\ command'.doing = "ended" /\ command'.saved = command.saved
    BY <2>1, EndFacts
  <2> QED BY <1>1, <2>2
<1>3. CASE built \notin {INVALID_INPUT, INTERNAL_ERROR}
  <2> DEFINE opened == command.opened \cup {m \in {model} : built = SUCCESS}
             rest == Tail(command.todo)
  <2>1. command' = [command EXCEPT !.todo = rest, !.opened = opened,
                                   !.unavailable = doubt]
    BY <1>3 DEF CheckModel
  <2> HIDE DEF built, model, doubt, opened, rest
  <2>2. /\ Kept /\ command'.saved = command.saved
        /\ command'.doing = command.doing
        /\ command'.todo = rest
        /\ command'.unavailable = doubt
    BY <2>1 DEF Shape, CommandFields, Kept
  <2>3. ~command'.unavailable =>
          ~command.unavailable /\ built = SUCCESS /\ Healthy(model)
    BY <2>2 DEF doubt
  <2> QED BY <1>1, <2>2, <2>3 DEF built, model, rest
<1> QED BY <1>2, <1>3

Count(suite) == suite.cases * Calls(suite.repetitions)

LEMMA RunFacts ==
  ASSUME Shape, RunModel
  PROVE  LET model == Head(command.todo)
             built == Build(model, command.dir, command.hosted)
             wrong == Raises(model, command.dir) /\ Count(command.suite) > 0
         IN  /\ Kept /\ command'.saved = command.saved
             /\ command.doing = "comparison" /\ command.todo # << >>
             /\ \/ command'.doing = "ended" /\ (built # SUCCESS \/ wrong)
                \/ /\ command'.doing = "comparison"
                   /\ built = SUCCESS /\ ~wrong
                   /\ command'.todo = Tail(command.todo)
                   /\ \E status \in Statuses(model, command.dir) :
                        command'.results =
                          Append(command.results,
                                 Batch(model, status, Count(command.suite)))
<1> DEFINE model == Head(command.todo)
           built == Build(model, command.dir, command.hosted)
           count == Count(command.suite)
           wrong == Raises(model, command.dir) /\ count > 0
           code == RaisedCode(model, command.dir)
           rest == Tail(command.todo)
           opened == command.opened \cup {model}
           More(status) == Append(command.results, Batch(model, status, count))
<1>1. /\ command.doing = "comparison" /\ command.todo # << >>
      /\ \/ built # SUCCESS /\ command' = End(built)
         \/ /\ wrong
            /\ command' = [End(code) EXCEPT
                             !.opened = End(code).opened \cup {model}]
         \/ /\ built = SUCCESS /\ ~wrong
            /\ \E status \in Statuses(model, command.dir) :
                 command' = [command EXCEPT !.todo = rest, !.opened = opened,
                                            !.results = More(status)]
  BY DEF RunModel, Count
<1> HIDE DEF model, built, count, wrong, code, rest, opened, More
<1>2. CASE built # SUCCESS /\ command' = End(built)
  <2>1. Kept /\ command'.doing = "ended" /\ command'.saved = command.saved
    BY <1>2, EndFacts
  <2> QED BY <1>1, <1>2, <2>1 DEF built, model
<1>3. CASE /\ wrong
           /\ command' = [End(code) EXCEPT
                            !.opened = End(code).opened \cup {model}]
  <2> DEFINE ended == End(code)
  <2>1. /\ DOMAIN ended = CommandFields
        /\ \A k \in CommandFields \ {"doing", "code"} : ended[k] = command[k]
    BY EndKeeps
  <2>2. ended["doing"] = "ended"
    BY DEF End, Shape, CommandFields
  <2> DEFINE more == ended.opened \cup {model}
  <2>3. command' = [ended EXCEPT !["opened"] = more]
    BY <1>3
  <2> HIDE DEF ended, more
  <2>4. /\ \A k \in CommandFields \ {"opened"} : command'[k] = ended[k]
    BY <2>1, <2>3, ExceptKeeps
  <2>5. Kept /\ command'.doing = "ended" /\ command'.saved = command.saved
    BY <2>1, <2>2, <2>4 DEF Kept, CommandFields
  <2> QED BY <1>1, <1>3, <2>5 DEF wrong, count, model
<1>4. CASE /\ built = SUCCESS /\ ~wrong
           /\ \E status \in Statuses(model, command.dir) :
                command' = [command EXCEPT !.todo = rest, !.opened = opened,
                                           !.results = More(status)]
  <2>1. PICK status \in Statuses(model, command.dir) :
          command' = [command EXCEPT !.todo = rest, !.opened = opened,
                                     !.results = More(status)]
    BY <1>4
  <2> DEFINE more == More(status)
  <2>2. command' = [command EXCEPT !.todo = rest, !.opened = opened,
                                   !.results = more]
    BY <2>1
  <2> HIDE DEF more
  <2>3. /\ Kept /\ command'.saved = command.saved
        /\ command'.doing = command.doing
        /\ command'.todo = rest /\ command'.results = more
    BY <2>2 DEF Shape, CommandFields, Kept
  <2>4. command'.results =
          Append(command.results, Batch(model, status, count))
    BY <2>3 DEF more, More
  <2> HIDE DEF More
  <2>5. command'.doing = "comparison"
    BY <1>1, <2>3
  <2> QED BY <1>1, <1>4, <2>3, <2>4, <2>5 DEF built, model, wrong, count, rest
<1> QED BY <1>1, <1>2, <1>3, <1>4

(* What a cascade of two models answers: the second stage gets the cases   *)
(* the first escalates.                                                    *)
Answered(suite, c, s, t) ==
  <<Batch(ModelByAlias(suite, c.first), s, suite.cases)>>
  \o (IF s \in c.escalates
      THEN <<Batch(ModelByAlias(suite, c.second), t, suite.cases)>>
      ELSE << >>)

LEMMA CascadeFacts ==
  ASSUME Shape, RunCascade
  PROVE  /\ Kept /\ command'.saved = command.saved
         /\ command.doing = "cascade"
         /\ \E c \in command.suite.cascade :
              LET first == ModelByAlias(command.suite, c.first)
                  second == ModelByAlias(command.suite, c.second)
                  one == Build(first, command.dir, command.hosted)
                  two == Build(second, command.dir, command.hosted)
              IN  \/ /\ command'.doing = "ended"
                     /\ \/ one # SUCCESS \/ two # SUCCESS
                        \/ Raises(first, command.dir)
                        \/ /\ Raises(second, command.dir)
                           /\ \E s \in Statuses(first, command.dir) :
                                s \in c.escalates
                  \/ /\ one = SUCCESS /\ two = SUCCESS
                     /\ ~Raises(first, command.dir)
                     /\ command'.doing = "comparison"
                     /\ command'.todo = << >>
                     /\ \E s \in Statuses(first, command.dir),
                           t \in Statuses(second, command.dir) :
                          /\ s \in c.escalates => ~Raises(second, command.dir)
                          /\ command'.results = Answered(command.suite, c, s, t)
<1> DEFINE First(c) == ModelByAlias(command.suite, c.first)
           Second(c) == ModelByAlias(command.suite, c.second)
           Builds(m) == Build(m, command.dir, command.hosted)
           Both(c) == [command EXCEPT !.opened = {First(c), Second(c)}]
           Wrong(m) == Raises(m, command.dir)
           Ways(m) == Statuses(m, command.dir)
<1>1. command.doing = "cascade"
  BY DEF RunCascade
<1>2. PICK c \in command.suite.cascade :
        \/ /\ Builds(First(c)) # SUCCESS
           /\ command' = End(Builds(First(c)))
        \/ /\ Builds(First(c)) = SUCCESS
           /\ Builds(Second(c)) # SUCCESS
           /\ command' = [End(Builds(Second(c))) EXCEPT !.opened = {First(c)}]
        \/ /\ Builds(First(c)) = SUCCESS
           /\ Builds(Second(c)) = SUCCESS
           /\ \/ /\ \/ Wrong(First(c))
                    \/ /\ Wrong(Second(c))
                       /\ \E s \in Ways(First(c)) : s \in c.escalates
                 /\ \E code : command' = [Both(c) EXCEPT !.doing = "ended",
                                                         !.code = code]
              \/ /\ ~Wrong(First(c))
                 /\ \E s \in Ways(First(c)), t \in Ways(Second(c)) :
                      /\ s \in c.escalates => ~Wrong(Second(c))
                      /\ command' = [Both(c) EXCEPT !.doing = "comparison",
                           !.todo = << >>,
                           !.results = Answered(command.suite, c, s, t)]
  BY DEF RunCascade, Answered
<1> DEFINE first == First(c)
           second == Second(c)
           one == Builds(first)
           two == Builds(second)
           opened == {first, second}
           both == [command EXCEPT !["opened"] = opened]
<1> HIDE DEF First, Second, Builds, Wrong, Ways
<1>3. CASE one # SUCCESS
  <2>1. command' = End(one)
    BY <1>2, <1>3
  <2> HIDE DEF one
  <2>2. Kept /\ command'.doing = "ended" /\ command'.saved = command.saved
    BY <2>1, EndFacts
  <2> QED BY <1>1, <1>3, <2>2 DEF one, first, First, Builds
<1>4. CASE one = SUCCESS /\ two # SUCCESS
  <2> DEFINE ended == End(two)
             some == {first}
  <2>1. command' = [ended EXCEPT !["opened"] = some]
    BY <1>2, <1>4
  <2> HIDE DEF first, two, some
  <2>2. /\ DOMAIN ended = CommandFields
        /\ \A k \in CommandFields \ {"doing", "code"} : ended[k] = command[k]
    BY EndKeeps
  <2>3. ended["doing"] = "ended"
    BY DEF End, Shape, CommandFields
  <2> HIDE DEF ended
  <2>4. \A k \in CommandFields \ {"opened"} : command'[k] = ended[k]
    BY <2>1, <2>2, ExceptKeeps
  <2>5. Kept /\ command'.doing = "ended" /\ command'.saved = command.saved
    BY <2>2, <2>3, <2>4 DEF Kept, CommandFields
  <2> QED BY <1>1, <1>4, <2>5 DEF two, second, Second, Builds
<1>5. /\ DOMAIN both = CommandFields
      /\ \A k \in CommandFields \ {"opened"} : both[k] = command[k]
  BY ExceptKeeps DEF Shape
<1>6. CASE /\ one = SUCCESS /\ two = SUCCESS
           /\ \/ Wrong(first)
              \/ Wrong(second) /\ \E s \in Ways(first) : s \in c.escalates
           /\ \E code : command' = [both EXCEPT !.doing = "ended", !.code = code]
  <2> HIDE DEF both
  <2>0. PICK code : command' = [both EXCEPT !.doing = "ended", !.code = code]
    BY <1>6
  <2>1. /\ Kept /\ command'.doing = "ended"
        /\ command'.saved = command.saved
    BY <1>5, <2>0 DEF Kept, CommandFields
  <2> QED BY <1>1, <1>6, <2>1 DEF first, second, First, Second, Wrong, Ways
<1>7. CASE /\ one = SUCCESS /\ two = SUCCESS /\ ~Wrong(first)
           /\ \E s \in Ways(first), t \in Ways(second) :
                /\ s \in c.escalates => ~Wrong(second)
                /\ command' = [both EXCEPT !.doing = "comparison",
                                 !.todo = << >>,
                                 !.results = Answered(command.suite, c, s, t)]
  <2>1. PICK s \in Ways(first), t \in Ways(second) :
          /\ s \in c.escalates => ~Wrong(second)
          /\ command' = [both EXCEPT !.doing = "comparison", !.todo = << >>,
                           !.results = Answered(command.suite, c, s, t)]
    BY <1>7
  <2> DEFINE results == Answered(command.suite, c, s, t)
  <2>2. command' = [both EXCEPT !.doing = "comparison", !.todo = << >>,
                                !.results = results]
    BY <2>1
  <2> HIDE DEF both, results
  <2>3. /\ Kept /\ command'.doing = "comparison"
        /\ command'.todo = << >> /\ command'.results = results
        /\ command'.saved = command.saved
    BY <1>5, <2>2 DEF Kept, CommandFields
  <2>4. \E v \in Ways(first), w \in Ways(second) :
          /\ v \in c.escalates => ~Wrong(second)
          /\ command'.results = Answered(command.suite, c, v, w)
    BY <2>1, <2>3 DEF results
  <2> QED BY <1>1, <1>7, <2>3, <2>4
          DEF one, two, first, second, First, Second, Builds, Wrong, Ways
<1>8. QED
  <2>1. both = Both(c)
    OBVIOUS
  <2> HIDE DEF both, Both
  <2> QED BY <1>2, <1>3, <1>4, <1>6, <1>7, <2>1 DEF first, second, one, two

LEMMA SaveFacts ==
  ASSUME Shape, Save
  PROVE  /\ Kept /\ command'.doing = "ended" /\ command'.saved = TRUE
         /\ command'.results = command.results
         /\ command.doing = "comparison" /\ command.todo = << >>
<1>1. /\ command.doing = "comparison" /\ command.todo = << >>
      /\ \E code : command' = [End(code) EXCEPT !.saved = TRUE]
  BY DEF Save
<1>2. PICK code : command' = [End(code) EXCEPT !.saved = TRUE]
  BY <1>1
<1> DEFINE ended == End(code)
<1>3. /\ DOMAIN ended = CommandFields
      /\ \A k \in CommandFields \ {"doing", "code"} : ended[k] = command[k]
  BY EndKeeps
<1>4. ended["doing"] = "ended"
  BY DEF End, Shape, CommandFields
<1>5. command' = [ended EXCEPT !["saved"] = TRUE]
  BY <1>2
<1> HIDE DEF ended
<1> QED BY <1>1, <1>3, <1>4, <1>5 DEF Kept, CommandFields

LEMMA DryRunFacts ==
  ASSUME Shape, EndDryRun
  PROVE  /\ Kept /\ command'.doing = "ended" /\ command.doing = "dry_run"
         /\ command.todo = << >>
         /\ foretold' = (IF command.unavailable THEN foretold
                         ELSE foretold \cup {<<command.suite, command.options>>})
<1>1. PICK code : command' = End(code)
  BY DEF EndDryRun
<1>2. Kept /\ command'.doing = "ended"
  BY <1>1, EndFacts
<1> QED BY <1>2 DEF EndDryRun, Checking

LEMMA BreakFacts ==
  ASSUME Shape, Breaks
  PROVE  /\ Kept /\ command'.doing = "ended" /\ command'.broken
         /\ command'.saved = command.saved
         /\ command.doing \in {"dry_run", "cascade", "comparison"}
         /\ UNCHANGED <<suiteFile, file, up, runs, foretold>>
<1>1. /\ command.doing \in {"dry_run", "cascade", "comparison"}
      /\ UNCHANGED <<suiteFile, file, up, runs, foretold>>
  BY DEF Breaks, ServerBreaks, CascadeBreaks, SaveFails, Checking
<1>2. PICK opened : \/ command' = Broken
                    \/ command' = [Broken EXCEPT !["opened"] = opened]
  BY BreakingOpens
<1>3. \A k \in CommandFields \ {"opened"} : command'[k] = Broken[k]
  BY <1>2, BrokenKeeps, ExceptKeeps
<1> QED BY <1>1, <1>3, BrokenKeeps DEF Kept, CommandFields

-----------------------------------------------------------------------------
(* Suites and their snapshots.                                             *)
Apart(suite) ==
  \A i, j \in DOMAIN suite.models :
    suite.models[i].alias = suite.models[j].alias => i = j
Legal(suite) ==
  IsSuite(suite) /\ Apart(suite) /\ References(suite) \subseteq AliasesOf(suite)

LEMMA FoundByAlias ==
  ASSUME NEW suite, NEW a \in AliasesOf(suite)
  PROVE  /\ ModelByAlias(suite, a) \in ToSet(suite.models)
         /\ ModelByAlias(suite, a).alias = a
<1>1. \E m \in ToSet(suite.models) : m.alias = a
  BY DEF AliasesOf
<1> QED BY <1>1 DEF ModelByAlias

(* The options change numbers only.                                        *)
LEMMA OverriddenFacts ==
  ASSUME NEW loaded, IsSuite(loaded), NEW options
  PROVE  LET suite == Overridden(loaded, options)
         IN  /\ DOMAIN suite = DOMAIN loaded
             /\ \A k \in DOMAIN loaded \ {"repetitions", "concurrency"} :
                  suite[k] = loaded[k]
<1> DEFINE often == Override(loaded["repetitions"], options.repetitions)
           wide == Override(loaded["concurrency"], options.concurrency)
           first == [loaded EXCEPT !["repetitions"] = often]
<1>1. /\ DOMAIN first = DOMAIN loaded
      /\ \A k \in DOMAIN loaded \ {"repetitions"} : first[k] = loaded[k]
  BY ExceptKeeps
<1>2. Overridden(loaded, options) = [first EXCEPT !["concurrency"] = wide]
  BY DEF Overridden
<1> HIDE DEF first, wide
<1> QED BY <1>1, <1>2, ExceptKeeps

SuiteFields ==
  {"models", "cases", "mode", "baseline", "replacement", "cascade",
   "repetitions", "concurrency", "allowHosted", "everyCallMustSucceed"}
LEMMA FieldsOfSuites == DOMAIN NoSuite = SuiteFields
BY DEF NoSuite, SuiteFields

LEMMA SameReferences ==
  ASSUME NEW s, NEW t, s.models = t.models, s.baseline = t.baseline,
         s.replacement = t.replacement, s.cascade = t.cascade
  PROVE  /\ AliasesOf(s) = AliasesOf(t) /\ References(s) = References(t)
         /\ Apart(s) <=> Apart(t)
BY DEF AliasesOf, References, Apart

LEMMA OverriddenIsLegal ==
  ASSUME NEW loaded, IsSuite(loaded), ValidSuite(loaded), NEW options
  PROVE  /\ Legal(Overridden(loaded, options))
         /\ Overridden(loaded, options).models = loaded.models
<1> DEFINE suite == Overridden(loaded, options)
<1>1. /\ DOMAIN suite = SuiteFields /\ DOMAIN loaded = SuiteFields
      /\ suite["models"] = loaded["models"]
      /\ suite["baseline"] = loaded["baseline"]
      /\ suite["replacement"] = loaded["replacement"]
      /\ suite["cascade"] = loaded["cascade"]
  BY OverriddenFacts, FieldsOfSuites DEF SuiteFields, IsSuite
<1> HIDE DEF suite
<1>2. /\ AliasesOf(suite) = AliasesOf(loaded)
      /\ References(suite) = References(loaded)
      /\ Apart(suite) <=> Apart(loaded)
  BY <1>1, SameReferences
<1>3. Apart(loaded) /\ References(loaded) \subseteq AliasesOf(loaded)
  BY DEF ValidSuite, Apart
<1>4. IsSuite(suite)
  BY <1>1, FieldsOfSuites DEF IsSuite
<1>5. Legal(suite) /\ suite.models = loaded.models
  BY <1>1, <1>2, <1>3, <1>4 DEF Legal
<1> QED BY <1>5 DEF suite

(* The copy of a model, and what a snapshot makes of a model.              *)
CopyOf(m) == [m EXCEPT !.fixture = CopyName(m), !.copied = TRUE]
Kin(m, n) ==
  /\ n.alias = m.alias /\ n.kind = m.kind
  /\ HasSource(m) => n.fixture = CopyName(m) /\ n.copied
  /\ ~HasSource(m) => n = m

LEMMA JoinedNames ==
  ASSUME NEW s, NEW t, IsList(s), IsList(t)
  PROVE  IsList(s \o t) /\ (t # << >> => s \o t # << >>)
<1> DEFINE S == ToSet(s) \cup ToSet(t)
<1>1. s \in Seq(S) /\ t \in Seq(S)
  BY SeqMonotonic DEF IsList, ToSet
<1> HIDE DEF S
<1>2. s \o t \in Seq(S)
  BY <1>1, ConcatProperties
<1>3. t # << >> => s \o t # << >>
  BY <1>1, ConcatEqualIffEmpty
<1> QED BY <1>2, <1>3, ListOf

LEMMA CopyFacts ==
  ASSUME NEW m, IsModel(m)
  PROVE  /\ IsModel(CopyOf(m)) /\ CopyOf(m).alias = m.alias
         /\ CopyOf(m).kind = m.kind /\ CopyOf(m).fixture = CopyName(m)
         /\ CopyOf(m).copied
<1> DEFINE name == CopyName(m)
<1>1. IsList(name)
  BY JoinedNames DEF CopyName, IsModel
<1>2. CopyOf(m) = [m EXCEPT !.fixture = name, !.copied = TRUE]
  BY DEF CopyOf
<1> HIDE DEF name
<1>3. /\ DOMAIN CopyOf(m) = DOMAIN m
      /\ CopyOf(m).alias = m.alias /\ CopyOf(m).kind = m.kind
      /\ CopyOf(m).fixture = name /\ CopyOf(m).copied = TRUE
  BY <1>2 DEF IsModel
<1>4. IsModel(CopyOf(m))
  BY <1>1, <1>3 DEF IsModel
<1> QED BY <1>3, <1>4 DEF name

LEMMA SnapshotFacts ==
  ASSUME NEW suite, Legal(suite)
  PROVE  LET taken == Snapshot(suite)
         IN  /\ Legal(taken)
             /\ \A k \in SuiteFields \ {"models"} : taken[k] = suite[k]
             /\ DOMAIN taken.models = DOMAIN suite.models
             /\ Len(taken.models) = Len(suite.models)
             /\ \A i \in DOMAIN suite.models :
                  Kin(suite.models[i], taken.models[i])
<1> DEFINE taken == Snapshot(suite)
           old == suite.models
           new == [i \in DOMAIN old |->
                     IF HasSource(old[i]) THEN CopyOf(old[i]) ELSE old[i]]
<1>1. taken = [suite EXCEPT !["models"] = new]
  BY DEF Snapshot, CopyOf
<1>2. /\ IsList(old) /\ DOMAIN suite = SuiteFields
      /\ \A m \in ToSet(old) : IsModel(m)
  BY FieldsOfSuites DEF Legal, IsSuite
<1>3. /\ Len(old) \in Nat /\ DOMAIN old = 1 .. Len(old)
      /\ \A i \in DOMAIN old : IsModel(old[i])
  BY <1>2, Lists
<1>4. DOMAIN new = DOMAIN old
  OBVIOUS
<1>5. \A i \in DOMAIN old :
        new[i] = IF HasSource(old[i]) THEN CopyOf(old[i]) ELSE old[i]
  OBVIOUS
<1>6. new = [i \in 1 .. Len(old) |-> new[i]]
  BY <1>3
<1> HIDE DEF new
<1>7. IsList(new) /\ Len(new) = Len(old)
  BY <1>3, <1>6, FunctionList
<1>8. \A i \in DOMAIN old : IsModel(new[i]) /\ Kin(old[i], new[i])
  BY <1>3, <1>5, CopyFacts DEF Kin
<1>9. /\ DOMAIN taken = SuiteFields /\ taken["models"] = new
      /\ \A k \in SuiteFields \ {"models"} : taken[k] = suite[k]
  BY <1>1, <1>2, ExceptKeeps DEF SuiteFields
<1> HIDE DEF taken
<1>10. IsSuite(taken)
  <2>1. taken.models = new /\ taken.cascade = suite.cascade
    BY <1>9 DEF SuiteFields
  <2>2. \A m \in ToSet(new) : IsModel(m)
    BY <1>4, <1>8 DEF ToSet
  <2> QED BY <1>7, <1>9, <2>1, <2>2, FieldsOfSuites DEF IsSuite, Legal
<1>11. \A i \in DOMAIN old : new[i].alias = old[i].alias
  BY <1>8 DEF Kin
<1>12. AliasesOf(taken) = AliasesOf(suite)
  <2>1. AliasesOf(suite) = {old[i].alias : i \in DOMAIN old}
    BY DEF AliasesOf, ToSet
  <2>2. AliasesOf(taken) = {new[i].alias : i \in DOMAIN new}
    BY <1>9 DEF AliasesOf, ToSet
  <2> QED BY <1>4, <1>11, <2>1, <2>2
<1>13. Apart(taken)
  BY <1>4, <1>9, <1>11 DEF Apart, Legal
<1>14. References(taken) = References(suite)
  BY <1>9 DEF References, SuiteFields
<1>15. Legal(taken)
  BY <1>10, <1>12, <1>13, <1>14 DEF Legal
<1> QED BY <1>4, <1>7, <1>8, <1>9, <1>15 DEF taken

-----------------------------------------------------------------------------
(* What a command works on, until it has ended: for `run` the suite file as*)
(* it was validated, with the options, in the directory of the user's      *)
(* files; for `reproduce` the suite of a saved run, as it is, in the       *)
(* directory of that run.                                                  *)
Busy == command.doing \in {"dry_run", "cascade", "comparison"}
OfFile ==
  /\ command.origin = Here /\ command.dir = Here
  /\ command.options \in Invocations /\ ValidSuite(suiteFile)
  /\ command.suite = Overridden(suiteFile, command.options)
  /\ command.hosted = HostedEnabled(command.suite, command.options)
  /\ command.chosen = Chosen(command.suite, command.options.only)
  /\ command.doing = "dry_run" => command.options.dry
  /\ command.doing # "dry_run" =>
       ~command.options.dry /\ Known(command.options)
OfRun ==
  /\ command.doing # "dry_run"
  /\ command.origin \in DOMAIN runs /\ command.dir = command.origin
  /\ command.options = NoOptions
  /\ command.suite = runs[command.origin].suite
  /\ command.hosted = FALSE /\ command.chosen = command.suite.models
  /\ FieldsValid(command.suite)
Ordered == Busy => OfFile \/ OfRun

(* What is still to do is a list of models of the suite.                   *)
Todo ==
  Busy => /\ IsList(command.todo)
          /\ ToSet(command.todo) \subseteq ToSet(command.suite.models)

(* What was saved has decided on all it names, if it was a run of all      *)
(* models.                                                                 *)
Decided(run) ==
  run.options.only = NoName =>
    run.decided = UNION {x.candidates : x \in run.suite.replacement}
Saved == IsList(runs) /\ \A r \in DOMAIN runs : Legal(runs[r].suite) /\ Decided(runs[r])

World == suiteFile \in Suites /\ DOMAIN file = Fixtures
(* What has ended is a command of the user or the reproduction of a run.   *)
OrderInv == World /\ Saved /\ Ordered /\ Todo

LEMMA LegalWork == ASSUME OrderInv, Busy PROVE Legal(command.suite)
<1>1. CASE OfFile
  <2>1. IsSuite(suiteFile)
    BY SuitesAssumption DEF OrderInv, World
  <2> QED BY <1>1, <2>1, OverriddenIsLegal DEF OfFile
<1>2. CASE OfRun
  BY <1>2 DEF OrderInv, Saved, OfRun
<1> QED BY <1>1, <1>2 DEF OrderInv, Ordered

LEMMA ChosenFacts ==
  ASSUME NEW suite, IsSuite(suite), NEW only
  PROVE  /\ IsList(Chosen(suite, only))
         /\ ToSet(Chosen(suite, only)) \subseteq ToSet(suite.models)
<1>1. CASE only = NoName
  BY <1>1 DEF Chosen, IsSuite
<1>2. CASE only # NoName /\ only \in AliasesOf(suite)
  <2> DEFINE m == ModelByAlias(suite, only)
  <2>1. m \in ToSet(suite.models)
    BY <1>2, FoundByAlias
  <2>2. Chosen(suite, only) = <<m>>
    BY <1>2 DEF Chosen
  <2> HIDE DEF m
  <2>3. <<m>> \in Seq({m}) /\ DOMAIN <<m>> = {1} /\ <<m>>[1] = m
    OBVIOUS
  <2>4. IsList(<<m>>)
    BY <2>3, ListOf
  <2> QED BY <2>1, <2>2, <2>3, <2>4 DEF ToSet
<1>3. CASE only # NoName /\ only \notin AliasesOf(suite)
  <2>1. Chosen(suite, only) = << >>
    BY <1>3 DEF Chosen
  <2> QED BY <2>1, NoElements DEF ToSet
<1> QED BY <1>1, <1>2, <1>3

LEMMA SavedStays == ASSUME Saved, UNCHANGED runs PROVE Saved'
<1>1. /\ IsList(runs)' <=> IsList(runs)
      /\ DOMAIN runs' = DOMAIN runs
  BY DEF IsList, ToSet
<1>2. ASSUME NEW r \in DOMAIN runs, Legal(runs[r].suite), Decided(runs[r])
      PROVE  Legal(runs[r].suite)' /\ Decided(runs[r])'
  <2> DEFINE s == runs[r].suite
  <2>0. s' = s
    OBVIOUS
  <2>1. Legal(runs[r].suite)'
    <3>1. Legal(s')
      BY <1>2, <2>0
    <3> QED BY <3>1 DEF Legal, IsSuite, IsModel, IsList, ToSet, Apart, References,
                AliasesOf, NoSuite, NoName
  <2>2. Decided(runs[r])'
    BY <1>2 DEF Decided, NoName
  <2> QED BY <2>1, <2>2
<1> QED BY <1>1, <1>2 DEF Saved

(* A command that goes on working on the same suite.                       *)
LEMMA OrderIsKept ==
  ASSUME OrderInv, Kept, UNCHANGED <<suiteFile, file, runs>>,
         Busy' => Busy,
         Busy' => \/ command'.doing = command.doing
                  \/ command.doing = "cascade" /\ command'.doing = "comparison",
         Busy' => \/ command'.todo = command.todo
                  \/ command'.todo = << >>
                  \/ command.todo # << >> /\ command'.todo = Tail(command.todo)
  PROVE  OrderInv'
<1>1. /\ command'.suite = command.suite /\ command'.dir = command.dir
      /\ command'.options = command.options
      /\ command'.origin = command.origin
      /\ command'.hosted = command.hosted
      /\ command'.chosen = command.chosen
  BY DEF Kept
<1>2. World'
  BY DEF OrderInv, World
<1>3. Saved'
  BY SavedStays DEF OrderInv
<1>4. Ordered'
  <2> SUFFICES ASSUME Busy' PROVE OfFile' \/ OfRun'
    BY DEF Ordered
  <2>1. OfFile \/ OfRun
    BY DEF OrderInv, Ordered
  <2>2. ASSUME OfFile PROVE OfFile'
    <3>1. command'.doing = "dry_run" <=> command.doing = "dry_run"
      BY DEF Busy
    <3>2. Known(command.options)' <=> Known(command.options)
      BY <1>1 DEF Known, AliasesOf
    <3> QED BY <1>1, <2>2, <3>1, <3>2
            DEF OfFile, ValidSuite, FieldsValid, References, AliasesOf,
                Overridden, HostedEnabled, Chosen
  <2>3. ASSUME OfRun PROVE OfRun'
    BY <1>1, <2>3 DEF OfRun, Busy
  <2> QED BY <2>1, <2>2, <2>3
<1>5. Todo'
  <2> SUFFICES ASSUME Busy'
      PROVE  /\ IsList(command'.todo)
             /\ ToSet(command'.todo) \subseteq ToSet(command.suite.models)
    BY <1>1 DEF Todo
  <2>1. /\ IsList(command.todo)
        /\ ToSet(command.todo) \subseteq ToSet(command.suite.models)
    BY DEF OrderInv, Todo
  <2>2. CASE command'.todo = command.todo
    BY <2>1, <2>2
  <2>3. CASE command'.todo = << >>
    BY <2>3, NoElements DEF ToSet
  <2>4. CASE command.todo # << >> /\ command'.todo = Tail(command.todo)
    <3> DEFINE old == command.todo
               rest == Tail(old)
    <3>1. IsList(rest) /\ \A i \in DOMAIN rest : i + 1 \in DOMAIN old /\ rest[i] = old[i + 1]
      BY <2>1, <2>4, TheRest
    <3> HIDE DEF old, rest
    <3>2. ToSet(rest) \subseteq ToSet(old)
      BY <3>1 DEF ToSet
    <3> QED BY <2>1, <2>4, <3>1, <3>2 DEF old, rest
  <2> QED BY <2>2, <2>3, <2>4
<1> QED BY <1>2, <1>3, <1>4, <1>5 DEF OrderInv

LEMMA EndedIsOrdered ==
  ASSUME OrderInv, UNCHANGED <<suiteFile, file, runs>>, command'.doing = "ended"
  PROVE  OrderInv'
<1>1. ~Busy'
  BY DEF Busy
<1>2. Saved'
  BY SavedStays DEF OrderInv
<1> QED BY <1>1, <1>2 DEF OrderInv, World, Ordered, Todo

(* A command that begins is ordered by the user or a saved run.            *)
LEMMA StartIsOrdered ==
  ASSUME OrderInv, NEW options \in Invocations, StartRun(suiteFile, options)
  PROVE  OrderInv'
<1>0. UNCHANGED <<suiteFile, file, runs>>
  BY DEF StartRun
<1>1. CASE command'.doing = "ended"
  BY <1>0, <1>1, EndedIsOrdered
<1>2. CASE command'.doing # "ended"
  <2> DEFINE suite == Overridden(suiteFile, options)
             doing == Doing(options, suite, options.only)
             hosted == HostedEnabled(suite, options)
             only == options.only
  <2>1. /\ ValidSuite(suiteFile) /\ (options.dry \/ Known(options))
        /\ Begin(doing, suite, Here, Here, options, hosted, only)
    BY <1>2, StartFacts
  <2>2. IsSuite(suiteFile)
    BY SuitesAssumption DEF OrderInv, World
  <2>3. Legal(suite)
    BY <2>1, <2>2, OverriddenIsLegal
  <2>4. /\ doing = "dry_run" => options.dry
        /\ doing # "dry_run" => ~options.dry
    BY DEF Doing
  <2> HIDE DEF suite, doing, hosted, only
  <2>5. /\ command'.doing = doing /\ command'.suite = suite
        /\ command'.dir = Here /\ command'.origin = Here
        /\ command'.options = options /\ command'.hosted = hosted
        /\ command'.chosen = Chosen(suite, only)
        /\ command'.todo = (IF doing = "dry_run" THEN suite.models
                            ELSE Chosen(suite, only))
    BY <2>1, BeginFacts
  <2>6. World' /\ Saved'
    BY <1>0, SavedStays DEF OrderInv, World
  <2>7. OfFile'
    <3>1. Known(options)' <=> Known(options)
      BY <1>0 DEF Known, AliasesOf, NoName, ToSet
    <3>2. ValidSuite(suiteFile)'
      <4>1. ValidSuite(suiteFile')
        BY <1>0, <2>1
      <4> QED BY <4>1 DEF ValidSuite, FieldsValid, References, AliasesOf, ToSet, NoName
    <3>3. command'.suite = Overridden(suiteFile', options)
      BY <1>0, <2>5 DEF suite
    <3>4. /\ command'.hosted = HostedEnabled(command'.suite, command'.options)
          /\ command'.chosen = Chosen(command'.suite, command'.options.only)
      BY <2>5 DEF hosted, only
    <3>5. /\ command'.doing = "dry_run" => command'.options.dry
          /\ command'.doing # "dry_run" =>
               ~command'.options.dry /\ Known(command.options)'
      <4>1. Known(command.options)' <=> Known(options)'
        BY <2>5 DEF Known
      <4> QED BY <2>1, <2>4, <2>5, <3>1, <4>1
    <3>6. (command.suite = Overridden(suiteFile, command.options))'
      BY <3>3, <2>5 DEF Overridden, Override
    <3>7. (/\ command.hosted = HostedEnabled(command.suite, command.options)
           /\ command.chosen = Chosen(command.suite, command.options.only))'
      BY <3>4 DEF HostedEnabled, Chosen, AliasesOf, ModelByAlias, NoName, ToSet
    <3>8. Here' = Here
      BY DEF Here
    <3> QED BY <2>5, <3>2, <3>5, <3>6, <3>7, <3>8 DEF OfFile
  <2>8. Todo'
    <3>1. IsSuite(suite)
      BY <2>3 DEF Legal
    <3>2. /\ IsList(command'.todo)
          /\ ToSet(command'.todo) \subseteq ToSet(command'.suite.models)
      BY <2>5, <3>1, ChosenFacts DEF IsSuite
    <3> QED BY <3>2 DEF Todo, IsList, ToSet
  <2> QED BY <2>6, <2>7, <2>8 DEF OrderInv, Ordered
<1> QED BY <1>1, <1>2

LEMMA ReproducingIsOrdered ==
  ASSUME OrderInv, NEW r \in DOMAIN runs, Reproduce(r)
  PROVE  OrderInv'
<1>0. UNCHANGED <<suiteFile, file, runs>>
  BY DEF Reproduce
<1>1. CASE command'.doing = "ended"
  BY <1>0, <1>1, EndedIsOrdered
<1>2. CASE command'.doing # "ended"
  <2> DEFINE suite == runs[r].suite
  <2>1. PICK doing \in {"cascade", "comparison"} :
          /\ FieldsValid(suite)
          /\ Begin(doing, suite, r, r, NoOptions, FALSE, NoName)
    BY <1>2, ReproduceFacts
  <2>2. Legal(suite)
    BY DEF OrderInv, Saved
  <2> DEFINE no == FALSE
  <2>0. Begin(doing, suite, r, r, NoOptions, no, NoName)
    BY <2>1
  <2> HIDE DEF suite, no
  <2>3. /\ command'.doing = doing /\ command'.suite = suite
        /\ command'.dir = r /\ command'.origin = r
        /\ command'.options = NoOptions /\ command'.hosted = no
        /\ command'.chosen = Chosen(suite, NoName)
        /\ command'.todo = (IF doing = "dry_run" THEN suite.models
                            ELSE Chosen(suite, NoName))
    BY <2>0, BeginFacts
  <2>4. Chosen(suite, NoName) = suite.models
    BY DEF Chosen
  <2>5. World' /\ Saved'
    BY <1>0, SavedStays DEF OrderInv, World
  <2>6. OfRun'
    <3>1. FieldsValid(command'.suite)
      BY <2>1, <2>3
    <3>2. FieldsValid(command.suite)'
      BY <3>1 DEF FieldsValid
    <3>3. command'.suite = runs'[command'.origin].suite
      BY <1>0, <2>3 DEF suite
    <3>4. (command.options = NoOptions)'
      BY <2>3 DEF NoOptions, NoName
    <3> QED BY <1>0, <2>3, <2>4, <3>2, <3>3, <3>4 DEF OfRun, no
  <2>7. Todo'
    <3>1. /\ IsList(command'.todo)
          /\ ToSet(command'.todo) \subseteq ToSet(command'.suite.models)
      BY <2>2, <2>3, <2>4 DEF Legal, IsSuite
    <3> QED BY <3>1 DEF Todo, IsList, ToSet
  <2> QED BY <2>5, <2>6, <2>7 DEF OrderInv, Ordered
<1> QED BY <1>1, <1>2

(* validate_suite stands behind the decisions: the aliases they look up    *)
(* are all there.                                                          *)
LEMMA AllAreDecided ==
  ASSUME OrderInv, Busy, command.options.only = NoName
  PROVE  Decisions(command.suite)
           = UNION {x.candidates : x \in command.suite.replacement}
<1> DEFINE suite == command.suite
<1>1. Legal(suite)
  BY LegalWork
<1>2. command.chosen = suite.models
  BY DEF OrderInv, Ordered, OfFile, OfRun, Chosen
<1>3. Summarised = AliasesOf(suite)
  BY <1>2 DEF Summarised, AliasesOf
<1> HIDE DEF suite
<1>4. \A x \in suite.replacement :
        x.baseline \in Summarised /\ x.candidates \subseteq Summarised
  <2>1. References(suite) \subseteq AliasesOf(suite)
    BY <1>1 DEF Legal
  <2>2. ASSUME NEW x \in suite.replacement
        PROVE  {x.baseline} \cup x.candidates \subseteq References(suite)
    BY DEF References
  <2> QED BY <1>3, <2>1, <2>2
<1>5. \A x \in suite.replacement :
        {a \in x.candidates : a \in Summarised /\ x.baseline \in Summarised}
          = x.candidates
  BY <1>4
<1>6. Decisions(suite) = UNION {x.candidates : x \in suite.replacement}
  BY <1>5 DEF Decisions
<1> QED BY <1>6 DEF suite

LEMMA SavingIsOrdered == ASSUME OrderInv, Shape, Save PROVE OrderInv'
<1> DEFINE suite == command.suite
           taken == Snapshot(suite)
           fixtures == Copies(suite)
           manifest == ManifestOf(taken)
           drift == /\ command.origin # Here
                    /\ runs[command.origin].manifest # [suite |-> suite]
           run == [suite |-> taken, manifest |-> manifest,
                   fixtures |-> fixtures, origin |-> command.origin,
                   results |-> command.results, options |-> command.options,
                   decided |-> Decisions(suite), drift |-> drift]
<1>1. runs' = Append(runs, run) /\ UNCHANGED <<suiteFile, file>>
  BY DEF Save
<1>2. Busy /\ command'.doing = "ended"
  BY SaveFacts DEF Busy
<1>3. Legal(suite)
  BY <1>2, LegalWork
<1>4. Legal(taken) /\ taken.replacement = suite.replacement
  BY <1>3, SnapshotFacts DEF SuiteFields
<1>5. command.options.only = NoName =>
        Decisions(suite) = UNION {x.candidates : x \in suite.replacement}
  BY <1>2, AllAreDecided
<1>6. /\ run.suite = taken /\ run.options = command.options
      /\ run.decided = Decisions(suite)
  OBVIOUS
<1> HIDE DEF run, taken, suite
<1>7. Legal(run.suite) /\ Decided(run)
  BY <1>4, <1>5, <1>6 DEF Decided
<1> DEFINE more == Append(runs, run)
<1>8. /\ IsList(more) /\ DOMAIN more = DOMAIN runs \cup {Len(runs) + 1}
      /\ \A r \in DOMAIN runs : more[r] = runs[r]
      /\ more[Len(runs) + 1] = run
  BY OneMore DEF OrderInv, Saved
<1> HIDE DEF more
<1>9. \A r \in DOMAIN more : Legal(more[r].suite) /\ Decided(more[r])
  BY <1>7, <1>8 DEF OrderInv, Saved
<1>10. runs' = more
  BY <1>1 DEF more
<1>11. Saved'
  <2>1. IsList(runs)'
    BY <1>8, <1>10 DEF IsList, ToSet
  <2>2. ASSUME NEW r \in DOMAIN runs' PROVE Legal(runs[r].suite)' /\ Decided(runs[r])'
    <3>1. Legal(runs'[r].suite) /\ Decided(runs'[r])
      BY <1>9, <1>10
    <3>2. Legal(runs[r].suite)'
      BY <3>1 DEF Legal, IsSuite, IsModel, IsList, ToSet, Apart, References,
                  AliasesOf, NoSuite, NoName
    <3>3. Decided(runs[r])'
      BY <3>1 DEF Decided, NoName
    <3> QED BY <3>2, <3>3
  <2> QED BY <2>1, <2>2 DEF Saved
<1>12. ~Busy'
  BY <1>2 DEF Busy
<1> QED BY <1>1, <1>11, <1>12 DEF OrderInv, World, Ordered, Todo

LEMMA OrderSteps == ConsentInv /\ OrderInv /\ [Next]_vars => OrderInv'
<1> SUFFICES ASSUME ConsentInv, OrderInv, [Next]_vars PROVE OrderInv'
  OBVIOUS
<1>0. Shape
  BY DEF ConsentInv
<1>1. ASSUME UNCHANGED <<suiteFile, file, runs, command>> PROVE OrderInv'
  BY <1>1, OrderIsKept DEF Kept, Busy
<1>2. CASE EditFixture
  <2>1. Saved' /\ DOMAIN file' = DOMAIN file
    BY <1>2, SavedStays DEF EditFixture, OrderInv
  <2>2. ~Busy'
    BY <1>2 DEF EditFixture, AtRest, Busy
  <2> QED BY <1>2, <2>1, <2>2
          DEF EditFixture, OrderInv, World, Ordered, Todo
<1>3. CASE ServerChanges
  BY <1>1, <1>3 DEF ServerChanges
<1>4. CASE \E options \in Invocations : StartRun(suiteFile, options)
  BY <1>4, StartIsOrdered
<1>5. CASE \E r \in DOMAIN runs : Reproduce(r)
  BY <1>5, ReproducingIsOrdered
<1>6. CASE CheckModel
  BY <1>0, <1>6, CheckFacts, OrderIsKept DEF CheckModel, Busy
<1>7. CASE EndDryRun
  BY <1>0, <1>7, DryRunFacts, EndedIsOrdered DEF EndDryRun
<1>8. CASE RunModel
  <2>1. /\ Kept /\ command.doing = "comparison" /\ command.todo # << >>
        /\ \/ command'.doing = "ended"
           \/ /\ command'.doing = "comparison"
              /\ command'.todo = Tail(command.todo)
    BY <1>0, <1>8, RunFacts
  <2> QED BY <1>8, <2>1, OrderIsKept DEF RunModel, Busy
<1>9. CASE RunCascade
  <2>1. /\ Kept /\ command.doing = "cascade"
        /\ \/ command'.doing = "ended"
           \/ command'.doing = "comparison" /\ command'.todo = << >>
    BY <1>0, <1>9, CascadeFacts
  <2> QED BY <1>9, <2>1, OrderIsKept DEF RunCascade, Busy
<1>10. CASE Save
  BY <1>0, <1>10, SavingIsOrdered
<1>11. CASE Breaks
  BY <1>0, <1>11, BreakFacts, EndedIsOrdered
<1>12. CASE UNCHANGED vars
  BY <1>1, <1>12 DEF vars
<1> QED
  BY <1>2, <1>3, <1>4, <1>5, <1>6, <1>7, <1>8, <1>9, <1>10, <1>11, <1>12
  DEF Next, Breaks

LEMMA OrderInvariant == Spec => []OrderInv
<1>1. Init => OrderInv
  <2> SUFFICES ASSUME Init PROVE OrderInv
    OBVIOUS
  <2>1. ~Busy
    BY DEF Init, Idle, Busy
  <2>2. Saved
    BY NoElements DEF Init, Saved
  <2> QED BY <2>1, <2>2 DEF Init, OrderInv, World, Ordered, Todo
<1> QED BY <1>1, OrderSteps, ConsentInvariant, PTL DEF Spec

-----------------------------------------------------------------------------
(* What a dry run has accepted is a legal suite all whose models can be    *)
(* built and answer, and stays so until the world changes.                 *)
Ready(model, hosted) == Build(model, Here, hosted) = SUCCESS /\ Healthy(model)
Accepted(suite, options) ==
  /\ ValidSuite(suiteFile) /\ suite = Overridden(suiteFile, options)
  /\ \A m \in ToSet(suite.models) : Ready(m, HostedEnabled(suite, options))
Foretold == \A p \in foretold : Accepted(p[1], p[2])

(* A dry run has looked at the models that are no longer to do.            *)
Looked ==
  command.doing = "dry_run" /\ ~command.unavailable =>
    \A m \in ToSet(command.suite.models) \ ToSet(command.todo) :
      Ready(m, command.hosted)

PromiseInv == Foretold /\ Looked /\ DryRunPredicts

(* In a world a dry run has accepted, nothing is missing.                  *)
Asked == <<command.suite, [command.options EXCEPT !.dry = TRUE]>>
LEMMA ForetoldIsReady ==
  ASSUME OrderInv, Foretold, Busy, OfFile, Asked \in foretold,
         NEW m \in ToSet(command.suite.models)
  PROVE  Build(m, command.dir, command.hosted) = SUCCESS
<1> DEFINE suite == command.suite
           options == command.options
           dry == [options EXCEPT !.dry = TRUE]
<1>1. Accepted(suite, dry)
  <2>1. Asked[1] = suite /\ Asked[2] = dry
    BY DEF Asked
  <2> QED BY <2>1 DEF Foretold
<1>2. Build(m, Here, HostedEnabled(suite, dry)) = SUCCESS
  BY <1>1 DEF Accepted, Ready
<1>3. "allowHosted" \in DOMAIN options
  BY InvocationsAssumption DEF OfFile, NoOptions
<1>4. dry.allowHosted = options.allowHosted
  BY <1>3
<1>5. HostedEnabled(suite, dry) = HostedEnabled(suite, options)
  BY <1>4 DEF HostedEnabled
<1> QED BY <1>2, <1>5 DEF OfFile

(* Whether the answers of a model raise depends on the files of the user.  *)
LEMMA RaisesStays ==
  ASSUME UNCHANGED file, NEW m
  PROVE  Raises(m, Here)' <=> Raises(m, Here)
<1>1. Source(m, Here)' = Source(m, Here)
  BY DEF Source, Look, Here, NoFile
<1>2. Answers(m, Here)' = Answers(m, Here)
  BY <1>1 DEF Answers, Served, Here, NoName
<1> QED BY <1>2 DEF Raises, Raising

(* A command that ends without having saved has no promise to keep.        *)
Bound ==
  /\ ~command.options.dry /\ command.origin = Here /\ Asked \in foretold
  /\ \A m \in ToSet(command.suite.models) : ~Raises(m, Here)

LEMMA ModelsThatRunAreReady ==
  ASSUME OrderInv, Foretold, Busy, Bound, NEW m \in ToSet(command.suite.models)
  PROVE  /\ Build(m, command.dir, command.hosted) = SUCCESS
         /\ ~Raises(m, command.dir)
<1>1. OfFile
  <2>1. ~OfRun
    <3> SUFFICES ASSUME OfRun PROVE FALSE
      OBVIOUS
    <3>1. command.origin \in 1 .. Len(runs)
      BY Lists DEF OfRun, OrderInv, Saved
    <3> QED BY <3>1 DEF Bound, Here
  <2> QED BY <2>1 DEF OrderInv, Ordered
<1>2. Build(m, command.dir, command.hosted) = SUCCESS
  BY <1>1, ForetoldIsReady DEF Bound
<1>3. ~Raises(m, command.dir)
  BY <1>1 DEF Bound, OfFile
<1> QED BY <1>2, <1>3

LEMMA ReadyStays ==
  ASSUME UNCHANGED <<file, up>>, NEW m, NEW hosted
  PROVE  Ready(m, hosted)' <=> Ready(m, hosted)
<1>1. Source(m, Here)' = Source(m, Here)
  BY DEF Source, Look, Here, NoFile
<1>2. Build(m, Here, hosted)' = Build(m, Here, hosted)
  BY <1>1 DEF Build, BuildDeterministic, BuildCompatible, Here, NoFile,
              NoName, SUCCESS, INVALID_INPUT, INTERNAL_ERROR,
              PROVIDER_UNAVAILABLE
<1>3. Healthy(m)' <=> Healthy(m)
  BY DEF Healthy, Served
<1> QED BY <1>2, <1>3 DEF Ready, SUCCESS

LEMMA ForetoldStays ==
  ASSUME Foretold, UNCHANGED <<suiteFile, file, up, foretold>>
  PROVE  Foretold'
<1> SUFFICES ASSUME NEW p \in foretold PROVE Accepted(p[1], p[2])'
  BY DEF Foretold
<1>1. Accepted(p[1], p[2])
  BY DEF Foretold
<1>2. ValidSuite(suiteFile)'
  <2>1. ValidSuite(suiteFile')
    BY <1>1 DEF Accepted
  <2> QED BY <2>1 DEF ValidSuite, FieldsValid, References, AliasesOf, ToSet, NoName
<1>3. (p[1] = Overridden(suiteFile, p[2]))'
  <2>1. p[1] = Overridden(suiteFile', p[2])
    BY <1>1 DEF Accepted
  <2> QED BY <2>1 DEF Overridden, Override
<1>4. ASSUME NEW m \in ToSet(p[1].models)
      PROVE  Ready(m, HostedEnabled(p[1], p[2]))'
  <2> DEFINE hosted == HostedEnabled(p[1], p[2])
  <2>1. Ready(m, hosted) /\ hosted' = hosted
    BY <1>1 DEF Accepted, HostedEnabled
  <2> HIDE DEF hosted
  <2>2. Ready(m, hosted)' 
    BY <2>1, ReadyStays
  <2> QED BY <2>1, <2>2 DEF hosted
<1> QED BY <1>2, <1>3, <1>4 DEF Accepted, ToSet

LEMMA StagesAreReferences ==
  ASSUME NEW suite, NEW c \in suite.cascade
  PROVE  {c.first, c.second} \subseteq References(suite)
<1> DEFINE stages == {{d.first, d.second} : d \in suite.cascade}
           others == {{r.baseline} \cup r.candidates : r \in suite.replacement}
<1>1. {c.first, c.second} \in stages
  OBVIOUS
<1>2. References(suite)
        = ({suite.baseline} \ {NoName}) \cup (UNION others) \cup (UNION stages)
  BY DEF References
<1> HIDE DEF stages, others
<1> QED BY <1>1, <1>2

(* The steps of a run that was foretold do not fail.                       *)
LEMMA RunningKeepsPromises ==
  ASSUME OrderInv, Foretold, Shape,
         RunModel \/ RunCascade \/ Save
  PROVE  DryRunPredicts'
<1>1. UNCHANGED <<suiteFile, file, up, foretold>> /\ Busy /\ Kept
  <2>1. CASE RunModel
    BY <2>1, RunFacts DEF RunModel, Busy
  <2>2. CASE RunCascade
    BY <2>2, CascadeFacts DEF RunCascade, Busy
  <2>3. CASE Save
    BY <2>3, SaveFacts DEF Save, Busy
  <2> QED BY <2>1, <2>2, <2>3
<1>2. \A m \in ToSet(command.suite.models) :
        Bound => /\ Build(m, command.dir, command.hosted) = SUCCESS
                 /\ ~Raises(m, command.dir)
  BY <1>1, ModelsThatRunAreReady
<1>3. command'.doing = "ended" /\ ~command'.saved => ~Bound
  <2>1. CASE RunModel
    <3> DEFINE model == Head(command.todo)
    <3>1. command.todo # << >>
      BY <2>1, RunFacts
    <3>2. model \in ToSet(command.suite.models)
      <4>1. /\ IsList(command.todo)
            /\ ToSet(command.todo) \subseteq ToSet(command.suite.models)
        BY <1>1 DEF OrderInv, Todo
      <4>2. 1 \in DOMAIN command.todo /\ model = command.todo[1]
        BY <3>1, <4>1, TheRest
      <4> QED BY <4>1, <4>2 DEF ToSet
    <3>3. command'.doing = "ended" =>
            Build(model, command.dir, command.hosted) # SUCCESS
            \/ Raises(model, command.dir)
      BY <2>1, RunFacts
    <3> HIDE DEF model
    <3> QED BY <1>2, <3>2, <3>3
  <2>2. CASE RunCascade
    <3>1. PICK c \in command.suite.cascade :
            command'.doing = "ended" =>
              LET first == ModelByAlias(command.suite, c.first)
                  second == ModelByAlias(command.suite, c.second)
              IN  \/ Build(first, command.dir, command.hosted) # SUCCESS
                  \/ Build(second, command.dir, command.hosted) # SUCCESS
                  \/ Raises(first, command.dir) \/ Raises(second, command.dir)
      <4>1. PICK c \in command.suite.cascade :
              LET first == ModelByAlias(command.suite, c.first)
                  second == ModelByAlias(command.suite, c.second)
                  one == Build(first, command.dir, command.hosted)
                  two == Build(second, command.dir, command.hosted)
              IN  \/ /\ command'.doing = "ended"
                     /\ \/ one # SUCCESS \/ two # SUCCESS
                        \/ Raises(first, command.dir)
                        \/ Raises(second, command.dir)
                  \/ command'.doing = "comparison"
        BY <2>2, CascadeFacts
      <4> QED BY <4>1
    <3>2. /\ c.first \in AliasesOf(command.suite)
          /\ c.second \in AliasesOf(command.suite)
      <4>1. References(command.suite) \subseteq AliasesOf(command.suite)
        BY <1>1, LegalWork DEF Legal
      <4>2. {c.first, c.second} \subseteq References(command.suite)
        BY StagesAreReferences
      <4> QED BY <4>1, <4>2
    <3> DEFINE first == ModelByAlias(command.suite, c.first)
               second == ModelByAlias(command.suite, c.second)
    <3>3. /\ first \in ToSet(command.suite.models)
          /\ second \in ToSet(command.suite.models)
      BY <3>2, FoundByAlias
    <3>4. command'.doing = "ended" =>
            \/ Build(first, command.dir, command.hosted) # SUCCESS
            \/ Build(second, command.dir, command.hosted) # SUCCESS
            \/ Raises(first, command.dir) \/ Raises(second, command.dir)
      BY <3>1
    <3> HIDE DEF first, second
    <3> QED BY <1>2, <3>3, <3>4
  <2>3. CASE Save
    BY <2>3, SaveFacts
  <2> QED BY <2>1, <2>2, <2>3
<1>4. Bound' <=> Bound
  <2>1. command'.options = command.options /\ command'.origin = command.origin
        /\ command'.suite = command.suite
    BY <1>1 DEF Kept
  <2>2. \A m : Raises(m, Here)' <=> Raises(m, Here)
    BY <1>1, RaisesStays
  <2>3. (\A m \in ToSet(command.suite.models) : ~Raises(m, Here))'
          <=> \A m \in ToSet(command.suite.models) : ~Raises(m, Here)
    BY <2>1, <2>2 DEF ToSet
  <2>4. (Asked \in foretold)' <=> Asked \in foretold
    BY <1>1, <2>1 DEF Asked
  <2> QED BY <2>1, <2>3, <2>4 DEF Bound, Here
<1>5. command'.doing # "ended" \/ command'.saved \/ ~Bound'
  BY <1>3, <1>4
<1> QED BY <1>5 DEF DryRunPredicts, Bound, Asked

(* A dry run that doubts nothing has looked at every model.                *)
LEMMA LookingOn == ASSUME Looked, OrderInv, Shape, CheckModel PROVE Looked'
<1>0. UNCHANGED <<file, up>>
  BY DEF CheckModel
<1> SUFFICES ASSUME command'.doing = "dry_run", ~command'.unavailable,
                    NEW m \in ToSet(command'.suite.models) \ ToSet(command'.todo)
             PROVE  Ready(m, command.hosted)'
  BY DEF Looked, ToSet
<1>1. /\ command.doing = "dry_run" /\ command.todo # << >> /\ Kept
      /\ command'.todo = Tail(command.todo) /\ ~command.unavailable
      /\ Ready(Head(command.todo), command.hosted)
  BY CheckFacts DEF Ready
<1>2. command'.suite = command.suite /\ command'.hosted = command.hosted
  BY <1>1 DEF Kept
<1>3. IsList(command.todo)
  BY <1>1 DEF OrderInv, Todo, Busy
<1>4. Ready(m, command.hosted)
  <2>1. CASE m = Head(command.todo)
    BY <1>1, <2>1
  <2>2. CASE m # Head(command.todo)
    <3> DEFINE old == command.todo
               rest == Tail(old)
    <3>1. /\ Len(old) \in Nat /\ DOMAIN old = 1 .. Len(old)
          /\ IsList(rest) /\ Len(rest) = Len(old) - 1 /\ Head(old) = old[1]
          /\ \A i \in DOMAIN rest : rest[i] = old[i + 1]
      BY <1>1, <1>3, Lists, TheRest
    <3>2. DOMAIN rest = 1 .. Len(old) - 1
      BY <3>1, Lists
    <3>3. m \notin ToSet(rest) /\ m # Head(old)
      BY <1>1, <2>2
    <3> HIDE DEF old, rest
    <3>4. ASSUME NEW i \in DOMAIN old, m = old[i] PROVE FALSE
      <4>1. i # 1
        BY <3>1, <3>3, <3>4
      <4>2. i - 1 \in DOMAIN rest /\ rest[i - 1] = old[(i - 1) + 1]
        BY <3>1, <3>2, <4>1
      <4>3. rest[i - 1] = m
        BY <3>1, <3>4, <4>2
      <4> QED BY <3>3, <4>2, <4>3 DEF ToSet
    <3>5. m \notin ToSet(old)
      BY <3>4 DEF ToSet
    <3> QED BY <1>1, <1>2, <3>5 DEF Looked, old
  <2> QED BY <2>1, <2>2
<1> DEFINE hosted == command.hosted
<1>5. hosted' = hosted
  BY <1>2
<1>6. Ready(m, hosted)
  BY <1>4
<1> HIDE DEF hosted
<1>7. Ready(m, hosted)'
  BY <1>0, <1>5, <1>6, ReadyStays
<1> QED BY <1>7 DEF hosted

LEMMA EndingForetells ==
  ASSUME Foretold, Looked, OrderInv, Shape, EndDryRun
  PROVE  Foretold'
<1>0. UNCHANGED <<suiteFile, file, up>>
  BY DEF EndDryRun
<1>1. CASE command.unavailable
  <2>1. foretold' = foretold
    BY <1>1, DryRunFacts
  <2> QED BY <1>0, <2>1, ForetoldStays
<1>2. CASE ~command.unavailable
  <2>1. /\ command.doing = "dry_run" /\ command.todo = << >>
        /\ foretold' = foretold \cup {<<command.suite, command.options>>}
    BY <1>2, DryRunFacts
  <2>2. OfFile
    BY <2>1 DEF OrderInv, Ordered, Busy, OfRun
  <2>3. \A m \in ToSet(command.suite.models) : Ready(m, command.hosted)
    BY <1>2, <2>1, NoElements DEF Looked, ToSet
  <2> DEFINE new == <<command.suite, command.options>>
             more == foretold \cup {new}
  <2>4. Accepted(new[1], new[2])
    BY <2>2, <2>3 DEF OfFile, Accepted
  <2> HIDE DEF new
  <2>5. \A p \in more : Accepted(p[1], p[2])
    BY <2>4 DEF Foretold
  <2>6. foretold' = more
    BY <2>1 DEF new
  <2> HIDE DEF more
  <2> SUFFICES ASSUME NEW p \in more PROVE Accepted(p[1], p[2])'
    BY <2>6 DEF Foretold
  <2>7. Accepted(p[1], p[2])
    BY <2>5
  <2>8. ValidSuite(suiteFile)' /\ (p[1] = Overridden(suiteFile, p[2]))'
    <3>1. ValidSuite(suiteFile') /\ p[1] = Overridden(suiteFile', p[2])
      BY <1>0, <2>7 DEF Accepted
    <3> QED BY <3>1 DEF ValidSuite, FieldsValid, References, AliasesOf, ToSet,
                        NoName, Overridden, Override
  <2>9. ASSUME NEW m \in ToSet(p[1].models)
        PROVE  Ready(m, HostedEnabled(p[1], p[2]))'
    <3> DEFINE hosted == HostedEnabled(p[1], p[2])
    <3>1. Ready(m, hosted) /\ hosted' = hosted
      BY <2>7 DEF Accepted, HostedEnabled
    <3> HIDE DEF hosted
    <3>2. Ready(m, hosted)'
      BY <1>0, <3>1, ReadyStays
    <3> QED BY <3>1, <3>2 DEF hosted
  <2> QED BY <2>8, <2>9 DEF Accepted, ToSet
<1> QED BY <1>1, <1>2

LEMMA PromiseSteps ==
  ConsentInv /\ OrderInv /\ PromiseInv /\ [Next]_vars => PromiseInv'
<1> SUFFICES ASSUME ConsentInv, OrderInv, PromiseInv, [Next]_vars
             PROVE  PromiseInv'
  OBVIOUS
<1>0. Shape /\ Foretold /\ Looked /\ DryRunPredicts
  BY DEF ConsentInv, PromiseInv
<1>1. ASSUME UNCHANGED <<command, runs>>, AtRest, foretold' = {} PROVE PromiseInv'
  <2>1. Foretold' /\ DryRunPredicts'
    BY <1>1 DEF Foretold, DryRunPredicts
  <2>2. Looked'
    BY <1>1 DEF Looked, AtRest
  <2> QED BY <2>1, <2>2 DEF PromiseInv
<1>2. CASE EditFixture \/ ServerChanges
  BY <1>1, <1>2 DEF EditFixture, ServerChanges
<1>3. CASE \E options \in Invocations : StartRun(suiteFile, options)
  <2>1. PICK options \in Invocations : StartRun(suiteFile, options)
    BY <1>3
  <2>2. UNCHANGED <<suiteFile, file, up, runs, foretold>>
    BY <2>1 DEF StartRun
  <2>3. Foretold'
    BY <1>0, <2>2, ForetoldStays
  <2>4. CASE command'.doing = "ended"
    <3>1. /\ ~ValidSuite(suiteFile) \/ (~options.dry /\ ~Known(options))
          /\ command'.suite = suiteFile /\ command'.options = options
      <4> DEFINE suite == Overridden(suiteFile, options)
                 doing == Doing(options, suite, options.only)
                 hosted == HostedEnabled(suite, options)
                 only == options.only
      <4>1. doing # "ended"
        BY DEF Doing
      <4> HIDE DEF suite, doing, hosted, only
      <4>2. ~Begin(doing, suite, Here, Here, options, hosted, only)
        BY <2>4, <4>1, BeginFacts
      <4>3. \/ Begin(doing, suite, Here, Here, options, hosted, only)
            \/ /\ ~ValidSuite(suiteFile) \/ (~options.dry /\ ~Known(options))
               /\ command'.suite = suiteFile /\ command'.options = options
        BY <2>1, StartFacts DEF suite, doing, hosted, only
      <4> QED BY <4>2, <4>3
    <3>2. DryRunPredicts'
      <4> DEFINE asked == <<command.suite, [command.options EXCEPT !.dry = TRUE]>>
      <4> SUFFICES ASSUME asked' \in foretold',
                          ~command'.options.dry,
                          command'.options.only \in AliasesOf(command.suite)' \cup {NoName}
                   PROVE  FALSE
        BY DEF DryRunPredicts, NoName
      <4>1. foretold # {}
        BY <2>2
      <4>2. ValidSuite(suiteFile)
        BY <1>0, <4>1 DEF Foretold, Accepted
      <4>3. AliasesOf(command.suite)' = AliasesOf(suiteFile)
        BY <3>1 DEF AliasesOf, ToSet
      <4>4. Known(options)
        BY <3>1, <4>3 DEF Known
      <4> QED BY <3>1, <4>2, <4>4
    <3>3. Looked'
      BY <2>4 DEF Looked
    <3> QED BY <2>3, <3>2, <3>3 DEF PromiseInv
  <2>5. CASE command'.doing # "ended"
    <3>1. DryRunPredicts'
      BY <2>5 DEF DryRunPredicts
    <3>2. Looked'
      <4> DEFINE suite == Overridden(suiteFile, options)
                 doing == Doing(options, suite, options.only)
                 hosted == HostedEnabled(suite, options)
                 only == options.only
      <4>1. Begin(doing, suite, Here, Here, options, hosted, only)
        BY <2>1, <2>5, StartFacts
      <4> HIDE DEF suite, doing, hosted, only
      <4>2. /\ command'.doing = doing /\ command'.suite = suite
            /\ command'.todo = (IF doing = "dry_run" THEN suite.models
                                ELSE Chosen(suite, only))
        BY <4>1, BeginFacts
      <4>3. command'.doing = "dry_run" => command'.todo = command'.suite.models
        BY <4>2
      <4> QED BY <4>3 DEF Looked, ToSet
    <3> QED BY <2>3, <3>1, <3>2 DEF PromiseInv
  <2> QED BY <2>4, <2>5
<1>4. CASE \E r \in DOMAIN runs : Reproduce(r)
  <2>1. PICK r \in DOMAIN runs : Reproduce(r)
    BY <1>4
  <2>2. UNCHANGED <<suiteFile, file, up, runs, foretold>>
    BY <2>1 DEF Reproduce
  <2>3. r # Here
    BY Lists DEF OrderInv, Saved, Here
  <2>4. command'.origin = r /\ command'.doing # "dry_run"
    <3>1. CASE FieldsValid(runs[r].suite)
      <4> DEFINE suite == runs[r].suite
                 no == FALSE
      <4>1. PICK doing \in {"cascade", "comparison"} :
              Begin(doing, suite, r, r, NoOptions, no, NoName)
        BY <2>1, <3>1, ReproduceFacts
      <4> HIDE DEF suite, no
      <4>2. command'.origin = r /\ command'.doing = doing
        BY <4>1, BeginFacts
      <4> QED BY <4>2
    <3>2. CASE ~FieldsValid(runs[r].suite)
      BY <2>1, <3>2, ReproduceFacts
    <3> QED BY <3>1, <3>2
  <2>5. DryRunPredicts'
    <3>1. command'.origin # Here
      BY <2>3, <2>4
    <3> QED BY <3>1 DEF DryRunPredicts, Here
  <2> QED BY <1>0, <2>2, <2>4, <2>5, ForetoldStays DEF PromiseInv, Looked
<1>5. CASE CheckModel
  <2>1. UNCHANGED <<suiteFile, file, up, foretold>>
    BY <1>5 DEF CheckModel
  <2>2. Foretold' /\ Looked'
    BY <1>0, <1>5, <2>1, ForetoldStays, LookingOn
  <2>3. command'.options.dry
    <3>1. command.doing = "dry_run" /\ Kept
      BY <1>0, <1>5, CheckFacts
    <3>2. OfFile
      BY <3>1 DEF OrderInv, Ordered, Busy, OfRun
    <3> QED BY <3>1, <3>2 DEF OfFile, Kept
  <2> QED BY <2>2, <2>3 DEF PromiseInv, DryRunPredicts
<1>6. CASE EndDryRun
  <2>1. command.doing = "dry_run" /\ Kept /\ command'.doing = "ended"
    BY <1>0, <1>6, DryRunFacts
  <2>2. Foretold'
    BY <1>0, <1>6, EndingForetells
  <2>3. OfFile
    BY <2>1 DEF OrderInv, Ordered, Busy, OfRun
  <2>4. command'.options.dry
    BY <2>1, <2>3 DEF OfFile, Kept
  <2> QED BY <2>1, <2>2, <2>4 DEF PromiseInv, Looked, DryRunPredicts
<1>7. CASE RunModel \/ RunCascade \/ Save
  <2>1. DryRunPredicts'
    BY <1>0, <1>7, RunningKeepsPromises
  <2>2. UNCHANGED <<suiteFile, file, up, foretold>>
    BY <1>7 DEF RunModel, RunCascade, Save
  <2>3. command'.doing # "dry_run"
    <3>1. CASE RunModel
      BY <1>0, <3>1, RunFacts
    <3>2. CASE RunCascade
      BY <1>0, <3>2, CascadeFacts
    <3>3. CASE Save
      BY <1>0, <3>3, SaveFacts
    <3> QED BY <1>7, <3>1, <3>2, <3>3
  <2> QED BY <1>0, <2>1, <2>2, <2>3, ForetoldStays DEF PromiseInv, Looked
<1>8. CASE Breaks
  <2>1. /\ command'.doing = "ended" /\ command'.broken
        /\ UNCHANGED <<suiteFile, file, up, foretold>>
    BY <1>0, <1>8, BreakFacts
  <2>2. Looked' /\ DryRunPredicts'
    BY <2>1 DEF Looked, DryRunPredicts
  <2> QED BY <1>0, <2>1, <2>2, ForetoldStays DEF PromiseInv
<1>9. CASE UNCHANGED vars
  <2>1. UNCHANGED <<suiteFile, file, up, command, runs, foretold>>
    BY <1>9 DEF vars
  <2>2. Foretold'
    BY <1>0, <2>1, ForetoldStays
  <2>3. DryRunPredicts'
    <3>1. \A m : Raises(m, Here)' <=> Raises(m, Here)
      BY <2>1, RaisesStays
    <3>2. (\A m \in ToSet(command.suite.models) : ~Raises(m, Here))'
            <=> \A m \in ToSet(command.suite.models) : ~Raises(m, Here)
      BY <2>1, <3>1 DEF ToSet
    <3> QED BY <1>0, <2>1, <3>2 DEF DryRunPredicts, AliasesOf, ToSet, NoName, Here
  <2>4. Looked'
    <3> DEFINE hosted == command.hosted
    <3> SUFFICES ASSUME command.doing = "dry_run", ~command.unavailable,
                        NEW m \in ToSet(command.suite.models) \ ToSet(command.todo)
                 PROVE  Ready(m, hosted)'
      BY <2>1 DEF Looked, ToSet
    <3>1. Ready(m, hosted) /\ hosted' = hosted
      BY <1>0, <2>1 DEF Looked
    <3> HIDE DEF hosted
    <3> QED BY <2>1, <3>1, ReadyStays
  <2> QED BY <2>2, <2>3, <2>4 DEF PromiseInv
<1> QED
  BY <1>2, <1>3, <1>4, <1>5, <1>6, <1>7, <1>8, <1>9 DEF Next, Breaks

(* What is accepted is carried out: a suite that a dry run has accepted,   *)
(* with the same options and in the same world, runs to the end and is     *)
(* saved, unless an answer of a model makes a call raise, a server breaks  *)
(* in a way its adapter does not map or the save fails; and a saved run of all models has decided on every candidate its *)
(* suite names, a reproduction included.                                   *)
THEOREM AcceptedRunsAreSaved == Spec => []AcceptedIsCarriedOut
<1>1. Init => PromiseInv
  BY DEF Init, Idle, PromiseInv, Foretold, Looked, DryRunPredicts
<1>2. Spec => []PromiseInv
  BY <1>1, PromiseSteps, OrderInvariant, ConsentInvariant, PTL DEF Spec
<1>3. OrderInv /\ PromiseInv => AcceptedIsCarriedOut
  BY DEF OrderInv, Saved, Decided, PromiseInv, AcceptedIsCarriedOut
<1> QED BY <1>2, <1>3, OrderInvariant, PTL

-----------------------------------------------------------------------------
(* Deterministic models repeat themselves: all they say is decided by the  *)
(* text they are read from.                                                *)
Text(m, dir, f, rs) ==
  IF m.fixture = NoName THEN "oracle"
  ELSE IF dir = Here THEN Look(f, m.fixture)
  ELSE IF m.copied THEN Look(rs[dir].fixtures, m.fixture)
  ELSE NoFile
Works(text) == text \notin {NoFile, "not_a_mapping", "not_YAML"}
StatusOf(text) ==
  IF text = "bad" THEN "failed" ELSE IF text = "erring" THEN "error"
  ELSE "success"
SaidBy(a, text, n) ==
  [alias |-> a, status |-> StatusOf(text), count |-> n, answer |-> text]

LEMMA DeterministicFacts ==
  ASSUME NEW m, m.kind = "deterministic", NEW dir, NEW hosted
  PROVE  LET text == Text(m, dir, file, runs)
         IN  /\ Build(m, dir, hosted) = SUCCESS <=> Works(text)
             /\ Raises(m, dir) <=> text \in Raising
             /\ Statuses(m, dir) = {StatusOf(text)}
             /\ dir = command.dir =>
                  \A n : Batch(m, StatusOf(text), n) = SaidBy(m.alias, text, n)
<1> DEFINE text == Text(m, dir, file, runs)
<1>1. m.fixture # NoName => text = Source(m, dir)
  BY DEF Text, Source
<1>2. m.fixture = NoName => text = "oracle"
  BY DEF Text
<1>3. Answers(m, dir) = {text}
  BY <1>1, <1>2 DEF Answers, Served
<1>4. Build(m, dir, hosted) = SUCCESS <=> Works(text)
  <2>1. CASE m.fixture = NoName
    <3>1. Build(m, dir, hosted) = SUCCESS
      BY <2>1 DEF Build, BuildDeterministic
    <3>2. Works(text)
      BY <1>2, <2>1 DEF Works, NoFile
    <3> QED BY <3>1, <3>2
  <2>2. CASE m.fixture # NoName
    <3> DEFINE source == Source(m, dir)
    <3>1. Build(m, dir, hosted) =
            IF source \in {NoFile, "not_a_mapping"} THEN INVALID_INPUT
            ELSE IF source = "not_YAML" THEN INTERNAL_ERROR ELSE SUCCESS
      BY <2>2 DEF Build, BuildDeterministic
    <3> HIDE DEF source
    <3>2. Build(m, dir, hosted) = SUCCESS <=> Works(source)
      BY <3>1 DEF Works, SUCCESS, INVALID_INPUT, INTERNAL_ERROR
    <3> QED BY <1>1, <2>2, <3>2 DEF source
  <2> QED BY <2>1, <2>2
<1> HIDE DEF text
<1>5. Raises(m, dir) <=> text \in Raising
  BY <1>3 DEF Raises
<1>6. Statuses(m, dir) = {StatusOf(text)}
  <2>1. /\ Answers(m, dir) = {"bad"} <=> text = "bad"
        /\ Answers(m, dir) = {"erring"} <=> text = "erring"
    BY <1>3
  <2> QED BY <2>1 DEF Statuses, Served, StatusOf
<1>7. ASSUME dir = command.dir, NEW n
      PROVE  Batch(m, StatusOf(text), n) = SaidBy(m.alias, text, n)
  <2>1. (CHOOSE a \in Answers(m, command.dir) : TRUE) = text
    BY <1>3, <1>7
  <2> QED BY <2>1 DEF Batch, SaidBy
<1> QED BY <1>4, <1>5, <1>6, <1>7 DEF text

(* What the models of a suite say, given their texts: one after the other, *)
(* or in a cascade.                                                        *)
Deterministic(suite) ==
  \A i \in DOMAIN suite.models : suite.models[i].kind = "deterministic"
Texts(suite, dir, f, rs) ==
  [i \in DOMAIN suite.models |-> Text(suite.models[i], dir, f, rs)]

SaidInTurn(suite, texts, results, k) ==
  \A i \in 1 .. k :
    /\ Works(texts[i])
    /\ texts[i] \in Raising => ~(Count(suite) > 0)
    /\ results[i] = SaidBy(suite.models[i].alias, texts[i], Count(suite))

CascadeResults(suite, c, first, second) ==
  <<SaidBy(c.first, first, suite.cases)>>
  \o (IF StatusOf(first) \in c.escalates
      THEN <<SaidBy(c.second, second, suite.cases)>> ELSE << >>)
SaidInCascade(suite, texts, results, c) ==
  \E i, j \in DOMAIN suite.models :
    /\ suite.models[i].alias = c.first /\ suite.models[j].alias = c.second
    /\ Works(texts[i]) /\ Works(texts[j]) /\ texts[i] \notin Raising
    /\ StatusOf(texts[i]) \in c.escalates => texts[j] \notin Raising
    /\ results = CascadeResults(suite, c, texts[i], texts[j])

Said(suite, texts, results) ==
  IF IsCascade(suite, suite.models)
  THEN \E c \in suite.cascade : SaidInCascade(suite, texts, results, c)
  ELSE /\ IsList(results) /\ Len(results) = Len(suite.models)
       /\ SaidInTurn(suite, texts, results, Len(suite.models))

(* They can say one thing only.                                            *)
LEMMA SaidOnce ==
  ASSUME NEW suite, Legal(suite), NEW texts, NEW one, NEW other,
         Said(suite, texts, one), Said(suite, texts, other)
  PROVE  one = other
<1>1. CASE IsCascade(suite, suite.models)
  <2>1. PICK c \in suite.cascade : SaidInCascade(suite, texts, one, c)
    BY <1>1 DEF Said
  <2>2. PICK d \in suite.cascade : SaidInCascade(suite, texts, other, d)
    BY <1>1 DEF Said
  <2>3. c = d
    BY DEF Legal, IsSuite
  <2>4. PICK i, j \in DOMAIN suite.models :
          /\ suite.models[i].alias = c.first /\ suite.models[j].alias = c.second
          /\ one = CascadeResults(suite, c, texts[i], texts[j])
    BY <2>1 DEF SaidInCascade
  <2>5. PICK k, l \in DOMAIN suite.models :
          /\ suite.models[k].alias = c.first /\ suite.models[l].alias = c.second
          /\ other = CascadeResults(suite, c, texts[k], texts[l])
    BY <2>2, <2>3 DEF SaidInCascade
  <2>6. i = k /\ j = l
    BY <2>4, <2>5 DEF Legal, Apart
  <2> QED BY <2>4, <2>5, <2>6
<1>2. CASE ~IsCascade(suite, suite.models)
  <2>1. /\ IsList(one) /\ IsList(other)
        /\ Len(one) = Len(suite.models) /\ Len(other) = Len(suite.models)
        /\ SaidInTurn(suite, texts, one, Len(suite.models))
        /\ SaidInTurn(suite, texts, other, Len(suite.models))
    BY <1>2 DEF Said
  <2>2. DOMAIN one = 1 .. Len(suite.models)
    BY <2>1, Lists
  <2>3. \A i \in DOMAIN one : one[i] = other[i]
    BY <2>1, <2>2 DEF SaidInTurn
  <2> QED BY <2>1, <2>3, SameList
<1> QED BY <1>1, <1>2

(* A snapshot of a suite says what the suite said.                         *)
LEMMA SnapshotSays ==
  ASSUME NEW suite, Legal(suite), NEW taken,
         \A k \in SuiteFields \ {"models"} : taken[k] = suite[k],
         DOMAIN taken.models = DOMAIN suite.models,
         Len(taken.models) = Len(suite.models),
         \A i \in DOMAIN suite.models :
           taken.models[i].alias = suite.models[i].alias,
         NEW texts, NEW results, Said(suite, texts, results)
  PROVE  Said(taken, texts, results)
<1>1. /\ taken.cases = suite.cases /\ taken.mode = suite.mode
      /\ taken.cascade = suite.cascade
      /\ taken.replacement = suite.replacement
      /\ taken.repetitions = suite.repetitions
  BY DEF SuiteFields
<1>2. IsCascade(taken, taken.models) <=> IsCascade(suite, suite.models)
  BY <1>1 DEF IsCascade, Mode
<1>3. Count(taken) = Count(suite)
  BY <1>1 DEF Count
<1>4. CASE IsCascade(suite, suite.models)
  <2>1. PICK c \in suite.cascade : SaidInCascade(suite, texts, results, c)
    BY <1>4 DEF Said
  <2>2. PICK i, j \in DOMAIN suite.models :
          /\ suite.models[i].alias = c.first /\ suite.models[j].alias = c.second
          /\ Works(texts[i]) /\ Works(texts[j]) /\ texts[i] \notin Raising
          /\ StatusOf(texts[i]) \in c.escalates => texts[j] \notin Raising
          /\ results = CascadeResults(suite, c, texts[i], texts[j])
    BY <2>1 DEF SaidInCascade
  <2>3. CascadeResults(taken, c, texts[i], texts[j])
          = CascadeResults(suite, c, texts[i], texts[j])
    BY <1>1 DEF CascadeResults
  <2>4. /\ taken.models[i].alias = c.first /\ taken.models[j].alias = c.second
        /\ i \in DOMAIN taken.models /\ j \in DOMAIN taken.models
    BY <2>2
  <2>5. SaidInCascade(taken, texts, results, c)
    BY <2>2, <2>3, <2>4 DEF SaidInCascade
  <2> QED BY <1>1, <1>2, <1>4, <2>5 DEF Said
<1>5. CASE ~IsCascade(suite, suite.models)
  <2>1. /\ IsList(results) /\ Len(results) = Len(suite.models)
        /\ SaidInTurn(suite, texts, results, Len(suite.models))
    BY <1>5 DEF Said
  <2>2. DOMAIN suite.models = 1 .. Len(suite.models)
    BY Lists DEF Legal, IsSuite
  <2>3. SaidInTurn(taken, texts, results, Len(suite.models))
    BY <1>3, <2>1, <2>2 DEF SaidInTurn
  <2> QED BY <1>2, <1>5, <2>1, <2>3 DEF Said
<1> QED BY <1>4, <1>5

-----------------------------------------------------------------------------
(* While a suite of deterministic models is run, all of them, the results  *)
(* so far are what the models that had their turn say.                     *)
RunsAll(cmd) ==
  /\ cmd.doing \in {"cascade", "comparison"}
  /\ Deterministic(cmd.suite) /\ cmd.options.only = NoName
InTurn(cmd, texts) ==
  /\ cmd.doing = "comparison" /\ IsList(cmd.results) /\ IsList(cmd.todo)
  /\ Len(cmd.results) + Len(cmd.todo) = Len(cmd.suite.models)
  /\ \A i \in DOMAIN cmd.todo :
       cmd.todo[i] = cmd.suite.models[Len(cmd.results) + i]
  /\ SaidInTurn(cmd.suite, texts, cmd.results, Len(cmd.results))
Told(cmd, f, rs) ==
  RunsAll(cmd) =>
    LET texts == Texts(cmd.suite, cmd.dir, f, rs)
    IN  IF IsCascade(cmd.suite, cmd.suite.models)
        THEN cmd.doing = "comparison" =>
               cmd.todo = << >> /\ Said(cmd.suite, texts, cmd.results)
        ELSE InTurn(cmd, texts)
ToldInv == Told(command, file, runs)

LEMMA BeginningIsTold ==
  ASSUME NEW cmd, NEW f, NEW rs, NEW suite, IsSuite(suite), NEW options,
         NEW only,
         cmd.suite = suite, cmd.doing = Doing(options, suite, only),
         cmd.options.only = only, cmd.results = << >>,
         cmd.todo = (IF cmd.doing = "dry_run" THEN suite.models
                     ELSE Chosen(suite, only))
  PROVE  Told(cmd, f, rs)
<1> SUFFICES ASSUME RunsAll(cmd), ~(IsCascade(suite, suite.models)
                                    /\ cmd.doing # "comparison")
             PROVE  /\ ~IsCascade(suite, suite.models)
                    /\ InTurn(cmd, Texts(suite, cmd.dir, f, rs))
  BY DEF Told
<1>1. only = NoName /\ cmd.doing # "dry_run"
  BY DEF RunsAll
<1>2. Chosen(suite, only) = suite.models
  BY <1>1 DEF Chosen
<1>3. cmd.doing = IF IsCascade(suite, suite.models) THEN "cascade"
                  ELSE "comparison"
  BY <1>1, <1>2 DEF Doing
<1>4. ~IsCascade(suite, suite.models) /\ cmd.doing = "comparison"
  BY <1>3
<1>5. cmd.todo = suite.models /\ IsList(suite.models)
  BY <1>1, <1>2 DEF IsSuite
<1>6. /\ Len(suite.models) \in Nat /\ DOMAIN suite.models = 1 .. Len(suite.models)
      /\ IsList(<< >>) /\ Len(<< >>) = 0
  BY <1>5, Lists, NoElements
<1> QED BY <1>4, <1>5, <1>6 DEF InTurn, SaidInTurn

LEMMA StartIsTold ==
  ASSUME OrderInv, NEW options, StartRun(suiteFile, options)
  PROVE  ToldInv'
<1>1. CASE command'.doing = "ended"
  <2>1. Told(command', file', runs')
    BY <1>1 DEF Told, RunsAll
  <2> QED BY <2>1 DEF ToldInv
<1>2. CASE command'.doing # "ended"
  <2> DEFINE suite == Overridden(suiteFile, options)
             doing == Doing(options, suite, options.only)
             hosted == HostedEnabled(suite, options)
             only == options.only
  <2>1. ValidSuite(suiteFile) /\ Begin(doing, suite, Here, Here, options, hosted, only)
    BY <1>2, StartFacts
  <2>2. IsSuite(suite)
    BY <2>1, OverriddenIsLegal, SuitesAssumption DEF OrderInv, World, Legal
  <2>3. only = options.only /\ doing = Doing(options, suite, only)
    OBVIOUS
  <2> HIDE DEF suite, doing, hosted, only
  <2>4. /\ command'.doing = doing /\ command'.suite = suite
        /\ command'.options = options /\ command'.results = << >>
        /\ command'.todo = (IF doing = "dry_run" THEN suite.models
                            ELSE Chosen(suite, only))
    BY <2>1, BeginFacts
  <2> DEFINE cmd == command'
             f == file'
             rs == runs'
  <2> HIDE DEF cmd, f, rs
  <2>5. /\ cmd.suite = suite /\ cmd.doing = Doing(options, suite, only)
        /\ cmd.options.only = only /\ cmd.results = << >>
        /\ cmd.todo = (IF cmd.doing = "dry_run" THEN suite.models
                       ELSE Chosen(suite, only))
    BY <2>3, <2>4 DEF cmd
  <2>6. Told(cmd, f, rs)
    BY <2>2, <2>5, BeginningIsTold
  <2> QED BY <2>6 DEF ToldInv, cmd, f, rs
<1> QED BY <1>1, <1>2

LEMMA ReproducingIsTold ==
  ASSUME OrderInv, NEW r \in DOMAIN runs, Reproduce(r)
  PROVE  ToldInv'
<1> DEFINE suite == runs[r].suite
           no == FALSE
<1>1. CASE ~FieldsValid(suite)
  <2>1. command'.doing = "ended"
    BY <1>1, ReproduceFacts
  <2>2. Told(command', file', runs')
    BY <2>1 DEF Told, RunsAll
  <2> QED BY <2>2 DEF ToldInv
<1>2. CASE FieldsValid(suite)
  <2>1. PICK doing \in {"cascade", "comparison"} :
          /\ doing = Doing(NoOptions, suite, NoName)
          /\ Begin(doing, suite, r, r, NoOptions, no, NoName)
    BY <1>2, ReproduceFacts
  <2>2. IsSuite(suite)
    BY DEF OrderInv, Saved, Legal
  <2> HIDE DEF suite, no
  <2>3. /\ command'.doing = doing /\ command'.suite = suite
        /\ command'.options = NoOptions /\ command'.results = << >>
        /\ command'.todo = (IF doing = "dry_run" THEN suite.models
                            ELSE Chosen(suite, NoName))
    BY <2>1, BeginFacts
  <2> DEFINE cmd == command'
             f == file'
             rs == runs'
  <2> HIDE DEF cmd, f, rs
  <2>4. NoOptions.only = NoName
    BY DEF NoOptions
  <2>5. /\ cmd.suite = suite /\ cmd.doing = Doing(NoOptions, suite, NoName)
        /\ cmd.options.only = NoName /\ cmd.results = << >>
        /\ cmd.todo = (IF cmd.doing = "dry_run" THEN suite.models
                       ELSE Chosen(suite, NoName))
    BY <2>1, <2>3, <2>4 DEF cmd
  <2>6. Told(cmd, f, rs)
    BY <2>2, <2>5, BeginningIsTold
  <2> QED BY <2>6 DEF ToldInv, cmd, f, rs
<1> QED BY <1>1, <1>2

(* Whose turn it is.                                                       *)
LEMMA WhoseTurn ==
  ASSUME OrderInv, ToldInv, RunsAll(command), command.doing = "comparison",
         command.todo # << >>
  PROVE  LET suite == command.suite
             texts == Texts(suite, command.dir, file, runs)
             i == Len(command.results) + 1
         IN  /\ ~IsCascade(suite, suite.models)
             /\ InTurn(command, texts) /\ i \in DOMAIN suite.models
             /\ Head(command.todo) = suite.models[i]
             /\ suite.models[i].kind = "deterministic"
             /\ texts[i] = Text(suite.models[i], command.dir, file, runs)
<1> DEFINE suite == command.suite
           texts == Texts(suite, command.dir, file, runs)
           i == Len(command.results) + 1
<1>1. ~IsCascade(suite, suite.models) /\ InTurn(command, texts)
  BY DEF ToldInv, Told
<1>2. /\ IsList(command.todo) /\ IsList(command.results)
      /\ Len(command.results) + Len(command.todo) = Len(suite.models)
      /\ \A k \in DOMAIN command.todo :
           command.todo[k] = suite.models[Len(command.results) + k]
  BY <1>1 DEF InTurn
<1>3. /\ Len(command.todo) \in Nat \ {0} /\ Len(command.results) \in Nat
      /\ 1 \in DOMAIN command.todo /\ Head(command.todo) = command.todo[1]
  BY <1>2, Lists, TheRest
<1>4. DOMAIN suite.models = 1 .. Len(suite.models) /\ Len(suite.models) \in Nat
  <2>1. Legal(suite)
    BY LegalWork DEF Busy
  <2> QED BY <2>1, Lists DEF Legal, IsSuite
<1>5. i \in DOMAIN suite.models
  <2> DEFINE done == Len(command.results)
             left == Len(command.todo)
             all == Len(suite.models)
  <2>1. done \in Nat /\ left \in Nat \ {0} /\ all \in Nat /\ done + left = all
    BY <1>2, <1>3, <1>4
  <2> HIDE DEF done, left, all
  <2>2. done + 1 \in 1 .. all
    BY <2>1
  <2> QED BY <1>4, <2>2 DEF done, all
<1>6. Head(command.todo) = suite.models[i]
  BY <1>2, <1>3
<1>7. suite.models[i].kind = "deterministic"
  BY <1>5 DEF RunsAll, Deterministic
<1>8. texts[i] = Text(suite.models[i], command.dir, file, runs)
  BY <1>5 DEF Texts
<1> QED BY <1>1, <1>5, <1>6, <1>7, <1>8

(* A step of a run: the next model says what its text makes it say.        *)
LEMMA RunningIsTold ==
  ASSUME OrderInv, ToldInv, Shape, RunModel, RunsAll(command)
  PROVE  command'.doing # "ended" => ToldInv'
<1> SUFFICES ASSUME command'.doing # "ended" PROVE ToldInv'
  OBVIOUS
<1> DEFINE suite == command.suite
           texts == Texts(suite, command.dir, file, runs)
           i == Len(command.results) + 1
           model == suite.models[i]
           text == Text(model, command.dir, file, runs)
           count == Count(suite)
<1>1. /\ command.doing = "comparison" /\ command.todo # << >> /\ Kept
      /\ command'.doing = "comparison"
      /\ Build(Head(command.todo), command.dir, command.hosted) = SUCCESS
      /\ ~(Raises(Head(command.todo), command.dir) /\ count > 0)
      /\ command'.todo = Tail(command.todo)
      /\ \E status \in Statuses(Head(command.todo), command.dir) :
           command'.results =
             Append(command.results, Batch(Head(command.todo), status, count))
  BY RunFacts
<1>2. /\ ~IsCascade(suite, suite.models)
      /\ InTurn(command, texts) /\ i \in DOMAIN suite.models
      /\ Head(command.todo) = model /\ model.kind = "deterministic"
      /\ texts[i] = text
  BY <1>1, WhoseTurn
<1>3. /\ Works(text) /\ (text \in Raising => ~(count > 0))
      /\ Statuses(model, command.dir) = {StatusOf(text)}
      /\ Batch(model, StatusOf(text), count) = SaidBy(model.alias, text, count)
  BY <1>1, <1>2, DeterministicFacts
<1> DEFINE said == SaidBy(model.alias, text, count)
           more == Append(command.results, said)
           rest == Tail(command.todo)
<1>4. command'.results = more /\ command'.todo = rest
  BY <1>1, <1>2, <1>3
<1>5. UNCHANGED <<file, runs>>
  BY DEF RunModel
<1>6. /\ command'.suite = suite /\ command'.dir = command.dir
      /\ command'.options = command.options
  BY <1>1 DEF Kept
<1>7. /\ IsList(command.results) /\ IsList(command.todo)
      /\ Len(command.results) + Len(command.todo) = Len(suite.models)
      /\ \A k \in DOMAIN command.todo :
           command.todo[k] = suite.models[Len(command.results) + k]
      /\ SaidInTurn(suite, texts, command.results, Len(command.results))
  BY <1>2 DEF InTurn
<1> HIDE DEF said
<1>8. /\ IsList(more) /\ Len(more) = Len(command.results) + 1
      /\ \A k \in DOMAIN command.results : more[k] = command.results[k]
      /\ more[Len(command.results) + 1] = said
      /\ DOMAIN command.results = 1 .. Len(command.results)
      /\ Len(command.results) \in Nat
  BY <1>7, OneMore, Lists
<1>9. /\ IsList(rest) /\ Len(rest) = Len(command.todo) - 1
      /\ \A k \in DOMAIN rest :
           k + 1 \in DOMAIN command.todo /\ rest[k] = command.todo[k + 1]
      /\ DOMAIN rest = 1 .. Len(rest) /\ Len(rest) \in Nat
      /\ Len(command.todo) \in Nat
  <2>1. /\ IsList(rest) /\ Len(rest) = Len(command.todo) - 1
        /\ \A k \in DOMAIN rest :
             k + 1 \in DOMAIN command.todo /\ rest[k] = command.todo[k + 1]
    BY <1>1, <1>7, TheRest
  <2> HIDE DEF rest
  <2> QED BY <1>7, <2>1, Lists
<1> HIDE DEF more, rest
<1> DEFINE done == Len(command.results)
           left == Len(command.todo)
<1>0. /\ done \in Nat /\ left \in Nat /\ done + left = Len(suite.models)
      /\ Len(more) = done + 1 /\ Len(rest) = left - 1
  BY <1>7, <1>8, <1>9
<1> HIDE DEF done, left
<1>10. Len(more) + Len(rest) = Len(suite.models)
  BY ONLY <1>0
<1>11. ASSUME NEW k \in DOMAIN rest
       PROVE  rest[k] = suite.models[Len(more) + k]
  <2>1. rest[k] = suite.models[Len(command.results) + (k + 1)]
    BY <1>7, <1>9
  <2>2. k \in Nat
    BY <1>9
  <2>3. done + (k + 1) = Len(more) + k
    BY ONLY <1>0, <2>2
  <2> QED BY <2>1, <2>3 DEF done
<1>12. SaidInTurn(suite, texts, more, Len(more))
  <2>1. ASSUME NEW k \in 1 .. Len(more)
        PROVE  /\ Works(texts[k])
               /\ texts[k] \in Raising => ~(count > 0)
               /\ more[k] = SaidBy(suite.models[k].alias, texts[k], count)
    <3>1. CASE k = i
      BY <1>2, <1>3, <1>8, <3>1 DEF said
    <3>2. CASE k # i
      <4>1. k \in 1 .. Len(command.results)
        BY <1>8, <3>2
      <4>2. more[k] = command.results[k]
        BY <1>8, <4>1
      <4> QED BY <1>7, <4>1, <4>2 DEF SaidInTurn
    <3> QED BY <3>1, <3>2
  <2> QED BY <2>1 DEF SaidInTurn
<1> DEFINE cmd == command'
<1>13. InTurn(cmd, texts)
  <2>1. /\ cmd.doing = "comparison" /\ cmd.results = more /\ cmd.todo = rest
        /\ cmd.suite = suite
    BY <1>1, <1>4, <1>6
  <2> HIDE DEF cmd, suite, texts, i
  <2> QED BY <1>8, <1>9, <1>10, <1>11, <1>12, <2>1 DEF InTurn
<1>14. Told(cmd, file, runs)
  <2>1. cmd.suite = suite /\ cmd.dir = command.dir
    BY <1>6
  <2> HIDE DEF cmd
  <2> QED BY <1>2, <1>13, <2>1 DEF Told
<1> HIDE DEF suite, texts, i, model, text, count
<1>15. Told(command', file', runs')
  BY <1>5, <1>14
<1> QED BY <1>15 DEF ToldInv

(* Nothing fails in a run whose texts all work.                            *)
LEMMA CascadeIsTold ==
  ASSUME OrderInv, Shape, RunCascade, RunsAll(command)
  PROVE  command'.doing # "ended" =>
           /\ command'.todo = << >>
           /\ Said(command.suite, Texts(command.suite, command.dir, file, runs),
                   command'.results)
              \/ ~IsCascade(command.suite, command.suite.models)
<1> SUFFICES ASSUME command'.doing # "ended",
                    IsCascade(command.suite, command.suite.models)
             PROVE  /\ command'.todo = << >>
                    /\ Said(command.suite,
                            Texts(command.suite, command.dir, file, runs),
                            command'.results)
  BY CascadeFacts
<1> DEFINE suite == command.suite
           texts == Texts(suite, command.dir, file, runs)
           First(c) == ModelByAlias(suite, c.first)
           Second(c) == ModelByAlias(suite, c.second)
<1>1. PICK c \in suite.cascade :
        /\ Build(First(c), command.dir, command.hosted) = SUCCESS
        /\ Build(Second(c), command.dir, command.hosted) = SUCCESS
        /\ ~Raises(First(c), command.dir)
        /\ command'.todo = << >>
        /\ \E s \in Statuses(First(c), command.dir),
              t \in Statuses(Second(c), command.dir) :
             /\ s \in c.escalates => ~Raises(Second(c), command.dir)
             /\ command'.results = Answered(suite, c, s, t)
  BY CascadeFacts
<1>2. Legal(suite) /\ command.doing = "cascade"
  BY CascadeFacts, LegalWork DEF Busy
<1>3. c.first \in AliasesOf(suite) /\ c.second \in AliasesOf(suite)
  BY <1>2, StagesAreReferences DEF Legal
<1>4. /\ First(c) \in ToSet(suite.models) /\ First(c).alias = c.first
      /\ Second(c) \in ToSet(suite.models) /\ Second(c).alias = c.second
  BY <1>3, FoundByAlias
<1>5. PICK i, j \in DOMAIN suite.models :
        First(c) = suite.models[i] /\ Second(c) = suite.models[j]
  BY <1>4 DEF ToSet
<1> DEFINE first == First(c)
           second == Second(c)
           one == Text(first, command.dir, file, runs)
           two == Text(second, command.dir, file, runs)
<1>6. first.kind = "deterministic" /\ second.kind = "deterministic"
  BY <1>5 DEF RunsAll, Deterministic
<1>7. texts[i] = one /\ texts[j] = two
  BY <1>5 DEF Texts
<1> HIDE DEF suite, texts, First, Second
<1>8. /\ Works(one) /\ one \notin Raising
      /\ Statuses(first, command.dir) = {StatusOf(one)}
      /\ \A n : Batch(first, StatusOf(one), n) = SaidBy(first.alias, one, n)
  <2> HIDE DEF first
  <2> QED BY <1>1, <1>6, DeterministicFacts DEF first
<1>9. /\ Works(two)
      /\ Raises(second, command.dir) <=> two \in Raising
      /\ Statuses(second, command.dir) = {StatusOf(two)}
      /\ \A n : Batch(second, StatusOf(two), n) = SaidBy(second.alias, two, n)
  BY <1>1, <1>6, DeterministicFacts
<1>10. /\ StatusOf(one) \in c.escalates => two \notin Raising
       /\ command'.results = Answered(suite, c, StatusOf(one), StatusOf(two))
  BY <1>1, <1>8, <1>9
<1>11. Answered(suite, c, StatusOf(one), StatusOf(two))
         = CascadeResults(suite, c, one, two)
  <2>1. /\ Batch(first, StatusOf(one), suite.cases)
             = SaidBy(c.first, one, suite.cases)
        /\ Batch(second, StatusOf(two), suite.cases)
             = SaidBy(c.second, two, suite.cases)
    BY <1>4, <1>8, <1>9
  <2> QED BY <2>1 DEF Answered, CascadeResults, First, Second
<1>12. suite.models[i].alias = c.first /\ suite.models[j].alias = c.second
  BY <1>4, <1>5
<1> HIDE DEF first, second, one, two
<1>13. SaidInCascade(suite, texts, command'.results, c)
  <2>1. /\ Works(texts[i]) /\ Works(texts[j]) /\ texts[i] \notin Raising
        /\ StatusOf(texts[i]) \in c.escalates => texts[j] \notin Raising
        /\ command'.results = CascadeResults(suite, c, texts[i], texts[j])
    BY <1>7, <1>8, <1>9, <1>10, <1>11
  <2> QED BY <1>5, <1>12, <2>1 DEF SaidInCascade
<1>14. Said(suite, texts, command'.results)
  BY <1>13 DEF Said, suite
<1> QED BY <1>1, <1>14 DEF suite, texts

LEMMA ToldSteps ==
  ConsentInv /\ OrderInv /\ ToldInv /\ [Next]_vars => ToldInv'
<1> SUFFICES ASSUME ConsentInv, OrderInv, ToldInv, [Next]_vars PROVE ToldInv'
  OBVIOUS
<1>0. Shape
  BY DEF ConsentInv
<1>1. ASSUME command'.doing \notin {"cascade", "comparison"} PROVE ToldInv'
  <2>1. Told(command', file', runs')
    BY <1>1 DEF Told, RunsAll
  <2> QED BY <2>1 DEF ToldInv
<1>2. ASSUME UNCHANGED <<command, file, runs>> PROVE ToldInv'
  <2>1. Told(command', file', runs')
    BY <1>2 DEF ToldInv
  <2> QED BY <2>1 DEF ToldInv
<1>3. CASE EditFixture
  BY <1>1, <1>3 DEF EditFixture, AtRest
<1>4. CASE ServerChanges
  BY <1>2, <1>4 DEF ServerChanges
<1>5. CASE \E options \in Invocations : StartRun(suiteFile, options)
  BY <1>5, StartIsTold
<1>6. CASE \E r \in DOMAIN runs : Reproduce(r)
  BY <1>6, ReproducingIsTold
<1>7. CASE CheckModel
  <2>1. command'.doing \in {"ended", "dry_run"}
    BY <1>0, <1>7, CheckFacts
  <2> QED BY <1>1, <2>1
<1>8. CASE EndDryRun
  <2>1. command'.doing = "ended"
    BY <1>0, <1>8, DryRunFacts
  <2> QED BY <1>1, <2>1
<1>9. CASE Save
  <2>1. command'.doing = "ended"
    BY <1>0, <1>9, SaveFacts
  <2> QED BY <1>1, <2>1
<1>10. CASE RunModel
  <2>1. Kept /\ command.doing = "comparison"
    BY <1>0, <1>10, RunFacts
  <2>2. CASE RunsAll(command)
    BY <1>0, <1>1, <1>10, <2>2, RunningIsTold
  <2>3. CASE ~RunsAll(command)
    <3>1. ~RunsAll(command')
      BY <2>1, <2>3 DEF RunsAll, Kept
    <3>2. Told(command', file', runs')
      BY <3>1 DEF Told
    <3> QED BY <3>2 DEF ToldInv
  <2> QED BY <2>2, <2>3
<1>11. CASE RunCascade
  <2>1. Kept /\ command.doing = "cascade" /\ UNCHANGED <<file, runs>>
    BY <1>0, <1>11, CascadeFacts DEF RunCascade
  <2>2. CASE RunsAll(command)
    <3>1. IsCascade(command.suite, command.suite.models)
      BY <2>1, <2>2 DEF ToldInv, Told, InTurn
    <3>2. /\ command'.suite = command.suite /\ command'.dir = command.dir
      BY <2>1 DEF Kept
    <3>3. command'.doing # "ended" =>
            /\ command'.todo = << >>
            /\ Said(command.suite,
                    Texts(command.suite, command.dir, file, runs),
                    command'.results)
      BY <1>0, <1>11, <2>2, <3>1, CascadeIsTold
    <3>4. Told(command', file, runs)
      <4> DEFINE cmd == command'
      <4>1. cmd.doing = "comparison" =>
              cmd.todo = << >>
              /\ Said(cmd.suite, Texts(cmd.suite, cmd.dir, file, runs),
                      cmd.results)
        BY <3>2, <3>3
      <4>2. IsCascade(cmd.suite, cmd.suite.models)
        BY <3>1, <3>2
      <4> HIDE DEF cmd
      <4>3. Told(cmd, file, runs)
        BY <4>1, <4>2 DEF Told
      <4> QED BY <4>3 DEF cmd
    <3>5. Told(command', file', runs')
      BY <2>1, <3>4
    <3> QED BY <3>5 DEF ToldInv
  <2>3. CASE ~RunsAll(command)
    <3>1. ~RunsAll(command')
      BY <2>1, <2>3 DEF RunsAll, Kept
    <3>2. Told(command', file', runs')
      BY <3>1 DEF Told
    <3> QED BY <3>2 DEF ToldInv
  <2> QED BY <2>2, <2>3
<1>12. CASE Breaks
  <2>1. command'.doing = "ended"
    BY <1>0, <1>12, BreakFacts
  <2> QED BY <1>1, <2>1
<1>13. CASE UNCHANGED vars
  BY <1>2, <1>13 DEF vars
<1> QED
  BY <1>3, <1>4, <1>5, <1>6, <1>7, <1>8, <1>9, <1>10, <1>11, <1>12, <1>13
  DEF Next, Breaks

LEMMA ToldInvariant == Spec => []ToldInv
<1>1. Init => ToldInv
  BY DEF Init, Idle, ToldInv, Told, RunsAll
<1> QED BY <1>1, ToldSteps, OrderInvariant, ConsentInvariant, PTL DEF Spec

-----------------------------------------------------------------------------
(* What is saved can be said again: the texts of a run are those of its    *)
(* copies, as long as no two copies got one name.                          *)
SavedText(m, run) ==
  IF m.fixture = NoName THEN "oracle"
  ELSE IF m.copied THEN Look(run.fixtures, m.fixture)
  ELSE NoFile
SavedTexts(run) ==
  [i \in DOMAIN run.suite.models |-> SavedText(run.suite.models[i], run)]
NoClash(suite) ==
  \A m, n \in ToSet(suite.models) :
    m.copied /\ n.copied /\ m.fixture = n.fixture => m = n
Nice(run) ==
  Deterministic(run.suite) /\ run.options.only = NoName /\ NoClash(run.suite)

CopiesThere(run) ==
  \A m \in ToSet(run.suite.models) :
    m.copied => /\ m.fixture # NoName /\ m.fixture \in DOMAIN run.fixtures
                /\ run.fixtures[m.fixture] # NoFile
Plain(run) ==
  CopiesThere(run) /\ run.manifest = [suite |-> run.suite] /\ ~run.drift
Faithful(run) == Nice(run) => Said(run.suite, SavedTexts(run), run.results)
Repeats(run, rs) ==
  run.origin # Here =>
    /\ run.origin \in DOMAIN rs
    /\ Nice(rs[run.origin]) => run.results = rs[run.origin].results
EndsWell(cmd, rs) ==
  /\ cmd.doing = "ended" /\ cmd.origin \in DOMAIN rs
  /\ Nice(rs[cmd.origin]) /\ FieldsValid(rs[cmd.origin].suite)
  => cmd.saved \/ cmd.broken

SavedInv ==
  /\ \A r \in DOMAIN runs :
       Plain(runs[r]) /\ Faithful(runs[r]) /\ Repeats(runs[r], runs)
  /\ EndsWell(command, runs)

LEMMA TextsAreSaved ==
  ASSUME OrderInv, NEW r \in DOMAIN runs, NEW f
  PROVE  Texts(runs[r].suite, r, f, runs) = SavedTexts(runs[r])
<1>1. r # Here
  BY Lists DEF OrderInv, Saved, Here
<1>2. \A m : Text(m, r, f, runs) = SavedText(m, runs[r])
  BY <1>1 DEF Text, SavedText
<1> QED BY <1>2 DEF Texts, SavedTexts

LEMMA GreatestIndex ==
  ASSUME NEW n \in Nat, NEW S, S \subseteq 1 .. n, S # {}
  PROVE  \E x \in S : \A y \in S : y <= x
<1> DEFINE T == {n - y : y \in S}
<1>0. \A y \in S : n - y \in Nat
  OBVIOUS
<1>1. T \subseteq Nat /\ T # {}
  BY <1>0
<1> HIDE DEF T
<1>2. PICK t \in T : \A u \in T : t <= u
  BY <1>1, LeastNatural
<1>3. PICK x \in S : t = n - x
  BY <1>2 DEF T
<1>4. \A y \in S : n - x <= n - y
  BY <1>2, <1>3 DEF T
<1> QED BY <1>4

(* Each model whose file is there finds a copy of a file, and of its own   *)
(* file if no other copy has its name.                                     *)
LEMMA CopiesFacts ==
  ASSUME NEW suite, Legal(suite), NEW i \in DOMAIN suite.models,
         HasSource(suite.models[i])
  PROVE  LET copies == Copies(suite)
             name == CopyName(suite.models[i])
         IN  /\ name \in DOMAIN copies /\ copies[name] # NoFile
             /\ (\A j \in DOMAIN suite.models :
                   HasSource(suite.models[j])
                   /\ CopyName(suite.models[j]) = name => j = i)
                => copies[name] = Source(suite.models[i], command.dir)
<1> DEFINE models == suite.models
           copied == {j \in DOMAIN models : HasSource(models[j])}
           Same(n) == {j \in copied : CopyName(models[j]) = n}
           Latest(n) == CHOOSE j \in copied :
                        /\ CopyName(models[j]) = n
                        /\ \A k \in copied : CopyName(models[k]) = n => k <= j
           name == CopyName(models[i])
           copies == Copies(suite)
<1>1. copies = [n \in {CopyName(models[j]) : j \in copied} |->
                  Source(models[Latest(n)], command.dir)]
  BY DEF Copies
<1>2. DOMAIN models = 1 .. Len(models) /\ Len(models) \in Nat
  BY Lists DEF Legal, IsSuite
<1>3. Same(name) \subseteq 1 .. Len(models) /\ i \in Same(name)
  BY <1>2
<1>4. PICK x \in Same(name) : \A y \in Same(name) : y <= x
  <2> DEFINE S == Same(name)
  <2>1. S \subseteq 1 .. Len(models) /\ S # {}
    BY <1>3
  <2> HIDE DEF S
  <2>2. \E x \in S : \A y \in S : y <= x
    BY <1>2, <2>1, GreatestIndex
  <2> QED BY <2>2 DEF S
<1>5. /\ x \in copied /\ CopyName(models[x]) = name
      /\ \A k \in copied : CopyName(models[k]) = name => k <= x
  BY <1>4
<1>6. Latest(name) \in Same(name)
  <2>1. \E j \in copied :
          /\ CopyName(models[j]) = name
          /\ \A k \in copied : CopyName(models[k]) = name => k <= j
    BY <1>5
  <2>2. Latest(name) \in copied /\ CopyName(models[Latest(name)]) = name
    BY <2>1
  <2> QED BY <2>2
<1>7. name \in {CopyName(models[j]) : j \in copied}
  OBVIOUS
<1> HIDE DEF copies, Latest
<1>8. name \in DOMAIN copies /\ copies[name] = Source(models[Latest(name)], command.dir)
  BY <1>1, <1>7
<1>9. copies[name] # NoFile
  BY <1>6, <1>8 DEF HasSource
<1>10. ASSUME \A j \in DOMAIN models :
                HasSource(models[j]) /\ CopyName(models[j]) = name => j = i
       PROVE  copies[name] = Source(models[i], command.dir)
  <2>1. Latest(name) = i
    BY <1>6, <1>10
  <2> QED BY <1>8, <2>1
<1> QED BY <1>8, <1>9, <1>10 DEF copies

(* A run that is saved now is plain, says what it said, and repeats the    *)
(* run it reproduces.                                                      *)
Now(run) ==
  LET suite == command.suite
  IN  /\ run.suite = Snapshot(suite) /\ run.fixtures = Copies(suite)
      /\ run.manifest = [suite |-> run.suite]
      /\ run.origin = command.origin /\ run.options = command.options
      /\ run.results = command.results
      /\ run.drift = (/\ command.origin # Here
                      /\ runs[command.origin].manifest # [suite |-> suite])

LEMMA CopiesAreThere ==
  ASSUME OrderInv, SavedInv, Busy, NEW m \in ToSet(command.suite.models),
         m.copied
  PROVE  HasSource(m)
<1>1. ~OfFile
  <2> SUFFICES ASSUME OfFile PROVE FALSE
    OBVIOUS
  <2>1. IsSuite(suiteFile) /\ \A n \in ToSet(suiteFile.models) : ~n.copied
    BY SuitesAssumption DEF OrderInv, World
  <2>2. command.suite.models = suiteFile.models
    BY <2>1, OverriddenIsLegal DEF OfFile
  <2> QED BY <2>1, <2>2
<1>2. OfRun
  BY <1>1 DEF OrderInv, Ordered
<1> DEFINE r == command.origin
<1>3. /\ r \in DOMAIN runs /\ command.dir = r /\ command.suite = runs[r].suite
      /\ r # Here
  BY <1>2, Lists DEF OfRun, OrderInv, Saved, Here
<1>4. CopiesThere(runs[r])
  BY <1>3 DEF SavedInv, Plain
<1>5. /\ m.fixture # NoName /\ m.fixture \in DOMAIN runs[r].fixtures
      /\ runs[r].fixtures[m.fixture] # NoFile
  BY <1>3, <1>4 DEF CopiesThere
<1>6. Source(m, command.dir) = runs[r].fixtures[m.fixture]
  BY <1>3, <1>5 DEF Source, Look
<1> QED BY <1>5, <1>6 DEF HasSource

LEMMA SnapshotsArePlain ==
  ASSUME OrderInv, SavedInv, Busy, NEW run, Now(run)
  PROVE  Plain(run)
<1> DEFINE suite == command.suite
           taken == Snapshot(suite)
<1>1. Legal(suite)
  BY LegalWork
<1>2. /\ Legal(taken) /\ DOMAIN taken.models = DOMAIN suite.models
      /\ \A i \in DOMAIN suite.models : Kin(suite.models[i], taken.models[i])
  BY <1>1, SnapshotFacts
<1>3. run.suite = taken /\ run.fixtures = Copies(suite)
  BY DEF Now
<1>4. ~run.drift
  <2>1. CASE command.origin = Here
    BY <2>1 DEF Now
  <2>2. CASE command.origin # Here
    <3>1. /\ command.origin \in DOMAIN runs
          /\ suite = runs[command.origin].suite
      BY <2>2 DEF OrderInv, Ordered, OfFile, OfRun
    <3>2. runs[command.origin].manifest = [suite |-> suite]
      BY <3>1 DEF SavedInv, Plain
    <3> QED BY <3>2 DEF Now
  <2> QED BY <2>1, <2>2
<1>5. ASSUME NEW m \in ToSet(taken.models), m.copied
      PROVE  /\ m.fixture # NoName /\ m.fixture \in DOMAIN run.fixtures
             /\ run.fixtures[m.fixture] # NoFile
  <2>1. PICK i \in DOMAIN suite.models : m = taken.models[i]
    BY <1>2 DEF ToSet
  <2>2. Kin(suite.models[i], m)
    BY <1>2, <2>1
  <2>3. CASE HasSource(suite.models[i])
    <3>1. m.fixture = CopyName(suite.models[i])
      BY <2>2, <2>3 DEF Kin
    <3>2. /\ CopyName(suite.models[i]) \in DOMAIN Copies(suite)
          /\ Copies(suite)[CopyName(suite.models[i])] # NoFile
      BY <1>1, <2>3, CopiesFacts
    <3>3. CopyName(suite.models[i]) # NoName
      <4>1. IsModel(suite.models[i])
        BY <1>1 DEF Legal, IsSuite, ToSet
      <4>2. suite.models[i].fixture # NoName
        BY <2>3 DEF HasSource
      <4> QED BY <4>1, <4>2, JoinedNames DEF IsModel, CopyName, NoName
    <3> QED BY <1>3, <3>1, <3>2, <3>3
  <2>4. CASE ~HasSource(suite.models[i])
    <3>1. m = suite.models[i] /\ m \in ToSet(suite.models)
      BY <2>2, <2>4 DEF Kin, ToSet
    <3> QED BY <1>5, <2>4, <3>1, CopiesAreThere
  <2> QED BY <2>3, <2>4
<1> QED BY <1>3, <1>4, <1>5 DEF Plain, CopiesThere, Now

(* The snapshot is read from what the run was read from.                   *)
LEMMA SnapshotsKeepTexts ==
  ASSUME OrderInv, SavedInv, Busy, NEW run, Now(run), NoClash(run.suite)
  PROVE  SavedTexts(run) = Texts(command.suite, command.dir, file, runs)
<1> DEFINE suite == command.suite
           taken == Snapshot(suite)
<1>1. Legal(suite)
  BY LegalWork
<1>2. /\ Legal(taken) /\ DOMAIN taken.models = DOMAIN suite.models
      /\ \A i \in DOMAIN suite.models : Kin(suite.models[i], taken.models[i])
  BY <1>1, SnapshotFacts
<1>3. run.suite = taken /\ run.fixtures = Copies(suite)
  BY DEF Now
<1>4. ASSUME NEW i \in DOMAIN suite.models
      PROVE  SavedText(taken.models[i], run)
               = Text(suite.models[i], command.dir, file, runs)
  <2> DEFINE old == suite.models[i]
             new == taken.models[i]
  <2>1. Kin(old, new) /\ IsModel(old) /\ old \in ToSet(suite.models)
    BY <1>1, <1>2 DEF Legal, IsSuite, ToSet
  <2>2. old.fixture # NoName =>
          Text(old, command.dir, file, runs) = Source(old, command.dir)
    BY DEF Text, Source
  <2>3. CASE HasSource(old)
    <3>1. new.fixture = CopyName(old) /\ new.copied
      BY <2>1, <2>3 DEF Kin
    <3>2. old.fixture # NoName
      BY <2>3 DEF HasSource
    <3>3. CopyName(old) # NoName
      BY <2>1, <3>2, JoinedNames DEF IsModel, CopyName, NoName
    <3>4. ASSUME NEW j \in DOMAIN suite.models, HasSource(suite.models[j]),
                 CopyName(suite.models[j]) = CopyName(old)
          PROVE  j = i
      <4>1. Kin(suite.models[j], taken.models[j])
        BY <1>2
      <4>2. /\ taken.models[j].copied
            /\ taken.models[j].fixture = CopyName(old)
        BY <3>4, <4>1 DEF Kin
      <4>3. taken.models[j] \in ToSet(taken.models) /\ new \in ToSet(taken.models)
        BY <1>2 DEF ToSet
      <4>4. taken.models[j] = new
        BY <1>3, <3>1, <4>2, <4>3 DEF NoClash
      <4>5. suite.models[j].alias = suite.models[i].alias
        BY <2>1, <4>1, <4>4 DEF Kin
      <4> QED BY <1>1, <4>5 DEF Legal, Apart
    <3>5. /\ CopyName(old) \in DOMAIN Copies(suite)
          /\ Copies(suite)[CopyName(old)] = Source(old, command.dir)
      BY <1>1, <2>3, <3>4, CopiesFacts
    <3>6. SavedText(new, run) = Look(run.fixtures, CopyName(old))
      BY <3>1, <3>3 DEF SavedText
    <3> QED BY <1>3, <2>2, <3>2, <3>5, <3>6 DEF Look
  <2>4. CASE ~HasSource(old)
    <3>1. new = old
      BY <2>1, <2>4 DEF Kin
    <3>2. ~old.copied
      BY <2>1, <2>4, CopiesAreThere
    <3>3. CASE old.fixture = NoName
      BY <3>1, <3>3 DEF SavedText, Text
    <3>4. CASE old.fixture # NoName
      <4>1. Source(old, command.dir) = NoFile
        BY <2>4, <3>4 DEF HasSource
      <4>2. SavedText(new, run) = NoFile
        BY <3>1, <3>2, <3>4 DEF SavedText
      <4> QED BY <2>2, <3>4, <4>1, <4>2
    <3> QED BY <3>3, <3>4
  <2> QED BY <2>3, <2>4
<1> HIDE DEF taken, suite
<1>5. SavedTexts(run) = [i \in DOMAIN suite.models |->
                           Text(suite.models[i], command.dir, file, runs)]
  BY <1>2, <1>3, <1>4 DEF SavedTexts
<1> QED BY <1>5 DEF Texts, suite

LEMMA SnapshotsAreFaithful ==
  ASSUME OrderInv, SavedInv, ToldInv, Busy, command.doing = "comparison",
         command.todo = << >>, NEW run, Now(run)
  PROVE  Faithful(run) /\ Repeats(run, runs)
<1> DEFINE suite == command.suite
           taken == Snapshot(suite)
           texts == Texts(suite, command.dir, file, runs)
<1>1. Legal(suite)
  BY LegalWork
<1>2. /\ Legal(taken) /\ DOMAIN taken.models = DOMAIN suite.models
      /\ Len(taken.models) = Len(suite.models)
      /\ \A i \in DOMAIN suite.models : Kin(suite.models[i], taken.models[i])
      /\ \A k \in SuiteFields \ {"models"} : taken[k] = suite[k]
  BY <1>1, SnapshotFacts
<1>3. /\ run.suite = taken /\ run.results = command.results
      /\ run.options = command.options /\ run.origin = command.origin
  BY DEF Now
<1>4. Deterministic(suite) /\ command.options.only = NoName =>
        Said(suite, texts, command.results)
  <2> SUFFICES ASSUME RunsAll(command) PROVE Said(suite, texts, command.results)
    BY DEF RunsAll
  <2>1. CASE IsCascade(suite, suite.models)
    BY <2>1 DEF ToldInv, Told
  <2>2. CASE ~IsCascade(suite, suite.models)
    <3>1. InTurn(command, texts)
      BY <2>2 DEF ToldInv, Told
    <3>2. /\ IsList(command.results)
          /\ Len(command.results) + Len(<< >>) = Len(suite.models)
          /\ SaidInTurn(suite, texts, command.results, Len(command.results))
      BY <3>1 DEF InTurn
    <3>3. Len(command.results) = Len(suite.models)
      <4> DEFINE done == Len(command.results)
                 all == Len(suite.models)
      <4>1. done \in Nat /\ done + 0 = all
        BY <3>2, Lists, NoElements
      <4> HIDE DEF done, all
      <4>2. done = all
        BY <4>1
      <4> QED BY <4>2 DEF done, all
    <3> QED BY <2>2, <3>2, <3>3 DEF Said
  <2> QED BY <2>1, <2>2
<1> HIDE DEF taken, suite, texts
<1>5. ASSUME Nice(run) PROVE Said(run.suite, SavedTexts(run), run.results)
  <2>1. SavedTexts(run) = texts
    BY <1>5, SnapshotsKeepTexts DEF Nice, texts, suite
  <2>2. Deterministic(suite) /\ command.options.only = NoName
    BY <1>2, <1>3, <1>5 DEF Nice, Deterministic, Kin
  <2>3. \A i \in DOMAIN suite.models :
          taken.models[i].alias = suite.models[i].alias
    BY <1>2 DEF Kin
  <2>4. Said(taken, texts, command.results)
    BY <1>1, <1>2, <1>4, <2>2, <2>3, SnapshotSays
  <2> QED BY <1>3, <2>1, <2>4
<1>6. ASSUME command.origin # Here
      PROVE  /\ command.origin \in DOMAIN runs
             /\ Nice(runs[command.origin]) =>
                  command.results = runs[command.origin].results
  <2> DEFINE r == command.origin
             origin == runs[r]
  <2>1. /\ r \in DOMAIN runs /\ command.dir = r /\ suite = origin.suite
        /\ command.options = NoOptions
    BY <1>6 DEF OrderInv, Ordered, OfFile, OfRun, suite
  <2>2. ASSUME Nice(origin) PROVE command.results = origin.results
    <3>1. Faithful(origin)
      BY <2>1 DEF SavedInv
    <3>2. Said(suite, SavedTexts(origin), origin.results)
      BY <2>1, <2>2, <3>1 DEF Faithful
    <3>3. Texts(origin.suite, r, file, runs) = SavedTexts(origin)
      BY <2>1, TextsAreSaved
    <3>4. Said(suite, SavedTexts(origin), command.results)
      <4>1. NoOptions.only = NoName
        BY DEF NoOptions
      <4>2. texts = SavedTexts(origin)
        BY <2>1, <3>3 DEF texts
      <4> QED BY <1>4, <2>1, <2>2, <4>1, <4>2 DEF Nice
    <3> HIDE DEF origin
    <3> QED BY <1>1, <3>2, <3>4, SaidOnce
  <2> QED BY <2>1, <2>2
<1> QED BY <1>3, <1>5, <1>6 DEF Faithful, Repeats

(* A reproduction of a nice run does not fail.                             *)
LEMMA NothingFails ==
  ASSUME OrderInv, SavedInv, ToldInv, Shape, RunModel \/ RunCascade
  PROVE  EndsWell(command', runs)
<1> SUFFICES ASSUME command'.doing = "ended", command'.origin \in DOMAIN runs,
                    Nice(runs[command'.origin])
             PROVE  FALSE
  BY DEF EndsWell
<1>1. Kept /\ Busy /\ command.doing \in {"cascade", "comparison"}
  <2>1. CASE RunModel
    BY <2>1, RunFacts DEF Busy
  <2>2. CASE RunCascade
    BY <2>2, CascadeFacts DEF Busy
  <2> QED BY <2>1, <2>2
<1> DEFINE r == command.origin
           suite == command.suite
           texts == Texts(suite, r, file, runs)
<1>2. command'.origin = r
  BY <1>1 DEF Kept
<1>3. r \in DOMAIN runs /\ r # Here /\ Nice(runs[r])
  BY <1>2, Lists DEF OrderInv, Saved, Here
<1>4. OfRun
  BY <1>1, <1>3 DEF OrderInv, Ordered, OfFile
<1>5. suite = runs[r].suite /\ command.dir = r /\ command.options = NoOptions
  BY <1>4 DEF OfRun
<1>6. RunsAll(command)
  BY <1>1, <1>3, <1>5 DEF RunsAll, Nice, NoOptions
<1>7. Said(suite, texts, runs[r].results)
  <2>1. Faithful(runs[r])
    BY <1>3 DEF SavedInv
  <2>2. texts = SavedTexts(runs[r])
    BY <1>3, <1>5, TextsAreSaved
  <2> QED BY <1>3, <1>5, <2>1, <2>2 DEF Faithful
<1>8. CASE RunModel
  <2> DEFINE i == Len(command.results) + 1
             model == suite.models[i]
             text == Text(model, r, file, runs)
  <2>1. /\ command.doing = "comparison" /\ command.todo # << >>
        /\ \/ Build(Head(command.todo), r, command.hosted) # SUCCESS
           \/ Raises(Head(command.todo), r) /\ Count(suite) > 0
    BY <1>5, <1>8, RunFacts
  <2>2. /\ ~IsCascade(suite, suite.models) /\ i \in DOMAIN suite.models
        /\ Head(command.todo) = model /\ model.kind = "deterministic"
        /\ texts[i] = text
    BY <1>5, <1>6, <2>1, WhoseTurn
  <2>3. i \in 1 .. Len(suite.models)
    <3>1. Legal(suite)
      BY <1>1, LegalWork
    <3>2. DOMAIN suite.models = 1 .. Len(suite.models)
      BY <3>1, Lists DEF Legal, IsSuite
    <3> QED BY <2>2, <3>2
  <2>4. SaidInTurn(suite, texts, runs[r].results, Len(suite.models))
    BY <1>7, <2>2 DEF Said
  <2> HIDE DEF i, model, text, texts, suite, r
  <2>5. Works(text) /\ (text \in Raising => ~(Count(suite) > 0))
    BY <2>2, <2>3, <2>4 DEF SaidInTurn
  <2>6. /\ Build(model, r, command.hosted) = SUCCESS <=> Works(text)
        /\ Raises(model, r) <=> text \in Raising
    BY <2>2, DeterministicFacts DEF text
  <2> QED BY <2>1, <2>2, <2>5, <2>6
<1>9. CASE RunCascade
  <2> DEFINE First(c) == ModelByAlias(suite, c.first)
             Second(c) == ModelByAlias(suite, c.second)
  <2>1. command.doing = "cascade"
    BY <1>9, CascadeFacts
  <2>2. PICK c \in suite.cascade :
          \/ Build(First(c), r, command.hosted) # SUCCESS
          \/ Build(Second(c), r, command.hosted) # SUCCESS
          \/ Raises(First(c), r)
          \/ /\ Raises(Second(c), r)
             /\ \E s \in Statuses(First(c), r) : s \in c.escalates
    BY <1>5, <1>9, CascadeFacts
  <2>3. IsCascade(suite, suite.models)
    BY <1>6, <2>1 DEF ToldInv, Told, InTurn
  <2>4. Legal(suite)
    BY <1>1, LegalWork
  <2>5. SaidInCascade(suite, texts, runs[r].results, c)
    <3>1. PICK d \in suite.cascade :
            SaidInCascade(suite, texts, runs[r].results, d)
      BY <1>7, <2>3 DEF Said
    <3>2. c = d
      BY <2>4 DEF Legal, IsSuite
    <3> QED BY <3>1, <3>2
  <2>6. PICK i, j \in DOMAIN suite.models :
          /\ suite.models[i].alias = c.first /\ suite.models[j].alias = c.second
          /\ Works(texts[i]) /\ Works(texts[j]) /\ texts[i] \notin Raising
          /\ StatusOf(texts[i]) \in c.escalates => texts[j] \notin Raising
    BY <2>5 DEF SaidInCascade
  <2>7. First(c) = suite.models[i] /\ Second(c) = suite.models[j]
    <3>1. c.first \in AliasesOf(suite) /\ c.second \in AliasesOf(suite)
      BY <2>6 DEF AliasesOf, ToSet
    <3>2. /\ First(c) \in ToSet(suite.models) /\ First(c).alias = c.first
          /\ Second(c) \in ToSet(suite.models) /\ Second(c).alias = c.second
      BY <3>1, FoundByAlias
    <3> QED BY <2>4, <2>6, <3>2 DEF Legal, Apart, ToSet
  <2> DEFINE first == suite.models[i]
             second == suite.models[j]
             one == Text(first, r, file, runs)
             two == Text(second, r, file, runs)
  <2>8. texts[i] = one /\ texts[j] = two
    BY DEF Texts
  <2>9. first.kind = "deterministic" /\ second.kind = "deterministic"
    BY <1>6 DEF RunsAll, Deterministic
  <2> HIDE DEF suite, r, texts, First, Second
  <2>10. /\ Build(first, r, command.hosted) = SUCCESS <=> Works(one)
         /\ Raises(first, r) <=> one \in Raising
         /\ Statuses(first, r) = {StatusOf(one)}
    BY <2>9, DeterministicFacts
  <2>11. /\ Build(second, r, command.hosted) = SUCCESS <=> Works(two)
         /\ Raises(second, r) <=> two \in Raising
    BY <2>9, DeterministicFacts
  <2> HIDE DEF first, second, one, two
  <2> QED BY <2>2, <2>6, <2>7, <2>8, <2>10, <2>11 DEF first, second
<1> QED BY <1>8, <1>9

LEMMA SavingIsSaid ==
  ASSUME OrderInv, SavedInv, ToldInv, Shape, Save
  PROVE  SavedInv'
<1> DEFINE suite == command.suite
           taken == Snapshot(suite)
           fixtures == Copies(suite)
           decided == Decisions(suite)
           drift == /\ command.origin # Here
                    /\ runs[command.origin].manifest # [suite |-> suite]
           run == [suite |-> taken, manifest |-> [suite |-> taken],
                   fixtures |-> fixtures, origin |-> command.origin,
                   results |-> command.results, options |-> command.options,
                   decided |-> decided, drift |-> drift]
           more == Append(runs, run)
<1>1. runs' = more
  BY DEF Save, ManifestOf
<1>2. Now(run)
  BY DEF Now
<1>3. /\ command.doing = "comparison" /\ command.todo = << >> /\ Kept
      /\ command'.saved = TRUE
  BY SaveFacts
<1> HIDE DEF run
<1>4. Plain(run) /\ Faithful(run) /\ Repeats(run, runs)
  BY <1>2, <1>3, SnapshotsArePlain, SnapshotsAreFaithful DEF Busy
<1>5. /\ DOMAIN more = DOMAIN runs \cup {Len(runs) + 1}
      /\ \A r \in DOMAIN runs : more[r] = runs[r]
      /\ more[Len(runs) + 1] = run
  BY OneMore DEF OrderInv, Saved
<1> HIDE DEF more
<1>6. \A one : Repeats(one, runs) => Repeats(one, more)
  BY <1>5 DEF Repeats
<1>7. ASSUME NEW r \in DOMAIN more
      PROVE  Plain(more[r]) /\ Faithful(more[r]) /\ Repeats(more[r], more)
  <2>1. CASE r \in DOMAIN runs
    <3>1. Plain(runs[r]) /\ Faithful(runs[r]) /\ Repeats(runs[r], runs)
      BY <2>1 DEF SavedInv
    <3> QED BY <1>5, <1>6, <2>1, <3>1
  <2>2. CASE r = Len(runs) + 1
    BY <1>4, <1>5, <1>6, <2>2
  <2> QED BY <1>5, <2>1, <2>2
<1>8. EndsWell(command', more)
  BY <1>3 DEF EndsWell
<1>9. EndsWell(command', runs')
  BY <1>1, <1>8
<1>10. \A r \in DOMAIN runs' :
         Plain(runs'[r]) /\ Faithful(runs'[r]) /\ Repeats(runs'[r], runs')
  BY <1>1, <1>7
<1> QED BY <1>9, <1>10 DEF SavedInv

LEMMA SavedSteps ==
  ConsentInv /\ OrderInv /\ ToldInv /\ SavedInv /\ [Next]_vars => SavedInv'
<1> SUFFICES ASSUME ConsentInv, OrderInv, ToldInv, SavedInv, [Next]_vars
             PROVE  SavedInv'
  OBVIOUS
<1>0. Shape
  BY DEF ConsentInv
<1>1. ASSUME UNCHANGED runs, EndsWell(command', runs) PROVE SavedInv'
  <2>1. \A r \in DOMAIN runs' :
          Plain(runs'[r]) /\ Faithful(runs'[r]) /\ Repeats(runs'[r], runs')
    BY <1>1 DEF SavedInv
  <2>2. EndsWell(command', runs')
    BY <1>1
  <2> QED BY <2>1, <2>2 DEF SavedInv
<1>2. ASSUME UNCHANGED <<runs, command>> PROVE SavedInv'
  <2>1. EndsWell(command', runs)
    BY <1>2 DEF SavedInv
  <2> QED BY <1>1, <1>2, <2>1
<1>3. ASSUME UNCHANGED runs, command'.doing # "ended" \/ command'.origin = Here
      PROVE  SavedInv'
  <2>1. Here \notin DOMAIN runs
    BY Lists DEF OrderInv, Saved, Here
  <2>2. EndsWell(command', runs)
    BY <1>3, <2>1 DEF EndsWell
  <2> QED BY <1>1, <1>3, <2>2
<1>4. CASE EditFixture \/ ServerChanges \/ UNCHANGED vars
  BY <1>2, <1>4 DEF EditFixture, ServerChanges, vars
<1>5. CASE \E options \in Invocations : StartRun(suiteFile, options)
  <2>1. PICK options \in Invocations : StartRun(suiteFile, options)
    BY <1>5
  <2> DEFINE suite == Overridden(suiteFile, options)
             doing == Doing(options, suite, options.only)
             hosted == HostedEnabled(suite, options)
             only == options.only
  <2>2. \/ command'.origin = Here
        \/ Begin(doing, suite, Here, Here, options, hosted, only)
    BY <2>1, StartFacts
  <2> HIDE DEF suite, doing, hosted, only
  <2>3. command'.origin = Here
    BY <2>2, BeginFacts
  <2> QED BY <1>3, <2>1, <2>3 DEF StartRun
<1>6. CASE \E r \in DOMAIN runs : Reproduce(r)
  <2>1. PICK r \in DOMAIN runs : Reproduce(r)
    BY <1>6
  <2>2. UNCHANGED runs
    BY <2>1 DEF Reproduce
  <2>3. CASE ~FieldsValid(runs[r].suite)
    <3>1. command'.origin = r
      BY <2>1, <2>3, ReproduceFacts
    <3>2. EndsWell(command', runs)
      BY <2>3, <3>1 DEF EndsWell
    <3> QED BY <1>1, <2>2, <3>2
  <2>4. CASE FieldsValid(runs[r].suite)
    <3> DEFINE suite == runs[r].suite
               no == FALSE
    <3>1. PICK doing \in {"cascade", "comparison"} :
            Begin(doing, suite, r, r, NoOptions, no, NoName)
      BY <2>1, <2>4, ReproduceFacts
    <3> HIDE DEF suite, no
    <3>2. command'.doing = doing
      BY <3>1, BeginFacts
    <3>3. command'.doing # "ended"
      BY <3>2
    <3> QED BY <1>3, <2>2, <3>3
  <2> QED BY <2>3, <2>4
<1>7. CASE CheckModel \/ EndDryRun
  <2>1. command.doing = "dry_run" /\ Kept /\ UNCHANGED runs
    <3>1. CASE CheckModel
      BY <1>0, <3>1, CheckFacts DEF CheckModel
    <3>2. CASE EndDryRun
      BY <1>0, <3>2, DryRunFacts DEF EndDryRun
    <3> QED BY <1>7, <3>1, <3>2
  <2>2. command.origin = Here
    BY <2>1 DEF OrderInv, Ordered, Busy, OfFile, OfRun
  <2>3. command'.origin = Here
    BY <2>1, <2>2 DEF Kept
  <2> QED BY <1>3, <2>1, <2>3
<1>8. CASE RunModel \/ RunCascade
  <2>1. UNCHANGED runs
    BY <1>8 DEF RunModel, RunCascade
  <2>2. EndsWell(command', runs)
    BY <1>0, <1>8, NothingFails
  <2> QED BY <1>1, <2>1, <2>2
<1>9. CASE Save
  BY <1>0, <1>9, SavingIsSaid
<1>10. CASE Breaks
  <2>1. UNCHANGED runs /\ command'.broken
    BY <1>0, <1>10, BreakFacts
  <2>2. EndsWell(command', runs)
    BY <2>1 DEF EndsWell
  <2> QED BY <1>1, <2>1, <2>2
<1> QED BY <1>4, <1>5, <1>6, <1>7, <1>8, <1>9, <1>10 DEF Next, Breaks

(* A run can be re-executed exactly: whatever the user does to the fixture *)
(* files between the two, a run of deterministic models, all of them, with *)
(* legal options and no two copies under one name, is reproduced with the  *)
(* same results and without a failure but that of the save, and so is its  *)
(* reproduction; and `reproduce` reports no drift that is not there.       *)
THEOREM RunsRepeat == Spec => []ReproductionRepeats
<1>1. Init => SavedInv
  BY NoElements DEF Init, Idle, SavedInv, EndsWell
<1>2. Spec => []SavedInv
  BY <1>1, SavedSteps, ToldInvariant, OrderInvariant, ConsentInvariant, PTL
     DEF Spec
<1>3. OrderInv /\ SavedInv => ReproductionRepeats
  <2> SUFFICES ASSUME OrderInv, SavedInv, NEW r \in DOMAIN runs
               PROVE  /\ ~runs[r].drift
                      /\ /\ OnDeterministicModels(r) /\ OnAllModels(r)
                         /\ FieldsValid(runs[r].suite) /\ CopiesKeptApart(r)
                         => Reproduces(r)
    BY DEF ReproductionRepeats
  <2>1. ~runs[r].drift
    BY DEF SavedInv, Plain
  <2>2. ASSUME OnDeterministicModels(r), OnAllModels(r),
               FieldsValid(runs[r].suite), CopiesKeptApart(r)
        PROVE  Reproduces(r)
    <3>1. Nice(runs[r])
      BY <2>2 DEF Nice, Deterministic, NoClash, OnDeterministicModels,
                  OnAllModels, CopiesKeptApart, ToSet
    <3>2. Ended(r) => command.saved \/ command.broken
      BY <2>2, <3>1 DEF SavedInv, EndsWell, Ended
    <3>3. ASSUME NEW s \in DOMAIN runs, runs[s].origin = r
          PROVE  runs[s].results = runs[r].results
      <4>1. Repeats(runs[s], runs)
        BY DEF SavedInv
      <4>2. r # Here
        BY Lists DEF OrderInv, Saved, Here
      <4> QED BY <3>1, <3>3, <4>1, <4>2 DEF Repeats
    <3> QED BY <3>2, <3>3 DEF Reproduces
  <2> QED BY <2>1, <2>2
<1> QED BY <1>2, <1>3, OrderInvariant, PTL

-----------------------------------------------------------------------------
(* Price lists. *)

(* A key is listed first at i.  Index finds it there, and is 0 for a key    *)
(* that is not listed.                                                     *)
FirstAt(entries, key, i) ==
  /\ i \in DOMAIN entries /\ entries[i].key = key
  /\ \A j \in DOMAIN entries : entries[j].key = key => i <= j
Unlisted(entries, key) == \A i \in DOMAIN entries : entries[i].key # key

LEMMA IndexIsFirst ==
  ASSUME NEW entries, IsList(entries), NEW key
  PROVE  \/ PriceLists!Index(entries, key) = 0 /\ Unlisted(entries, key)
         \/ /\ PriceLists!Index(entries, key) # 0
            /\ FirstAt(entries, key, PriceLists!Index(entries, key))
<1> DEFINE places == {i \in 1 .. Len(entries) : entries[i].key = key}
<1>1. Len(entries) \in Nat /\ DOMAIN entries = 1 .. Len(entries)
  BY Lists
<1>2. PriceLists!Index(entries, key)
        = IF places # {} THEN PriceLists!Min(places) ELSE 0
  BY DEF PriceLists!Index, PriceLists!SelectInSeq
<1>3. CASE places = {}
  BY <1>1, <1>2, <1>3 DEF Unlisted
<1>4. CASE places # {}
  <2>1. places \subseteq Nat
    BY <1>1
  <2>2. \E i \in places : \A j \in places : i <= j
    BY ONLY <1>4, <2>1, LeastNatural
  <2>3. PriceLists!Min(places) \in places
        /\ \A j \in places : PriceLists!Min(places) <= j
    BY <2>2 DEF PriceLists!Min
  <2> QED BY <1>1, <1>2, <1>4, <2>3 DEF FirstAt
<1> QED BY <1>3, <1>4

LEMMA FirstIsIndex ==
  ASSUME NEW entries, IsList(entries), NEW key, NEW i, FirstAt(entries, key, i)
  PROVE  PriceLists!Index(entries, key) = i
<1>1. DOMAIN entries = 1 .. Len(entries) /\ Len(entries) \in Nat
  BY Lists
<1> QED BY <1>1, IndexIsFirst DEF FirstAt, Unlisted

(* get finds a price for a key.                                            *)
Found(entries, key, price) ==
  \E i \in DOMAIN entries : FirstAt(entries, key, i) /\ entries[i].price = price

LEMMA FoundAtIndex ==
  ASSUME NEW entries, IsList(entries), NEW key, NEW price
  PROVE  Found(entries, key, price)
         <=> /\ PriceLists!Index(entries, key) # 0
             /\ entries[PriceLists!Index(entries, key)].price = price
<1>1. DOMAIN entries = 1 .. Len(entries) /\ Len(entries) \in Nat
  BY Lists
<1> QED BY <1>1, IndexIsFirst, FirstIsIndex DEF Found, FirstAt, Unlisted

(* A model is duplicated that is listed at two places.                     *)
Twice(entries, key) ==
  \E i \in DOMAIN entries, j \in DOMAIN entries :
    i # j /\ entries[i].key = key /\ entries[j].key = key

LEMMA DuplicatedTwice ==
  ASSUME NEW entries, IsList(entries), NEW key \in Keys
  PROVE  key \in PriceLists!Duplicated(entries) <=> Twice(entries, key)
<1> DEFINE places == {i \in DOMAIN entries : entries[i].key = key}
<1>1. IsFiniteSet(DOMAIN entries)
  BY Lists, FS_Interval
<1>2. IsFiniteSet(places)
  BY <1>1, FS_Subset
<1>3. key \in PriceLists!Duplicated(entries) <=> Cardinality(places) > 1
  BY DEF PriceLists!Duplicated, PriceLists!Cardinality, Cardinality
<1> HIDE DEF places
<1>4. Cardinality(places) \in Nat
  BY <1>2, FS_CardinalityType
<1>5. ASSUME Cardinality(places) > 1
      PROVE  \E i \in places, j \in places : i # j
  <2>1. places # {}
    BY <1>5, FS_EmptySet
  <2>2. PICK i \in places : TRUE
    BY <2>1
  <2>3. places # {i}
    BY <1>5, FS_Singleton
  <2> QED BY <2>2, <2>3
<1>6. ASSUME NEW i \in places, NEW j \in places, i # j
      PROVE  Cardinality(places) > 1
  <2>1. Cardinality(places) # 0
    BY <1>2, <1>6, FS_EmptySet
  <2>2. Cardinality(places) # 1
    BY <1>2, <1>6, FS_Singleton
  <2> QED BY <1>4, <2>1, <2>2
<1> QED BY <1>3, <1>5, <1>6 DEF Twice, places

(* The price of a measured entry is the measured one, and no model is       *)
(* listed twice that the user had not.                                     *)
MeasuredIsTold(entries) ==
  \A i \in DOMAIN entries :
    entries[i].measured => entries[i].price = Measured[entries[i].key]
KeptPrices(entries) ==
  /\ IsList(entries) /\ MeasuredIsTold(entries)
  /\ \A key \in Keys : Twice(entries, key) => Twice(OriginalPrices, key)

LEMMA NoPricesKept == KeptPrices(<< >>)
<1>1. IsList(<< >>) /\ DOMAIN << >> = {}
  BY NoElements
<1> QED BY <1>1 DEF KeptPrices, MeasuredIsTold, Twice

(* What is set again keeps its place.                                      *)
Again(entries, i, price) ==
  [entries EXCEPT ![i] = PriceLists!Entry(@.key, price, FALSE)]

LEMMA SetAgain ==
  ASSUME NEW entries, KeptPrices(entries), NEW key, NEW price,
         NEW i, FirstAt(entries, key, i), NEW after, after = Again(entries, i, price)
  PROVE  /\ KeptPrices(after) /\ Found(after, key, price)
         /\ \A k, p : k # key /\ Found(entries, k, p) => Found(after, k, p)
<1>1. i \in DOMAIN entries /\ entries[i].key = key
  BY DEF FirstAt
<1>2. /\ DOMAIN after = DOMAIN entries
      /\ after[i] = [key |-> key, price |-> price, measured |-> FALSE]
      /\ \A j \in DOMAIN entries : j # i => after[j] = entries[j]
  BY <1>1 DEF Again, PriceLists!Entry
<1>3. \A j \in DOMAIN entries : after[j].key = entries[j].key
  BY ONLY <1>1, <1>2
<1>4. IsList(after)
  <2>1. Len(entries) \in Nat /\ DOMAIN entries = 1 .. Len(entries)
    BY Lists DEF KeptPrices
  <2>2. after = [j \in 1 .. Len(entries) |-> after[j]]
    BY <2>1 DEF Again
  <2> QED BY <2>1, <2>2, FunctionList
<1>5. MeasuredIsTold(after)
  <2>1. MeasuredIsTold(entries)
    BY DEF KeptPrices
  <2> QED BY ONLY <1>1, <1>2, <2>1 DEF MeasuredIsTold
<1>6. \A k \in Keys : Twice(after, k) => Twice(entries, k)
  BY ONLY <1>2, <1>3 DEF Twice
<1>7. \A k, j : FirstAt(entries, k, j) => FirstAt(after, k, j)
  BY ONLY <1>2, <1>3 DEF FirstAt
<1>8. Found(after, key, price)
  <2>1. FirstAt(after, key, i)
    BY <1>7
  <2> QED BY ONLY <1>1, <1>2, <2>1 DEF Found
<1>9. ASSUME NEW k, NEW p, k # key, Found(entries, k, p) PROVE Found(after, k, p)
  <2>1. PICK j \in DOMAIN entries : FirstAt(entries, k, j) /\ entries[j].price = p
    BY <1>9 DEF Found
  <2>2. j # i
    BY <1>1, <1>9, <2>1 DEF FirstAt
  <2> QED BY ONLY <1>2, <1>7, <2>1, <2>2 DEF Found
<1> QED BY <1>4, <1>5, <1>6, <1>8, <1>9 DEF KeptPrices

(* A model that is not listed is added at the end.                         *)
LEMMA AddedPrice ==
  ASSUME NEW entries, KeptPrices(entries), NEW entry, Unlisted(entries, entry.key),
         entry.measured => entry.price = Measured[entry.key],
         NEW after, after = Append(entries, entry)
  PROVE  /\ KeptPrices(after) /\ Found(after, entry.key, entry.price)
         /\ \A k, p : Found(entries, k, p) => Found(after, k, p)
<1> DEFINE n == Len(entries)
<1>1. n \in Nat /\ DOMAIN entries = 1 .. n
  BY Lists DEF KeptPrices
<1>2. /\ IsList(after) /\ DOMAIN after = DOMAIN entries \cup {n + 1}
      /\ \A j \in DOMAIN entries : after[j] = entries[j]
      /\ after[n + 1] = entry
  BY OneMore DEF KeptPrices
<1> HIDE DEF n
<1>3. MeasuredIsTold(after)
  BY <1>2 DEF KeptPrices, MeasuredIsTold
<1>4. ASSUME NEW k \in Keys, Twice(after, k) PROVE Twice(entries, k)
  <2>1. PICK i \in DOMAIN after, j \in DOMAIN after :
          i # j /\ after[i].key = k /\ after[j].key = k
    BY <1>4 DEF Twice
  <2>2. i \in DOMAIN entries /\ j \in DOMAIN entries
    <3>1. ASSUME k = entry.key, NEW l \in DOMAIN entries PROVE after[l].key # k
      BY <1>2, <3>1 DEF Unlisted
    <3> QED BY <1>2, <2>1, <3>1
  <2> QED BY <1>2, <2>1, <2>2 DEF Twice
<1>5. ASSUME NEW k, NEW j, FirstAt(entries, k, j) PROVE FirstAt(after, k, j)
  BY <1>1, <1>2, <1>5 DEF FirstAt
<1>6. FirstAt(after, entry.key, n + 1)
  BY <1>1, <1>2 DEF FirstAt, Unlisted
<1>7. Found(after, entry.key, entry.price)
  BY <1>2, <1>6 DEF Found
<1>8. \A k, p : Found(entries, k, p) => Found(after, k, p)
  BY <1>2, <1>5 DEF Found
<1> QED BY <1>2, <1>3, <1>4, <1>7, <1>8 DEF KeptPrices

(* SetPrice keeps all there is to keep, and its price is found after it.   *)
LEMMA SetPriceKeeps ==
  ASSUME NEW entries, KeptPrices(entries), NEW key, NEW price
  PROVE  /\ KeptPrices(PriceLists!SetPrice(entries, key, price))
         /\ Found(PriceLists!SetPrice(entries, key, price), key, price)
         /\ \A k, p : k # key /\ Found(entries, k, p)
              => Found(PriceLists!SetPrice(entries, key, price), k, p)
<1> DEFINE i == PriceLists!Index(entries, key)
           after == PriceLists!SetPrice(entries, key, price)
<1>1. \/ i = 0 /\ Unlisted(entries, key)
      \/ i # 0 /\ FirstAt(entries, key, i)
  BY IndexIsFirst DEF KeptPrices
<1>2. after = IF i = 0 THEN Append(entries, PriceLists!Entry(key, price, FALSE))
              ELSE Again(entries, i, price)
  BY DEF PriceLists!SetPrice, Again
<1> HIDE DEF i, after
<1>3. CASE i = 0
  <2> DEFINE entry == PriceLists!Entry(key, price, FALSE)
  <2>1. after = Append(entries, entry)
    BY <1>2, <1>3
  <2>2. /\ Unlisted(entries, entry.key) /\ ~entry.measured
        /\ entry.key = key /\ entry.price = price
    BY <1>1, <1>3 DEF PriceLists!Entry
  <2> HIDE DEF entry
  <2>3. /\ KeptPrices(after) /\ Found(after, key, price)
        /\ \A k, p : Found(entries, k, p) => Found(after, k, p)
    BY KeptPrices(entries), <2>1, <2>2, AddedPrice
  <2> QED BY <2>3 DEF after
<1>4. CASE i # 0
  <2>1. after = Again(entries, i, price)
    BY <1>2, <1>4
  <2>2. FirstAt(entries, key, i)
    BY <1>1, <1>4
  <2>3. /\ KeptPrices(after) /\ Found(after, key, price)
        /\ \A k, p : k # key /\ Found(entries, k, p) => Found(after, k, p)
    BY <2>1, <2>2, SetAgain
  <2> QED BY <2>3 DEF after
<1> QED BY <1>3, <1>4

(* An entry that is removed takes no other with it.                        *)
LEMMA RemovedPrice ==
  ASSUME NEW entries, KeptPrices(entries), NEW i \in DOMAIN entries
  PROVE  /\ KeptPrices(PriceLists!RemoveAt(entries, i))
         /\ \A k, p : k # entries[i].key /\ Found(entries, k, p)
              => Found(PriceLists!RemoveAt(entries, i), k, p)
<1> DEFINE n == Len(entries)
           after == PriceLists!RemoveAt(entries, i)
           before == SubSeq(entries, 1, i - 1)
           behind == SubSeq(entries, i + 1, n)
           T == {entries[j] : j \in DOMAIN entries}
           place(j) == IF j < i THEN j ELSE j + 1
<1>1. n \in Nat /\ DOMAIN entries = 1 .. n
  BY Lists DEF KeptPrices
<1>2. after = before \o behind
  BY DEF PriceLists!RemoveAt
<1>3. /\ before \in Seq(T) /\ Len(before) = i - 1
      /\ \A j \in 1 .. i - 1 : before[j] = entries[j]
  BY <1>1, SubSeqProperties
<1>4. /\ behind \in Seq(T) /\ Len(behind) = n - i
      /\ \A j \in 1 .. n - i : behind[j] = entries[i + j]
  <2>1. \A j \in i + 1 .. n : entries[j] \in T
    BY <1>1
  <2>2. /\ behind \in Seq(T) /\ Len(behind) = IF i + 1 <= n THEN n - (i + 1) + 1 ELSE 0
        /\ \A j \in 1 .. n - (i + 1) + 1 : behind[j] = entries[i + 1 + j - 1]
    BY <1>1, <2>1, SubSeqProperties
  <2> HIDE DEF behind, n, T
  <2>3. Len(behind) = n - i
    BY <1>1, <2>2
  <2>4. ASSUME NEW j \in 1 .. n - i PROVE behind[j] = entries[i + j]
    <3>1. j \in 1 .. n - (i + 1) + 1 /\ i + 1 + j - 1 = i + j
      BY <1>1
    <3> QED BY ONLY <2>2, <3>1
  <2> QED BY <2>2, <2>3, <2>4
<1> HIDE DEF before, behind, after
<1>5. IsList(before) /\ IsList(behind)
  BY <1>3, <1>4, ListOf
<1>6. /\ IsList(after) /\ Len(after) = n - 1
      /\ \A j \in DOMAIN before : after[j] = before[j]
      /\ \A j \in DOMAIN behind : after[i - 1 + j] = behind[j]
  <2>1. /\ IsList(after) /\ Len(after) = Len(before) + Len(behind)
        /\ \A j \in DOMAIN before : after[j] = before[j]
        /\ \A j \in DOMAIN behind : after[Len(before) + j] = behind[j]
    BY <1>2, <1>5, TwoLists
  <2> HIDE DEF n, T
  <2>2. Len(before) + Len(behind) = n - 1
    BY <1>1, <1>3, <1>4
  <2> QED BY <1>3, <2>1, <2>2
<1>7. /\ DOMAIN after = 1 .. n - 1 /\ DOMAIN before = 1 .. i - 1
      /\ DOMAIN behind = 1 .. n - i
  BY <1>3, <1>4, <1>5, <1>6, Lists
<1> HIDE DEF n
<1>8. \A j \in DOMAIN after : place(j) \in DOMAIN entries /\ after[j] = entries[place(j)]
  <2> TAKE j \in DOMAIN after
  <2>1. CASE j < i
    BY <1>1, <1>3, <1>6, <1>7, <2>1
  <2>2. CASE j >= i
    <3>1. j - (i - 1) \in DOMAIN behind /\ i - 1 + (j - (i - 1)) = j
          /\ i + (j - (i - 1)) = j + 1
      BY <1>1, <1>7, <2>2
    <3>2. after[i - 1 + (j - (i - 1))] = behind[j - (i - 1)]
      BY ONLY <1>6, <3>1
    <3>3. behind[j - (i - 1)] = entries[i + (j - (i - 1))]
      BY ONLY <1>4, <1>7, <3>1
    <3> QED BY <1>1, <1>7, <2>2, <3>1, <3>2, <3>3
  <2> QED BY <1>1, <1>7, <2>1, <2>2
<1>9. \A j \in DOMAIN entries : j # i =>
        \E l \in DOMAIN after : j = place(l)
  <2> TAKE j \in DOMAIN entries
  <2>1. CASE j < i
    BY <1>1, <1>7, <2>1
  <2>2. CASE j > i
    <3>1. j - 1 \in DOMAIN after /\ place(j - 1) = j
      BY <1>1, <1>7, <2>2
    <3> QED BY <3>1
  <2> QED BY <1>1, <2>1, <2>2
<1>10. \A j, l \in DOMAIN after : j # l => place(j) # place(l)
  BY <1>1, <1>7
<1>11. \A j, l \in DOMAIN after : place(j) <= place(l) => j <= l
  BY <1>1, <1>7
<1> HIDE DEF place
<1>12. MeasuredIsTold(after)
  BY <1>8 DEF KeptPrices, MeasuredIsTold
<1>13. \A k \in Keys : Twice(after, k) => Twice(entries, k)
  <2> SUFFICES ASSUME NEW k \in Keys, Twice(after, k) PROVE Twice(entries, k)
    OBVIOUS
  <2>1. PICK j \in DOMAIN after, l \in DOMAIN after :
          j # l /\ after[j].key = k /\ after[l].key = k
    BY DEF Twice
  <2>2. place(j) # place(l) /\ place(j) \in DOMAIN entries /\ place(l) \in DOMAIN entries
    BY ONLY <1>8, <1>10, <2>1
  <2>3. entries[place(j)].key = k /\ entries[place(l)].key = k
    BY ONLY <1>8, <2>1
  <2> QED BY <2>2, <2>3 DEF Twice
<1>14. ASSUME NEW k, NEW p, k # entries[i].key, Found(entries, k, p)
       PROVE  Found(after, k, p)
  <2>1. PICK j \in DOMAIN entries : FirstAt(entries, k, j) /\ entries[j].price = p
    BY <1>14 DEF Found
  <2>2. PICK l \in DOMAIN after : j = place(l)
    BY <1>9, <1>14, <2>1 DEF FirstAt
  <2>3. after[l].key = k
    BY <1>8, <2>1, <2>2 DEF FirstAt
  <2>4. ASSUME NEW o \in DOMAIN after, after[o].key = k PROVE l <= o
    <3>1. place(o) \in DOMAIN entries /\ entries[place(o)].key = k
      BY <1>8, <2>4
    <3>2. place(l) <= place(o)
      BY <2>1, <2>2, <3>1 DEF FirstAt
    <3> QED BY <1>11, <3>2
  <2>5. FirstAt(after, k, l)
    BY <2>3, <2>4 DEF FirstAt
  <2> QED BY <1>8, <2>1, <2>2, <2>5 DEF Found
<1> QED BY <1>6, <1>12, <1>13, <1>14 DEF KeptPrices, after

-----------------------------------------------------------------------------
(* All that was told to be set is found in the list, but for the key that   *)
(* is being set.                                                           *)
Finds(entries, set) == \A t \in set : Found(entries, t.key, t.price)
FindsOthers(entries, set, key) ==
  \A t \in set : t.key # key => Found(entries, t.key, t.price)

CommandOfPrices ==
  {"doing", "command", "entries", "told", "code", "warned"}
PriceShape ==
  /\ DOMAIN pricer = PriceWriters
  /\ \A p \in PriceWriters :
       pricer[p] = [k \in CommandOfPrices |-> pricer[p][k]]

(* What a command is about to write has its price, and those it had read.  *)
ReadyToWrite(c) ==
  /\ KeptPrices(c.entries) /\ Found(c.entries, c.command.key, c.command.price)
  /\ FindsOthers(c.entries, c.told, c.command.key)
WritersAreReady ==
  \A p \in PriceWriters :
    pricer[p].doing \in {"writable", "writing"} => ReadyToWrite(pricer[p])
FileIsKept == KeptPrices(priceFile.entries) /\ Finds(priceFile.entries, told)

PricesInv == PriceShape /\ WritersAreReady /\ FileIsKept

LEMMA PricesInvSays == PricesInv => PriceLists!SetIsKept
<1> SUFFICES ASSUME PricesInv PROVE PriceLists!SetIsKept
  OBVIOUS
<1>1. KeptPrices(priceFile.entries) /\ Finds(priceFile.entries, told)
  BY DEF PricesInv, FileIsKept
<1>2. ASSUME NEW t \in told
      PROVE  /\ PriceLists!Index(priceFile.entries, t.key) # 0
             /\ priceFile.entries[PriceLists!Index(priceFile.entries, t.key)].price
                  = t.price
  BY <1>1, FoundAtIndex DEF Finds, KeptPrices
<1>3. PriceLists!Duplicated(priceFile.entries)
        \subseteq PriceLists!Duplicated(OriginalPrices)
  <2>1. IsList(OriginalPrices)
    BY PricesAssumption, ListOf
  <2>2. ASSUME NEW key \in PriceLists!Duplicated(priceFile.entries)
        PROVE  key \in PriceLists!Duplicated(OriginalPrices)
    <3>1. key \in Keys
      BY DEF PriceLists!Duplicated
    <3> QED BY <1>1, <2>1, <3>1, DuplicatedTwice DEF KeptPrices
  <2> QED BY <2>2
<1>4. \A i \in DOMAIN priceFile.entries :
        priceFile.entries[i].measured =>
          priceFile.entries[i].price = Measured[priceFile.entries[i].key]
  BY <1>1 DEF KeptPrices, MeasuredIsTold
<1> QED BY <1>2, <1>3, <1>4 DEF PriceLists!SetIsKept

LEMMA PricesInit == PriceLists!Init => PricesInv
<1> SUFFICES ASSUME PriceLists!Init PROVE PricesInv
  OBVIOUS
<1> USE DEF PriceLists!Init
<1>1. PriceShape
  BY DEF PriceShape, CommandOfPrices, PriceLists!AtRest
<1>2. WritersAreReady
  BY DEF WritersAreReady, PriceLists!AtRest
<1>3. FileIsKept
  <2>1. KeptPrices(OriginalPrices)
    BY PricesAssumption, ListOf DEF KeptPrices, MeasuredIsTold
  <2> QED BY <2>1 DEF FileIsKept, Finds, PriceLists!Holds
<1> QED BY <1>1, <1>2, <1>3 DEF PricesInv

(* A step that only changes what one process does.                         *)
LEMMA OneProcess ==
  ASSUME PricesInv, NEW p \in PriceWriters, NEW new,
         pricer' = [pricer EXCEPT ![p] = new],
         new = [k \in CommandOfPrices |-> new[k]],
         new.doing \in {"writable", "writing"} => ReadyToWrite(new)
  PROVE  PriceShape' /\ WritersAreReady'
<1>1. DOMAIN pricer = PriceWriters
  BY DEF PricesInv, PriceShape
<1>2. /\ DOMAIN pricer' = PriceWriters /\ pricer'[p] = new
      /\ \A q \in PriceWriters \ {p} : pricer'[q] = pricer[q]
  BY <1>1
<1>3. PriceShape'
  <2>1. \A q \in PriceWriters : pricer'[q] = [k \in CommandOfPrices |-> pricer'[q][k]]
    BY <1>2 DEF PricesInv, PriceShape
  <2> QED BY <1>2, <2>1 DEF PriceShape
<1>4. WritersAreReady'
  <2>1. ASSUME NEW q \in PriceWriters, pricer'[q].doing \in {"writable", "writing"}
        PROVE  ReadyToWrite(pricer'[q])
    BY <1>2, <2>1 DEF PricesInv, WritersAreReady
  <2> QED BY <2>1 DEF WritersAreReady
<1> QED BY <1>3, <1>4

LEMMA FileRests ==
  ASSUME PricesInv, UNCHANGED <<priceFile, told>> PROVE FileIsKept'
BY DEF PricesInv, FileIsKept

LEMMA ResetIsFine ==
  ASSUME PricesInv, priceFile'.entries = << >>, told' = {} PROVE FileIsKept'
BY NoPricesKept DEF FileIsKept, Finds

(* The process that has read the list has its price, and the others.       *)
LEMMA SetIsReady ==
  ASSUME PricesInv, NEW p \in PriceWriters, NEW entries, NEW new,
         KeptPrices(entries), Finds(entries, told),
         new.command = pricer[p].command, new.told = told,
         new.entries = PriceLists!SetPrice(entries, pricer[p].command.key,
                                           pricer[p].command.price)
  PROVE  ReadyToWrite(new)
<1> DEFINE key == pricer[p].command.key
           price == pricer[p].command.price
           after == PriceLists!SetPrice(entries, key, price)
<1>1. /\ KeptPrices(after) /\ Found(after, key, price)
      /\ \A k, v : k # key /\ Found(entries, k, v) => Found(after, k, v)
  BY SetPriceKeeps
<1> HIDE DEF after
<1>2. FindsOthers(after, told, key)
  BY <1>1 DEF Finds, FindsOthers
<1>3. new.entries = after
  BY DEF after
<1> QED BY <1>1, <1>2, <1>3 DEF ReadyToWrite

LEMMA PricesStart ==
  ASSUME PricesInv, NEW p \in PriceWriters, NEW c, PriceLists!Start(p, c)
  PROVE  PricesInv'
<1> DEFINE new == [PriceLists!AtRest EXCEPT !.command = c,
                     !.doing = IF c.verb = "set" THEN "looking" ELSE "loading"]
<1>1. /\ pricer' = [pricer EXCEPT ![p] = new] /\ UNCHANGED <<priceFile, told>>
  BY DEF PriceLists!Start
<1>2. new = [k \in CommandOfPrices |-> new[k]]
      /\ new.doing \notin {"writable", "writing"}
  BY DEF PriceLists!AtRest, CommandOfPrices
<1> HIDE DEF new
<1> QED BY <1>1, <1>2, OneProcess, FileRests DEF PricesInv

LEMMA PricesLook ==
  ASSUME PricesInv, NEW p \in PriceWriters, PriceLists!Look(p)
  PROVE  PricesInv'
<1> DEFINE c == pricer[p].command
           ready == [pricer[p] EXCEPT !.doing = "writable", !.told = told,
                       !.entries = PriceLists!SetPrice(<< >>, c.key, c.price)]
           next == [pricer[p] EXCEPT !.doing = "loading"]
<1>1. /\ pricer[p] = [k \in CommandOfPrices |-> pricer[p][k]]
      /\ DOMAIN pricer = PriceWriters
  BY DEF PricesInv, PriceShape
<1>2. UNCHANGED <<priceFile, told>>
  BY DEF PriceLists!Look
<1>3. CASE priceFile = PriceLists!Missing
  <2>1. pricer' = [pricer EXCEPT ![p] = ready]
    BY <1>1, <1>3 DEF PriceLists!Look
  <2>2. /\ ready = [k \in CommandOfPrices |-> ready[k]]
        /\ ready.command = c /\ ready.told = told
        /\ ready.entries = PriceLists!SetPrice(<< >>, c.key, c.price)
    BY <1>1 DEF CommandOfPrices
  <2>3. priceFile.entries = << >>
    BY <1>3 DEF PriceLists!Missing
  <2>4. Finds(<< >>, told)
    BY <2>3 DEF PricesInv, FileIsKept
  <2> HIDE DEF ready
  <2>5. ReadyToWrite(ready)
    BY <2>2, <2>4, NoPricesKept, SetIsReady
  <2> QED BY <1>2, <2>1, <2>2, <2>5, OneProcess, FileRests DEF PricesInv
<1>4. CASE priceFile # PriceLists!Missing
  <2>1. pricer' = [pricer EXCEPT ![p] = next]
    BY <1>1, <1>4 DEF PriceLists!Look
  <2>2. next = [k \in CommandOfPrices |-> next[k]] /\ next.doing = "loading"
    BY <1>1 DEF CommandOfPrices
  <2> HIDE DEF next
  <2> QED BY <1>2, <2>1, <2>2, OneProcess, FileRests DEF PricesInv
<1> QED BY <1>3, <1>4

LEMMA PricesLoad ==
  ASSUME PricesInv, NEW p \in PriceWriters, PriceLists!Load(p)
  PROVE  PricesInv'
<1> DEFINE c == pricer[p].command
           ready == [pricer[p] EXCEPT !.doing = "writable", !.told = told,
                       !.entries = PriceLists!SetPrice(priceFile.entries, c.key, c.price)]
           over(code, warned) ==
             [pricer[p] EXCEPT !.doing = "ended", !.code = code, !.warned = warned]
<1>1. /\ pricer[p] = [k \in CommandOfPrices |-> pricer[p][k]]
      /\ DOMAIN pricer = PriceWriters
  BY DEF PricesInv, PriceShape
<1>2. UNCHANGED <<priceFile, told>>
  BY DEF PriceLists!Load
<1>3. \/ pricer' = [pricer EXCEPT ![p] = ready]
      \/ \E code, warned : pricer' = [pricer EXCEPT ![p] = over(code, warned)]
  <2> DEFINE Loaded ==
               [pricer EXCEPT ![p].doing = "writable", ![p].told = told,
                  ![p].entries = PriceLists!SetPrice(priceFile.entries, c.key, c.price)]
             Over(code, warned) ==
               [pricer EXCEPT ![p].doing = "ended", ![p].code = code,
                              ![p].warned = warned]
  <2>1. ASSUME NEW code, NEW warned
        PROVE  Over(code, warned) = [pricer EXCEPT ![p] = over(code, warned)]
    BY <1>1
  <2>2. Loaded = [pricer EXCEPT ![p] = ready]
    BY <1>1
  <2>3. pricer' = Loaded \/ \E code, warned : pricer' = Over(code, warned)
    <3>1. pricer' =
            IF priceFile.kind # "list"
            THEN Over(IF priceFile = PriceLists!Missing THEN PriceLists!INVALID_INPUT
                       ELSE PriceLists!INTERNAL_ERROR, FALSE)
            ELSE IF c.verb = "show" THEN Over(PriceLists!SUCCESS, TRUE)
            ELSE IF c.verb = "validate"
            THEN Over(IF PriceLists!Problems(priceFile.entries)
                       THEN PriceLists!INVALID_INPUT ELSE PriceLists!SUCCESS, FALSE)
            ELSE Loaded
      BY DEF PriceLists!Load
    <3> HIDE DEF Loaded, Over
    <3> QED BY ONLY <3>1
  <2> HIDE DEF Loaded, Over, ready, over
  <2> QED BY <2>1, <2>2, <2>3
<1>4. CASE pricer' = [pricer EXCEPT ![p] = ready]
  <2>1. /\ ready = [k \in CommandOfPrices |-> ready[k]]
        /\ ready.command = c /\ ready.told = told
        /\ ready.entries = PriceLists!SetPrice(priceFile.entries, c.key, c.price)
    BY <1>1 DEF CommandOfPrices
  <2> HIDE DEF ready
  <2>2. ReadyToWrite(ready)
    BY <2>1, SetIsReady DEF PricesInv, FileIsKept
  <2> QED BY <1>2, <1>4, <2>1, <2>2, OneProcess, FileRests DEF PricesInv
<1>5. ASSUME NEW code, NEW warned, pricer' = [pricer EXCEPT ![p] = over(code, warned)]
      PROVE  PricesInv'
  <2> DEFINE new == over(code, warned)
  <2>1. new = [k \in CommandOfPrices |-> new[k]] /\ new.doing = "ended"
    BY <1>1 DEF CommandOfPrices
  <2>2. pricer' = [pricer EXCEPT ![p] = new]
    BY <1>5
  <2> HIDE DEF new
  <2> QED BY <1>2, <2>1, <2>2, OneProcess, FileRests DEF PricesInv
<1> QED BY <1>3, <1>4, <1>5

LEMMA PricesTruncate ==
  ASSUME PricesInv, NEW p \in PriceWriters, PriceLists!Truncate(p)
  PROVE  PricesInv'
<1> DEFINE new == [pricer[p] EXCEPT !.doing = "writing"]
<1>1. /\ pricer[p] = [k \in CommandOfPrices |-> pricer[p][k]]
      /\ DOMAIN pricer = PriceWriters /\ pricer[p].doing = "writable"
      /\ ReadyToWrite(pricer[p])
  BY DEF PricesInv, PriceShape, WritersAreReady, PriceLists!Truncate
<1>2. pricer' = [pricer EXCEPT ![p] = new]
  BY <1>1 DEF PriceLists!Truncate
<1>3. /\ new = [k \in CommandOfPrices |-> new[k]]
      /\ new.command = pricer[p].command /\ new.entries = pricer[p].entries
      /\ new.told = pricer[p].told
  BY <1>1 DEF CommandOfPrices
<1> HIDE DEF new
<1>4. ReadyToWrite(new)
  BY <1>1, <1>3 DEF ReadyToWrite
<1>5. priceFile'.entries = << >> /\ told' = {}
  BY DEF PriceLists!Truncate, PriceLists!Holds
<1> QED BY <1>2, <1>3, <1>4, <1>5, OneProcess, ResetIsFine DEF PricesInv

LEMMA PricesFill ==
  ASSUME PricesInv, NEW p \in PriceWriters, PriceLists!Fill(p)
  PROVE  PricesInv'
<1> DEFINE new == [pricer[p] EXCEPT !.doing = "ended", !.warned = TRUE]
           c == pricer[p].command
           others == {t \in pricer[p].told : t.key # c.key}
<1>1. /\ pricer[p] = [k \in CommandOfPrices |-> pricer[p][k]]
      /\ DOMAIN pricer = PriceWriters /\ ReadyToWrite(pricer[p])
  BY DEF PricesInv, PriceShape, WritersAreReady, PriceLists!Fill
<1>2. pricer' = [pricer EXCEPT ![p] = new]
  BY <1>1 DEF PriceLists!Fill
<1>3. new = [k \in CommandOfPrices |-> new[k]] /\ new.doing = "ended"
  BY <1>1 DEF CommandOfPrices
<1> HIDE DEF new
<1>4. \/ /\ priceFile' = PriceLists!Holds(pricer[p].entries)
         /\ told' = others \cup {[key |-> c.key, price |-> c.price]}
      \/ priceFile' = PriceLists!Mixed /\ told' = {}
  BY DEF PriceLists!Fill
<1>5. FileIsKept'
  <2>1. CASE priceFile' = PriceLists!Mixed /\ told' = {}
    BY <2>1, ResetIsFine DEF PriceLists!Mixed
  <2>2. CASE /\ priceFile' = PriceLists!Holds(pricer[p].entries)
             /\ told' = others \cup {[key |-> c.key, price |-> c.price]}
    <3>1. priceFile'.entries = pricer[p].entries
      BY <2>2 DEF PriceLists!Holds
    <3>2. ASSUME NEW t \in told' PROVE Found(pricer[p].entries, t.key, t.price)
      BY <1>1, <2>2, <3>2 DEF ReadyToWrite, FindsOthers
    <3>3. KeptPrices(pricer[p].entries)
      BY <1>1 DEF ReadyToWrite
    <3> QED BY <3>1, <3>2, <3>3 DEF FileIsKept, Finds
  <2> QED BY <1>4, <2>1, <2>2
<1> QED BY <1>2, <1>3, <1>5, OneProcess DEF PricesInv

LEMMA PricesStop ==
  ASSUME PricesInv, NEW p \in PriceWriters, PriceLists!Stop(p)
  PROVE  PricesInv'
<1> DEFINE new == [pricer[p] EXCEPT !.doing = "stopped"]
<1>1. /\ pricer[p] = [k \in CommandOfPrices |-> pricer[p][k]]
      /\ DOMAIN pricer = PriceWriters
  BY DEF PricesInv, PriceShape
<1>2. pricer' = [pricer EXCEPT ![p] = new] /\ UNCHANGED <<priceFile, told>>
  BY <1>1 DEF PriceLists!Stop
<1>3. new = [k \in CommandOfPrices |-> new[k]] /\ new.doing = "stopped"
  BY <1>1 DEF CommandOfPrices
<1> HIDE DEF new
<1> QED BY <1>2, <1>3, OneProcess, FileRests DEF PricesInv

LEMMA PricesEdit == ASSUME PricesInv, PriceLists!Edit PROVE PricesInv'
<1> DEFINE entries == priceFile.entries
<1>1. PriceShape' /\ WritersAreReady'
  BY DEF PricesInv, PriceShape, WritersAreReady, PriceLists!Edit
<1>2. KeptPrices(entries) /\ Finds(entries, told)
  BY DEF PricesInv, FileIsKept
<1>3. ASSUME NEW key \in Keys, PriceLists!Index(entries, key) = 0, told' = told,
             priceFile' = PriceLists!Holds(Append(entries,
                            PriceLists!Entry(key, Measured[key], TRUE)))
      PROVE  FileIsKept'
  <2> DEFINE entry == PriceLists!Entry(key, Measured[key], TRUE)
             after == Append(entries, entry)
  <2>1. /\ Unlisted(entries, entry.key)
        /\ entry.price = Measured[entry.key]
    BY <1>2, <1>3, IndexIsFirst DEF KeptPrices, PriceLists!Entry
  <2> HIDE DEF entry
  <2>2. KeptPrices(after) /\ \A k, p : Found(entries, k, p) => Found(after, k, p)
    BY <1>2, <2>1, AddedPrice
  <2>3. priceFile'.entries = after
    BY <1>3 DEF PriceLists!Holds, entry
  <2> HIDE DEF after
  <2> QED BY <1>2, <1>3, <2>2, <2>3 DEF FileIsKept, Finds
<1>4. ASSUME NEW i \in DOMAIN entries,
             priceFile' = PriceLists!Holds(PriceLists!RemoveAt(entries, i)),
             told' = {t \in told : t.key # entries[i].key}
      PROVE  FileIsKept'
  <2> DEFINE after == PriceLists!RemoveAt(entries, i)
  <2>1. /\ KeptPrices(after)
        /\ \A k, p : k # entries[i].key /\ Found(entries, k, p) => Found(after, k, p)
    BY <1>2, RemovedPrice
  <2>2. priceFile'.entries = after
    BY <1>4 DEF PriceLists!Holds
  <2> HIDE DEF after
  <2> QED BY <1>2, <1>4, <2>1, <2>2 DEF FileIsKept, Finds
<1>5. ASSUME priceFile' = PriceLists!Missing, told' = {} PROVE FileIsKept'
  BY <1>5, ResetIsFine DEF PriceLists!Missing
<1>6. FileIsKept'
  BY <1>3, <1>4, <1>5 DEF PriceLists!Edit
<1> QED BY <1>1, <1>6 DEF PricesInv

LEMMA PricesStep ==
  PricesInv /\ [PriceLists!Next]_priceVars => PricesInv'
<1> SUFFICES ASSUME PricesInv, [PriceLists!Next]_priceVars PROVE PricesInv'
  OBVIOUS
<1>1. CASE UNCHANGED priceVars
  BY <1>1 DEF priceVars, PricesInv, PriceShape, WritersAreReady, ReadyToWrite, FileIsKept
<1>2. CASE PriceLists!Next
  BY <1>2, PricesStart, PricesLook, PricesLoad, PricesTruncate, PricesFill,
    PricesStop, PricesEdit DEF PriceLists!Next
<1> QED BY <1>1, <1>2

(* Whatever processes set prices, in whatever order they read, truncate and *)
(* write the list and wherever they stop, a price that was set and not set  *)
(* or edited again is found, no model is listed twice by the commands, and  *)
(* an entry that is marked as measured has the measured price.             *)
THEOREM PricesAreKept == CommandsSpec => []SetIsKept
<1>1. CommandsInit => PricesInv
  BY PricesInit DEF CommandsInit, NoPrices
<1>2. PricesInv /\ [CommandsNext]_<<work, vars, fileVars, priceVars, gradeVars>>
        => PricesInv'
  BY PricesStep DEF CommandsNext
<1>3. PricesInv => SetIsKept
  BY PricesInvSays DEF SetIsKept
<1> QED BY <1>1, <1>2, <1>3, PTL DEF CommandsSpec

-----------------------------------------------------------------------------
(* Grading. *)

(* What an evaluator may say: the order of tools and a threshold of a       *)
(* rubric beyond all of it fail what has a full score, and only a rubric   *)
(* lets pass what has not.                                                 *)
MayFailInFull(spec) ==
  \/ spec.name = "tool_selection" /\ spec.ordered
  \/ spec.name = "rubric" /\ spec.threshold > 100
Honest(spec, g) ==
  /\ g.weight = spec.weight /\ g.status \in {"pass", "fail", "skipped"}
  /\ g.num \in Nat /\ g.den \in Nat \ {0} /\ g.num <= g.den
  /\ g.status = "fail" /\ g.num = g.den => MayFailInFull(spec)
  /\ g.status = "pass" /\ g.num # g.den => spec.name = "rubric"

LEMMA GradedIsHonest ==
  ASSUME NEW spec, NEW passed \in BOOLEAN, NEW num \in Nat, NEW den \in Nat \ {0},
         num <= den, ~passed /\ num = den => MayFailInFull(spec),
         passed /\ num # den => spec.name = "rubric"
  PROVE  Honest(spec, Grading!Graded(spec, passed, num, den))
<1> DEFINE g == Grading!Graded(spec, passed, num, den)
<1>1. /\ g.weight = spec.weight /\ g.num = num /\ g.den = den
      /\ g.status = IF passed THEN "pass" ELSE "fail"
  BY DEF Grading!Graded
<1> HIDE DEF g
<1>2. Honest(spec, g)
  BY <1>1 DEF Honest
<1> QED BY <1>2 DEF g

LEMMA VerdictIsHonest ==
  ASSUME NEW spec, NEW passed
  PROVE  Honest(spec, Grading!Verdict(spec, passed))
<1>1. CASE passed
  BY <1>1 DEF Honest, Grading!Verdict, Grading!Graded
<1>2. CASE ~passed
  BY <1>2 DEF Honest, Grading!Verdict, Grading!Graded
<1> QED BY <1>1, <1>2

LEMMA SkipIsHonest == ASSUME NEW spec PROVE Honest(spec, Grading!Skip(spec))
BY DEF Honest, Grading!Skip, Grading!Graded

(* A score that is one minus what is missing and what should not be there.  *)
LEMMA ChecksMissed ==
  ASSUME NEW A, NEW B, IsFiniteSet(A), IsFiniteSet(B),
         NEW M \in SUBSET A, NEW P \in SUBSET B,
         NEW checks, checks = Cardinality(A) + Cardinality(B),
         NEW num, num = checks - Cardinality(M) - Cardinality(P)
  PROVE  /\ checks \in Nat /\ num \in Nat /\ num <= checks
         /\ num = checks <=> M = {} /\ P = {}
<1>1. /\ Cardinality(A) \in Nat /\ Cardinality(B) \in Nat
      /\ IsFiniteSet(M) /\ IsFiniteSet(P)
      /\ Cardinality(M) <= Cardinality(A) /\ Cardinality(P) <= Cardinality(B)
  BY FS_Subset, FS_CardinalityType
<1>2. /\ Cardinality(M) \in Nat /\ Cardinality(P) \in Nat
      /\ (Cardinality(M) = 0) <=> (M = {})
      /\ (Cardinality(P) = 0) <=> (P = {})
  BY <1>1, FS_CardinalityType, FS_EmptySet
<1> DEFINE a == Cardinality(A)
           b == Cardinality(B)
           m == Cardinality(M)
           p == Cardinality(P)
<1>3. a \in Nat /\ b \in Nat /\ m \in Nat /\ p \in Nat /\ m <= a /\ p <= b
  BY <1>1, <1>2
<1>4. checks = a + b /\ num = checks - m - p
  OBVIOUS
<1>5. (m = 0) <=> (M = {})
  BY <1>2
<1>6. (p = 0) <=> (P = {})
  BY <1>2
<1> HIDE DEF a, b, m, p
<1>7. checks \in Nat /\ num \in Nat /\ num <= checks
  BY ONLY <1>3, <1>4
<1>8. num = checks <=> m = 0 /\ p = 0
  BY ONLY <1>3, <1>4
<1> QED BY <1>5, <1>6, <1>7, <1>8

LEMMA ContainsIsHonest ==
  ASSUME NEW spec, NEW c, NEW a, Grading!IsCase(c)
  PROVE  Honest(spec, Grading!ContainsPhrases(spec, c, a))
<1> DEFINE required == IF spec.name = "forbidden_content" THEN {} ELSE c.required
           missing == required \ a.says
           present == c.forbidden \cap a.says
           checks == Cardinality(required) + Cardinality(c.forbidden)
           num == checks - Cardinality(missing) - Cardinality(present)
<1>1. Grading!ContainsPhrases(spec, c, a) =
        IF checks = 0 THEN Grading!Skip(spec)
        ELSE Grading!Graded(spec, missing = {} /\ present = {}, num, checks)
  BY DEF Grading!ContainsPhrases, Grading!Cardinality, Cardinality
<1>2. IsFiniteSet(required) /\ IsFiniteSet(c.forbidden)
  BY FS_EmptySet DEF Grading!IsCase, Grading!IsFiniteSet, IsFiniteSet
<1>3. missing \in SUBSET required /\ present \in SUBSET c.forbidden
  OBVIOUS
<1> HIDE DEF required, missing, present
<1>4. /\ checks \in Nat /\ num \in Nat /\ num <= checks
      /\ num = checks <=> missing = {} /\ present = {}
  BY <1>2, <1>3, ChecksMissed
<1> HIDE DEF checks, num
<1>5. CASE checks = 0
  BY <1>1, <1>5, SkipIsHonest
<1>6. CASE checks # 0
  <2> DEFINE passed == missing = {} /\ present = {}
  <2>1. Grading!ContainsPhrases(spec, c, a) = Grading!Graded(spec, passed, num, checks)
    BY <1>1, <1>6
  <2>2. passed \in BOOLEAN /\ (passed <=> num = checks)
    BY <1>4
  <2> HIDE DEF passed
  <2> QED BY <1>4, <1>6, <2>1, <2>2, GradedIsHonest
<1> QED BY <1>5, <1>6

LEMMA ToolsIsHonest ==
  ASSUME NEW spec, NEW c, NEW a, Grading!IsCase(c), spec.name = "tool_selection"
  PROVE  Honest(spec, Grading!ToolSelection(spec, c, a))
<1> DEFINE called == Grading!ToSet(a.tools)
           missing == {i \in DOMAIN c.tools : c.tools[i] \notin called}
           present == c.forbiddenTools \cap called
           inOrder == Grading!SelectSeq(a.tools, LAMBDA t : t \in Grading!ToSet(c.tools)) = c.tools
           checks == Len(c.tools) + Cardinality(c.forbiddenTools)
           num == checks - Cardinality(missing) - Cardinality(present)
           passed == /\ missing = {} /\ present = {}
                     /\ spec.ordered /\ c.tools # << >> => inOrder
<1>1. Grading!ToolSelection(spec, c, a) =
        IF checks = 0 THEN Grading!Skip(spec)
        ELSE Grading!Graded(spec, passed, num, checks)
  BY DEF Grading!ToolSelection, Grading!Cardinality, Cardinality
<1>2. IsFiniteSet(c.forbiddenTools) /\ IsList(c.tools)
  BY DEF Grading!IsCase, Grading!IsFiniteSet, IsFiniteSet, Grading!IsList, IsList
<1>3. IsFiniteSet(DOMAIN c.tools) /\ Cardinality(DOMAIN c.tools) = Len(c.tools)
  <2>1. Len(c.tools) \in Nat /\ DOMAIN c.tools = 1 .. Len(c.tools)
    BY <1>2, Lists
  <2> DEFINE n == Len(c.tools)
  <2> HIDE DEF n
  <2>2. IsFiniteSet(1 .. n) /\ Cardinality(1 .. n) = n
    <3>1. n \in Nat
      BY <2>1 DEF n
    <3>2. 1 \in Int /\ n \in Int
      BY <3>1
    <3>3. IsFiniteSet(1 .. n) /\ Cardinality(1 .. n) = IF 1 > n THEN 0 ELSE n - 1 + 1
      BY ONLY <3>2, FS_Interval
    <3> QED BY <3>1, <3>3
  <2> QED BY <2>1, <2>2 DEF n
<1>4. missing \in SUBSET DOMAIN c.tools /\ present \in SUBSET c.forbiddenTools
  OBVIOUS
<1>5. passed \in BOOLEAN /\ (passed => missing = {} /\ present = {})
      /\ (~passed /\ missing = {} /\ present = {} => spec.ordered)
  OBVIOUS
<1> HIDE DEF called, missing, present, inOrder, passed
<1>6. /\ checks \in Nat /\ num \in Nat /\ num <= checks
      /\ num = checks <=> missing = {} /\ present = {}
  <2> DEFINE places == DOMAIN c.tools
             banned == c.forbiddenTools
  <2>1. checks = Cardinality(places) + Cardinality(banned)
    BY <1>3
  <2>2. num = checks - Cardinality(missing) - Cardinality(present)
    OBVIOUS
  <2>3. /\ IsFiniteSet(places) /\ IsFiniteSet(banned)
        /\ missing \in SUBSET places /\ present \in SUBSET banned
    BY <1>2, <1>3, <1>4
  <2> HIDE DEF checks, num, places, banned
  <2> QED BY ONLY <2>1, <2>2, <2>3, ChecksMissed
<1> HIDE DEF checks, num
<1>7. CASE checks = 0
  BY <1>1, <1>7, SkipIsHonest
<1>8. CASE checks # 0
  BY <1>1, <1>5, <1>6, <1>8, GradedIsHonest DEF MayFailInFull
<1> QED BY <1>7, <1>8

LEMMA FieldsIsHonest ==
  ASSUME NEW spec, NEW c, NEW parsed
  PROVE  Honest(spec, Grading!FieldMatch(spec, c, parsed))
<1> DEFINE fields == {k \in Fields : c.expected[k] # Grading!Absent}
           matched == {k \in fields : Grading!Matches(c.expected[k], parsed.fields[k])}
           num == Cardinality(matched)
           den == Cardinality(fields)
<1>1. Grading!FieldMatch(spec, c, parsed) =
        IF fields = {} THEN Grading!Skip(spec)
        ELSE IF parsed.kind # "object" THEN Grading!Verdict(spec, FALSE)
        ELSE Grading!Graded(spec, matched = fields, num, den)
  BY DEF Grading!FieldMatch, Grading!Cardinality, Cardinality
<1>2. IsFiniteSet(fields)
  <2>1. IsFiniteSet(Fields)
    BY GradesAssumption DEF IsFiniteSet
  <2> QED BY <2>1, FS_Subset
<1>3. matched \in SUBSET fields
  OBVIOUS
<1> HIDE DEF matched, fields
<1>4. /\ num \in Nat /\ den \in Nat /\ num <= den /\ (num = den <=> matched = fields)
      /\ (den = 0 <=> fields = {})
  BY <1>2, <1>3, FS_Subset, FS_CardinalityType, FS_EmptySet
<1> HIDE DEF num, den
<1>5. CASE fields = {}
  BY <1>1, <1>5, SkipIsHonest
<1>6. CASE fields # {} /\ parsed.kind # "object"
  BY <1>1, <1>6, VerdictIsHonest
<1>7. CASE fields # {} /\ parsed.kind = "object"
  <2> DEFINE passed == matched = fields
  <2>1. Grading!FieldMatch(spec, c, parsed) = Grading!Graded(spec, passed, num, den)
    BY <1>1, <1>7
  <2>2. passed \in BOOLEAN /\ (passed <=> num = den)
    BY <1>4
  <2> HIDE DEF passed
  <2> QED BY <1>4, <1>7, <2>1, <2>2, GradedIsHonest
<1> QED BY <1>5, <1>6, <1>7

LEMMA CitationIsHonest ==
  ASSUME NEW spec, NEW c, NEW a, Grading!IsCase(c)
  PROVE  Honest(spec, Grading!Citation(spec, c, a))
<1> DEFINE allowed == IF spec.allowed = {} THEN c.citations ELSE spec.allowed
           missing == c.citations \ a.cites
           grounded == a.cites \subseteq allowed
           all == Cardinality(c.citations)
           missed == Cardinality(missing)
           checks == Grading!AtLeastOne(all)
           num == IF grounded THEN checks - missed ELSE 0
           passed == missing = {} /\ grounded
<1>1. Grading!Citation(spec, c, a) =
        IF c.citations = {} /\ spec.allowed = {} THEN Grading!Skip(spec)
        ELSE Grading!Graded(spec, passed, num, checks)
  BY DEF Grading!Citation, Grading!Cardinality, Cardinality
<1>2. IsFiniteSet(c.citations)
  BY DEF Grading!IsCase, Grading!IsFiniteSet, IsFiniteSet
<1>3. missing \in SUBSET c.citations
  OBVIOUS
<1>4. passed \in BOOLEAN /\ grounded \in BOOLEAN /\ (passed <=> missing = {} /\ grounded)
  OBVIOUS
<1> HIDE DEF missing, grounded, passed
<1>5. /\ all \in Nat /\ missed \in Nat /\ missed <= all
      /\ (missed = 0 <=> missing = {})
  BY <1>2, <1>3, FS_Subset, FS_CardinalityType, FS_EmptySet
<1> HIDE DEF all, missed
<1>6. /\ checks \in Nat \ {0} /\ num \in Nat /\ num <= checks
      /\ (num = checks <=> passed)
  BY <1>4, <1>5 DEF Grading!AtLeastOne
<1> HIDE DEF checks, num
<1>7. CASE c.citations = {} /\ spec.allowed = {}
  BY <1>1, <1>7, SkipIsHonest
<1>8. CASE ~(c.citations = {} /\ spec.allowed = {})
  BY <1>1, <1>4, <1>6, <1>8, GradedIsHonest
<1> QED BY <1>7, <1>8

LEMMA RubricIsHonest ==
  ASSUME NEW spec, NEW a, Grading!IsSpec(spec), spec.name = "rubric"
  PROVE  Honest(spec, Grading!Rubric(spec, a))
<1> DEFINE found == spec.keywords \cap a.says
           hits == Cardinality(found)
           all == Cardinality(spec.keywords)
           threshold == spec.threshold
           passed == 100 * hits >= threshold * all
<1>1. Grading!Rubric(spec, a) = IF all = 0 THEN Grading!Skip(spec)
                                ELSE Grading!Graded(spec, passed, hits, all)
  BY DEF Grading!Rubric, Grading!Cardinality, Cardinality
<1>2. IsFiniteSet(spec.keywords) /\ threshold \in Int
  BY DEF Grading!IsSpec, Grading!IsFiniteSet, IsFiniteSet
<1>3. found \in SUBSET spec.keywords
  OBVIOUS
<1> HIDE DEF found
<1>4. hits \in Nat /\ all \in Nat /\ hits <= all
  BY <1>2, <1>3, FS_Subset, FS_CardinalityType
<1> HIDE DEF hits, all
<1>5. CASE all = 0
  BY <1>1, <1>5, SkipIsHonest
<1>6. CASE all # 0
  <2>1. passed \in BOOLEAN
    OBVIOUS
  <2>2. ASSUME ~passed, hits = all PROVE MayFailInFull(spec)
    <3> HIDE DEF threshold
    <3>1. 100 * all < threshold * all
      BY <1>2, <1>4, <2>2
    <3>2. threshold > 100
      <4>1. SUFFICES ASSUME threshold <= 100 PROVE FALSE
        BY <1>2
      <4>2. threshold * all <= 100 * all
        BY <1>2, <1>4, <4>1, TimesKeeps
      <4> QED BY <1>2, <1>4, <3>1, <4>2
    <3> QED BY <3>2 DEF MayFailInFull, threshold
  <2> HIDE DEF passed
  <2> QED BY <1>1, <1>4, <1>6, <2>1, <2>2, GradedIsHonest
<1> QED BY <1>5, <1>6

(* A budget, and a specification that names and weighs the same.            *)
LEMMA BudgetIsHonest ==
  ASSUME NEW spec, NEW said, NEW spent,
         said.name = spec.name, said.weight = spec.weight, spec.name # "rubric"
  PROVE  Honest(spec, Grading!Budget(said, spent))
<1>1. ASSUME NEW g, Honest(said, g), g.status = "fail" => g.num # g.den
      PROVE  Honest(spec, g)
  BY <1>1 DEF Honest
<1>2. CASE said.max = Grading!NotSet \/ spent = Grading!NotSet
  BY <1>2, <1>1, SkipIsHonest DEF Grading!Budget, Grading!Skip, Grading!Graded
<1>3. CASE ~(said.max = Grading!NotSet \/ spent = Grading!NotSet)
  <2>1. Grading!Budget(said, spent) = Grading!Verdict(said, spent <= said.max)
    BY <1>3 DEF Grading!Budget
  <2>2. ASSUME NEW passed
        PROVE  LET g == Grading!Verdict(said, passed)
               IN  g.status = "fail" => g.num # g.den
    BY DEF Grading!Verdict, Grading!Graded
  <2> QED BY <1>1, <2>1, <2>2, VerdictIsHonest
<1> QED BY <1>2, <1>3

(* Every evaluator. *)
LEMMA EvaluateIsHonest ==
  ASSUME NEW spec, NEW c, NEW a, NEW parsed, Grading!IsSpec(spec), Grading!IsCase(c)
  PROVE  Honest(spec, Grading!Evaluate(spec, c, a, parsed))
<1> DEFINE g == Grading!Evaluate(spec, c, a, parsed)
<1>1. spec.name \in Grading!EvaluatorNames
  BY DEF Grading!IsSpec
<1>2. CASE spec.name = "exact_match"
  BY <1>2, SkipIsHonest, VerdictIsHonest DEF Grading!Evaluate, Grading!ExactMatch
<1>3. CASE spec.name \in {"contains", "forbidden_content"}
  <2>1. g = Grading!ContainsPhrases(spec, c, a)
    BY <1>3 DEF Grading!Evaluate
  <2> QED BY <2>1, ContainsIsHonest
<1>4. CASE spec.name = "regex"
  BY <1>4, SkipIsHonest, VerdictIsHonest DEF Grading!Evaluate, Grading!Regex
<1>5. CASE spec.name = "json_parse"
  BY <1>5, VerdictIsHonest DEF Grading!Evaluate, Grading!JsonParse
<1>6. CASE spec.name = "json_schema"
  BY <1>6, SkipIsHonest, VerdictIsHonest DEF Grading!Evaluate, Grading!JsonSchema
<1>7. CASE spec.name = "field_match"
  <2>1. g = Grading!FieldMatch(spec, c, parsed)
    BY <1>7 DEF Grading!Evaluate
  <2> QED BY <2>1, FieldsIsHonest
<1>8. CASE spec.name = "tool_selection"
  <2>1. g = Grading!ToolSelection(spec, c, a)
    BY <1>8 DEF Grading!Evaluate
  <2> QED BY <1>8, <2>1, ToolsIsHonest
<1>9. CASE spec.name = "policy_compliance"
  BY <1>9, SkipIsHonest, VerdictIsHonest DEF Grading!Evaluate, Grading!PolicyCompliance
<1>10. CASE spec.name = "citation"
  <2>1. g = Grading!Citation(spec, c, a)
    BY <1>10 DEF Grading!Evaluate
  <2> QED BY <2>1, CitationIsHonest
<1>11. CASE spec.name = "latency"
  <2> DEFINE said == [spec EXCEPT !.max = IF @ = Grading!NotSet THEN c.timeout ELSE @]
  <2>1. g = Grading!Budget(said, a.latency)
    BY <1>11 DEF Grading!Evaluate, Grading!Latency
  <2>2. said.name = spec.name /\ said.weight = spec.weight
    BY DEF Grading!IsSpec
  <2> HIDE DEF said
  <2> QED BY <1>11, <2>1, <2>2, BudgetIsHonest
<1>12. CASE spec.name = "cost"
  <2>1. g = Grading!Budget(spec, a.cost)
    BY <1>12 DEF Grading!Evaluate
  <2> QED BY <1>12, <2>1, BudgetIsHonest
<1>13. CASE spec.name = "rubric"
  <2>1. g = Grading!Rubric(spec, a)
    BY <1>13 DEF Grading!Evaluate
  <2> QED BY <1>13, <2>1, RubricIsHonest
<1> QED
  BY <1>1, <1>2, <1>3, <1>4, <1>5, <1>6, <1>7, <1>8, <1>9, <1>10, <1>11, <1>12, <1>13
    DEF Grading!EvaluatorNames

(* What an evaluator does not parse, it does not look at.                   *)
LEMMA ParsedIsNotSeen ==
  ASSUME NEW spec, NEW c, NEW a, NEW parsed, NEW other,
         Grading!IsSpec(spec), ~Grading!Parses(spec, c)
  PROVE  Grading!Evaluate(spec, c, a, parsed) = Grading!Evaluate(spec, c, a, other)
<1>1. spec.name # "json_parse"
  BY DEF Grading!Parses
<1>2. CASE spec.name = "json_schema"
  BY <1>2 DEF Grading!Parses, Grading!Evaluate, Grading!JsonSchema
<1>3. CASE spec.name = "field_match"
  BY <1>3 DEF Grading!Parses, Grading!Evaluate, Grading!FieldMatch
<1>4. CASE spec.name \notin {"json_schema", "field_match"}
  BY <1>1, <1>4 DEF Grading!Evaluate, Grading!IsSpec, Grading!EvaluatorNames
<1> QED BY <1>2, <1>3, <1>4

-----------------------------------------------------------------------------
(* The context has been parsed as far as an evaluator needed it, and the    *)
(* results are those of contexts of their own.                             *)
Needed(n) == \E j \in 1 .. n : Grading!Parses(specs[j], case)
ContextFits ==
  context = IF Needed(Len(evaluations))
            THEN [attempted |-> TRUE, parsed |-> Grading!Parsed(answer)]
            ELSE Grading!Fresh
EachOnItsOwn ==
  \A i \in DOMAIN evaluations :
    evaluations[i] = Grading!Evaluate(specs[i], case, answer, Grading!Parsed(answer))
GradeShape ==
  /\ Grading!IsCase(case)
  /\ IsList(specs) /\ \A i \in DOMAIN specs : Grading!IsSpec(specs[i])
  /\ IsList(evaluations) /\ Len(evaluations) <= Len(specs)
EndedGrade ==
  result # Grading!Unfinished =>
    /\ Len(evaluations) = Len(specs)
    /\ result = [status |-> Grading!StatusOf(evaluations), parsed |-> context.parsed]

GradeInv == GradeShape /\ ContextFits /\ EachOnItsOwn /\ EndedGrade

LEMMA GradeInit == Grading!Init => GradeInv
<1> SUFFICES ASSUME Grading!Init PROVE GradeInv
  OBVIOUS
<1>1. /\ case \in BenchmarkCases /\ specs \in Rubrics
      /\ context = Grading!Fresh /\ evaluations = << >> /\ result = Grading!Unfinished
  BY DEF Grading!Init
<1>2. Grading!IsCase(case) /\ IsList(specs) /\ \A i \in DOMAIN specs : Grading!IsSpec(specs[i])
  BY <1>1, GradesAssumption DEF Grading!IsList, IsList
<1>3. IsList(evaluations) /\ Len(evaluations) = 0 /\ DOMAIN evaluations = {}
  BY <1>1, NoElements
<1>4. Len(specs) \in Nat
  BY <1>2, Lists
<1>5. GradeShape
  BY <1>2, <1>3, <1>4 DEF GradeShape
<1>6. ContextFits
  <2>1. ~Needed(Len(evaluations))
    BY <1>3 DEF Needed
  <2> QED BY <1>1, <2>1 DEF ContextFits
<1> QED BY <1>1, <1>3, <1>5, <1>6 DEF GradeInv, EachOnItsOwn, EndedGrade

LEMMA GradeStep == ASSUME GradeInv, Grading!Grade PROVE GradeInv'
<1> DEFINE n == Len(evaluations)
           spec == specs[n + 1]
           after == IF Grading!Parses(spec, case)
                    THEN Grading!EnsureParsed(context, answer) ELSE context
           g == Grading!Evaluate(spec, case, answer, after.parsed)
<1>1. /\ context' = after /\ evaluations' = Append(evaluations, g)
      /\ UNCHANGED <<case, answer, specs, result>> /\ n < Len(specs)
  BY DEF Grading!Grade
<1>2. /\ n \in Nat /\ DOMAIN evaluations = 1 .. n /\ Len(specs) \in Nat
      /\ DOMAIN specs = 1 .. Len(specs) /\ IsList(evaluations)
  BY Lists DEF GradeInv, GradeShape
<1>3. n + 1 \in DOMAIN specs
  BY <1>1, <1>2
<1>4. Grading!IsSpec(spec)
  BY <1>3 DEF GradeInv, GradeShape
<1>5. /\ IsList(evaluations') /\ Len(evaluations') = n + 1
      /\ DOMAIN evaluations' = DOMAIN evaluations \cup {n + 1}
      /\ \A i \in DOMAIN evaluations : evaluations'[i] = evaluations[i]
      /\ evaluations'[n + 1] = g
  BY <1>1, <1>2, OneMore
<1>6. Grading!Parses(spec, case) =>
        after = [attempted |-> TRUE, parsed |-> Grading!Parsed(answer)]
  BY DEF GradeInv, ContextFits, Grading!EnsureParsed, Grading!Fresh
<1>7. ~Grading!Parses(spec, case) => after = context
  OBVIOUS
<1>8. g = Grading!Evaluate(spec, case, answer, Grading!Parsed(answer))
  <2>1. CASE Grading!Parses(spec, case)
    BY <1>6, <2>1
  <2>2. CASE ~Grading!Parses(spec, case)
    BY <1>4, <2>2, ParsedIsNotSeen
  <2> QED BY <2>1, <2>2
<1> HIDE DEF g, after
<1>9. GradeShape'
  <2>1. Len(evaluations') <= Len(specs')
    <3> HIDE DEF n
    <3> QED BY <1>1, <1>2, <1>5
  <2> QED BY <1>1, <1>5, <2>1 DEF GradeInv, GradeShape
<1>10. ContextFits'
  <2>1. Needed(Len(evaluations))' <=> Needed(n) \/ Grading!Parses(spec, case)
    <3>1. 1 .. n + 1 = (1 .. n) \cup {n + 1}
      <4> HIDE DEF n
      <4> QED BY <1>2
    <3>2. Needed(Len(evaluations))' <=> \E j \in 1 .. n + 1 : Grading!Parses(specs[j], case)
      <4> HIDE DEF n
      <4> QED BY <1>1, <1>5 DEF Needed
    <3> HIDE DEF n
    <3> QED BY <3>1, <3>2 DEF Needed
  <2>2. context' = IF Needed(n) \/ Grading!Parses(spec, case)
                   THEN [attempted |-> TRUE, parsed |-> Grading!Parsed(answer)]
                   ELSE Grading!Fresh
    BY <1>1, <1>6, <1>7 DEF GradeInv, ContextFits
  <2> HIDE DEF n, spec
  <2>3. (Grading!Parsed(answer))' = Grading!Parsed(answer)
    BY <1>1 DEF Grading!Parsed
  <2> QED BY <2>1, <2>2, <2>3 DEF ContextFits
<1>11. EachOnItsOwn'
  BY <1>1, <1>5, <1>8 DEF GradeInv, EachOnItsOwn
<1>12. EndedGrade'
  <2>1. Len(evaluations) # Len(specs)
    <3> DEFINE m == Len(specs)
    <3>1. n \in Nat /\ m \in Nat /\ n < m
      BY <1>1, <1>2
    <3> HIDE DEF n, m
    <3>2. n # m
      BY ONLY <3>1
    <3> QED BY <3>2 DEF n, m
  <2>2. result = Grading!Unfinished
    BY <2>1 DEF GradeInv, EndedGrade
  <2> QED BY <1>1, <2>2 DEF EndedGrade
<1> QED BY <1>9, <1>10, <1>11, <1>12 DEF GradeInv

LEMMA FinishStep == ASSUME GradeInv, Grading!Finish PROVE GradeInv'
<1>1. /\ UNCHANGED <<case, answer, specs, context, evaluations>>
      /\ Len(evaluations) = Len(specs)
      /\ result' = [status |-> Grading!StatusOf(evaluations), parsed |-> context.parsed]
  BY DEF Grading!Finish
<1>2. GradeShape' /\ ContextFits' /\ EachOnItsOwn'
  BY <1>1 DEF GradeInv, GradeShape, ContextFits, EachOnItsOwn, Needed
<1>3. EndedGrade'
  BY <1>1 DEF EndedGrade, Grading!StatusOf
<1> QED BY <1>2, <1>3 DEF GradeInv

LEMMA GradeNext == GradeInv /\ [Grading!Next]_gradeVars => GradeInv'
<1> SUFFICES ASSUME GradeInv, [Grading!Next]_gradeVars PROVE GradeInv'
  OBVIOUS
<1>1. CASE UNCHANGED gradeVars
  BY <1>1 DEF gradeVars, GradeInv, GradeShape, ContextFits, EachOnItsOwn, Needed,
    EndedGrade, Grading!StatusOf
<1>2. CASE Grading!Next
  BY <1>2, GradeStep, FinishStep DEF Grading!Next
<1> QED BY <1>1, <1>2

LEMMA OrderHolds == GradeInv => Grading!OrderIsNotFragile
<1> SUFFICES ASSUME GradeInv PROVE Grading!OrderIsNotFragile
  OBVIOUS
<1>1. \A i \in DOMAIN evaluations :
        evaluations[i] = Grading!Evaluate(specs[i], case, answer, Grading!Parsed(answer))
  BY DEF GradeInv, EachOnItsOwn
<1>2. ASSUME result # Grading!Unfinished
      PROVE  result.parsed = IF \E i \in DOMAIN specs : Grading!Parses(specs[i], case)
                             THEN Grading!Parsed(answer) ELSE Grading!NotParsed
  <2>1. Len(evaluations) = Len(specs) /\ result.parsed = context.parsed
    BY <1>2 DEF GradeInv, EndedGrade
  <2>2. DOMAIN specs = 1 .. Len(specs)
    BY Lists DEF GradeInv, GradeShape
  <2>3. Needed(Len(evaluations)) <=> \E i \in DOMAIN specs : Grading!Parses(specs[i], case)
    BY <2>1, <2>2 DEF Needed
  <2> QED BY <2>1, <2>3 DEF GradeInv, ContextFits, Grading!Fresh
<1> QED BY <1>1, <1>2 DEF Grading!OrderIsNotFragile, Grading!Finished

-----------------------------------------------------------------------------
(* The share of a score is all of it for a full score only.                 *)
LEMMA FullShare ==
  ASSUME NEW num \in Nat, NEW den \in Nat \ {0}, num <= den,
         NEW q, q = (60 * num) \div den
  PROVE  q \in Int /\ q <= 60 /\ (q = 60 <=> num = den)
<1>1. q \in Int /\ den * q <= 60 * num /\ 60 * num < den * q + den
  BY QuotientIs
<1>2. ASSUME q > 60 PROVE FALSE
  <2>1. den * 61 <= den * q
    BY <1>1, <1>2, TimesKeeps
  <2> QED BY <1>1, <2>1
<1>3. ASSUME q = 60 PROVE num = den
  BY <1>1, <1>3
<1>4. ASSUME num = den, q < 60 PROVE FALSE
  <2>1. den * q <= den * 59
    BY <1>1, <1>4, TimesKeeps
  <2> QED BY <1>1, <1>4, <2>1
<1> QED BY <1>1, <1>2, <1>3, <1>4

IsScore(g) ==
  /\ g.weight \in Nat \ {0} /\ g.num \in Nat /\ g.den \in Nat \ {0}
  /\ g.num <= g.den /\ g.status \in {"pass", "fail", "skipped"}
Share(g) == g.weight * ((60 * g.num) \div g.den)

LEMMA ShareOfWeight ==
  ASSUME NEW g, IsScore(g)
  PROVE  /\ Share(g) \in Int /\ 60 * g.weight \in Int /\ Share(g) <= 60 * g.weight
         /\ Share(g) < 60 * g.weight <=> g.num < g.den
<1> DEFINE q == (60 * g.num) \div g.den
           w == g.weight
<1>1. q \in Int /\ q <= 60 /\ (q = 60 <=> g.num = g.den)
  BY FullShare DEF IsScore
<1>2. w \in Nat \ {0} /\ Share(g) = w * q /\ g.num \in Nat /\ g.den \in Nat /\ g.num <= g.den
  BY DEF Share, IsScore
<1> HIDE DEF q, w
<1>3. w * q \in Int /\ w * q <= w * 60
  BY <1>1, <1>2, TimesKeeps
<1>4. ASSUME q # 60 PROVE w * q < w * 60
  <2>1. w * q <= w * 59
    BY <1>1, <1>2, <1>4, TimesKeeps
  <2> QED BY <1>2, <1>3, <2>1
<1>5. ASSUME q = 60 PROVE ~(w * q < w * 60)
  BY <1>2, <1>5
<1>6. w * 60 = 60 * w /\ 60 * w \in Int
  BY <1>2
<1> QED BY <1>1, <1>2, <1>3, <1>4, <1>5, <1>6 DEF w

(* Both sums of a quality score, and their places.                         *)
LEMMA QualitySums ==
  ASSUME NEW scored, IsList(scored), scored # << >>,
         \A i \in DOMAIN scored : IsScore(scored[i])
  PROVE  LET weights == [i \in DOMAIN scored |-> 60 * scored[i].weight]
             shares == [i \in DOMAIN scored |-> Share(scored[i])]
             n == Len(scored)
         IN  /\ Grading!WeightedSum(scored) = RunningSum(shares, n)
             /\ 60 * (IF Grading!TotalWeight(scored) = 0 THEN 1
                      ELSE Grading!TotalWeight(scored))
                  = RunningSum(weights, n)
<1> DEFINE weights == [i \in DOMAIN scored |-> 60 * scored[i].weight]
           shares == [i \in DOMAIN scored |-> Share(scored[i])]
           plain == [i \in DOMAIN scored |-> scored[i].weight]
           n == Len(scored)
           total == RunningSum(plain, n)
<1>1. n \in Nat /\ n # 0 /\ DOMAIN scored = 1 .. n
  BY Lists, EmptyList
<1>2. Grading!WeightedSum(scored) = RunningSum(shares, n)
  BY DEF Grading!WeightedSum, Share, Grading!Unit, Grading!RunningSum, RunningSum
<1>3. Grading!TotalWeight(scored) = total
  BY DEF Grading!TotalWeight, Grading!RunningSum, RunningSum
<1> HIDE DEF n
<1>4. \A i \in 1 .. n : plain[i] \in Nat \ {0} /\ weights[i] = 60 * plain[i]
  BY <1>1 DEF IsScore
<1> HIDE DEF plain, weights
<1>5. RunningSum(weights, n) = 60 * total
  <2>1. \A i \in 1 .. n : plain[i] \in Int /\ weights[i] = 60 * plain[i]
    BY <1>4
  <2>2. 60 \in Int
    OBVIOUS
  <2> QED BY ONLY <1>1, <2>1, <2>2, SumOfMultiples DEF total
<1>6. total \in Nat /\ total # 0
  <2>1. total \in Nat
    BY <1>1, <1>4, SumNat
  <2>2. RunningSum(plain, 1) <= total
    BY <1>1, <1>4, SumGrows
  <2>3. RunningSum(plain, 0 + 1) = RunningSum(plain, 0) + plain[0 + 1]
    BY SumOfMore
  <2>4. RunningSum(plain, 1) = plain[1] /\ plain[1] \in Nat \ {0}
    BY <1>1, <1>4, <2>3, SumOfNone
  <2> QED BY <2>1, <2>2, <2>4
<1> HIDE DEF total, shares
<1>7. 60 * (IF Grading!TotalWeight(scored) = 0 THEN 1 ELSE Grading!TotalWeight(scored))
        = RunningSum(weights, n)
  BY <1>3, <1>5, <1>6
<1> QED BY <1>2, <1>7 DEF weights, shares, n

(* A failure without a full score shows in the quality, and the quality is  *)
(* less than full only by a score that is.                                 *)
Poor(g) == g.status # "skipped" /\ g.num < g.den

LEMMA QualityFollows ==
  ASSUME NEW results, IsList(results),
         \A i \in DOMAIN results : IsScore(results[i])
  PROVE  LET quality == Grading!QualityOf(results)
         IN  /\ (\E i \in DOMAIN results : Poor(results[i])) => quality.num # quality.den
             /\ quality.num < quality.den =>
                  \/ Grading!StatusOf(results) # "success"
                  \/ \E i \in DOMAIN results : Poor(results[i])
<1> DEFINE quality == Grading!QualityOf(results)
           n == Len(results)
           S == {i \in DOMAIN results : results[i].status # "skipped"}
           scored == Only(results, S, n)
           m == Len(scored)
           weights == [i \in DOMAIN scored |-> 60 * scored[i].weight]
           shares == [i \in DOMAIN scored |-> Share(scored[i])]
<1>1. n \in Nat /\ DOMAIN results = 1 .. n
  BY Lists
<1>2. Grading!NotSkipped(results) = scored
  BY DEF Grading!NotSkipped, Grading!Only, Only
<1>3. IsList(scored)
  BY <1>1, OnlyCounts
<1>4. ToSet(scored) = {results[i] : i \in S}
  <2>1. {j \in 1 .. n : j \in S} = S
    BY <1>1
  <2>2. ToSet(scored) = {results[i] : i \in {j \in 1 .. n : j \in S}}
    BY <1>1, OnlyKeepsThose
  <2> QED BY <2>1, <2>2
<1>5. /\ quality.num = IF scored = << >>
                       THEN IF Grading!StatusOf(results) = "success" THEN 60 ELSE 0
                       ELSE Grading!WeightedSum(scored)
      /\ quality.den = IF scored = << >> THEN 60
                       ELSE 60 * (IF Grading!TotalWeight(scored) = 0 THEN 1
                                  ELSE Grading!TotalWeight(scored))
  BY <1>2 DEF Grading!QualityOf, Grading!Unit
<1> HIDE DEF scored, quality
<1>6. m \in Nat /\ DOMAIN scored = 1 .. m
  BY <1>3, Lists
<1>7. \A j \in DOMAIN scored : \E i \in S : scored[j] = results[i]
  BY <1>3, <1>4, Lists
<1>8. \A i \in S : \E j \in DOMAIN scored : scored[j] = results[i]
  <2>1. \A i \in S : results[i] \in ToSet(scored)
    BY <1>4
  <2> HIDE DEF S
  <2> QED BY <1>3, <2>1, Lists
<1>9. \A j \in DOMAIN scored : IsScore(scored[j])
  BY <1>7
<1>10. \A j \in 1 .. m :
         /\ shares[j] \in Int /\ weights[j] \in Int /\ shares[j] <= weights[j]
         /\ shares[j] < weights[j] <=> scored[j].num < scored[j].den
  BY <1>6, <1>9, ShareOfWeight
<1>11. scored # << >> => /\ quality.num = RunningSum(shares, m)
                        /\ quality.den = RunningSum(weights, m)
  BY <1>3, <1>5, <1>9, QualitySums
<1>12. DOMAIN << >> = {}
  OBVIOUS
<1> HIDE DEF shares, weights, m
<1>13. ASSUME NEW i \in DOMAIN results, Poor(results[i])
       PROVE  quality.num # quality.den
  <2>1. PICK j \in DOMAIN scored : scored[j] = results[i]
    BY <1>8, <1>13 DEF Poor
  <2>2. j \in 1 .. m /\ shares[j] < weights[j]
    BY <1>6, <1>10, <1>13, <2>1 DEF Poor
  <2>3. RunningSum(shares, m) < RunningSum(weights, m)
    BY <1>6, <1>10, <2>2, SumOfOneLess
  <2>4. RunningSum(shares, m) \in Int /\ RunningSum(weights, m) \in Int
    BY <1>6, <1>10, SumType
  <2>5. scored # << >>
    BY <1>12, <2>1
  <2> QED BY <1>11, <2>3, <2>4, <2>5
<1>14. ASSUME quality.num < quality.den, Grading!StatusOf(results) = "success",
              \A i \in DOMAIN results : ~Poor(results[i])
       PROVE  FALSE
  <2>1. scored # << >>
    BY <1>5, <1>14
  <2>2. \A j \in 1 .. m : weights[j] <= shares[j]
    <3> SUFFICES ASSUME NEW j \in 1 .. m PROVE weights[j] <= shares[j]
      OBVIOUS
    <3>1. PICK i \in S : scored[j] = results[i]
      BY <1>6, <1>7
    <3>2. ~(scored[j].num < scored[j].den)
      BY <1>14, <3>1 DEF Poor
    <3> QED BY <1>10, <3>2
  <2>3. RunningSum(weights, m) <= RunningSum(shares, m)
    BY <1>6, <1>10, <2>2, SumOfLess
  <2>4. RunningSum(shares, m) \in Int /\ RunningSum(weights, m) \in Int
    BY <1>6, <1>10, SumType
  <2> QED BY <1>11, <1>14, <2>1, <2>3, <2>4
<1> QED BY <1>13, <1>14 DEF quality

LEMMA ScoresFollow == GradeInv => Grading!ScoresFollowVerdicts
<1> DEFINE quality == Grading!QualityOf(evaluations)
<1> SUFFICES ASSUME GradeInv, result # Grading!Unfinished,
                    \A i \in DOMAIN specs : specs[i].weight > 0
             PROVE  /\ result.status = "failed" /\ quality.num = quality.den =>
                         \E i \in DOMAIN specs : MayFailInFull(specs[i])
                    /\ result.status = "success" /\ quality.num < quality.den =>
                         \E i \in DOMAIN specs : specs[i].name = "rubric"
  BY DEF Grading!ScoresFollowVerdicts, Grading!Finished, MayFailInFull
<1>1. /\ IsList(evaluations) /\ IsList(specs) /\ Len(evaluations) = Len(specs)
      /\ result.status = Grading!StatusOf(evaluations)
  BY DEF GradeInv, GradeShape, EndedGrade
<1>2. DOMAIN evaluations = DOMAIN specs
  BY <1>1, Lists
<1>3. \A i \in DOMAIN evaluations : Honest(specs[i], evaluations[i])
  BY <1>2, EvaluateIsHonest DEF GradeInv, GradeShape, EachOnItsOwn
<1>4. \A i \in DOMAIN evaluations : IsScore(evaluations[i])
  <2> SUFFICES ASSUME NEW i \in DOMAIN evaluations PROVE IsScore(evaluations[i])
    OBVIOUS
  <2>1. Honest(specs[i], evaluations[i]) /\ specs[i].weight > 0 /\ specs[i].weight \in Int
    BY <1>2, <1>3 DEF GradeInv, GradeShape, Grading!IsSpec
  <2> QED BY <2>1 DEF Honest, IsScore
<1>5. /\ (\E i \in DOMAIN evaluations : Poor(evaluations[i])) => quality.num # quality.den
      /\ quality.num < quality.den =>
           \/ Grading!StatusOf(evaluations) # "success"
           \/ \E i \in DOMAIN evaluations : Poor(evaluations[i])
  BY <1>1, <1>4, QualityFollows
<1> HIDE DEF quality
<1>6. ASSUME result.status = "failed", quality.num = quality.den
      PROVE  \E i \in DOMAIN specs : MayFailInFull(specs[i])
  <2>1. PICK i \in DOMAIN evaluations : evaluations[i].status = "fail"
    BY <1>1, <1>6 DEF Grading!StatusOf
  <2>2. ~Poor(evaluations[i])
    BY <1>5, <1>6
  <2> QED BY <1>2, <1>3, <2>1, <2>2 DEF Honest, Poor
<1>7. ASSUME result.status = "success", quality.num < quality.den
      PROVE  \E i \in DOMAIN specs : specs[i].name = "rubric"
  <2>1. PICK i \in DOMAIN evaluations : Poor(evaluations[i])
    BY <1>1, <1>5, <1>7
  <2>2. evaluations[i].status # "fail"
    BY <1>1, <1>7 DEF Grading!StatusOf
  <2> QED BY <1>2, <1>3, <2>1, <2>2 DEF Honest, Poor
<1> QED BY <1>6, <1>7

(* Whatever the specifications, the cases and the answers are, what an      *)
(* evaluator says does not depend on those before it, and the score of a   *)
(* case agrees with its verdict.                                           *)
THEOREM GradesAreSound == CommandsSpec => []GradingIsSound
<1>1. CommandsInit => (work = "grading" => GradeInv)
  BY GradeInit DEF CommandsInit
<1>2. (work = "grading" => GradeInv)
        /\ [CommandsNext]_<<work, vars, fileVars, priceVars, gradeVars>>
        => (work = "grading" => GradeInv)'
  BY GradeNext DEF CommandsNext
<1>3. (work = "grading" => GradeInv) => GradingIsSound
  BY OrderHolds, ScoresFollow DEF GradingIsSound
<1> QED BY <1>1, <1>2, <1>3, PTL DEF CommandsSpec

-----------------------------------------------------------------------------
(* Datasets. *)

(* What is proved of DatasetFiles, of the datasets of these commands.  The   *)
(* definitions of the two instances are the same.                          *)
DatasetProofs == INSTANCE DatasetFilesProofs WITH
  Procs <- FileWriters, Commands <- FileCommands, Cases <- CaseIds,
  Original <- OriginalFiles, proc <- writer

LEMMA SameDirectory == DatasetProofs!Directory
<1>1. Datasets!Directory => DatasetProofs!Directory
  BY DEF
    Datasets!Directory, DatasetProofs!Directory, Datasets!Files,
    DatasetProofs!Files, Datasets!Contents, DatasetProofs!Contents,
    Datasets!Kinds, DatasetProofs!Kinds, Datasets!CommandLine,
    DatasetProofs!CommandLine, Datasets!IsFiniteSet,
    DatasetProofs!IsFiniteSet
<1> QED BY <1>1, FilesAssumption

LEMMA SameInit == Datasets!Init <=> DatasetProofs!Init
BY DEF
    Datasets!Init, DatasetProofs!Init, Datasets!AtRest, DatasetProofs!AtRest,
    Datasets!NoCommand, DatasetProofs!NoCommand, Datasets!SUCCESS,
    DatasetProofs!SUCCESS

LEMMA SameStart ==
  ASSUME NEW p, NEW c
  PROVE  Datasets!Start(p, c) <=> DatasetProofs!Start(p, c)
BY DEF
    Datasets!vars, DatasetProofs!vars, Datasets!Files, DatasetProofs!Files,
    Datasets!Holding, DatasetProofs!Holding, Datasets!Absent,
    DatasetProofs!Absent, Datasets!Torn, DatasetProofs!Torn, Datasets!Exists,
    DatasetProofs!Exists, Datasets!IsLink, DatasetProofs!IsLink,
    Datasets!Distinct, DatasetProofs!Distinct, Datasets!Readable,
    DatasetProofs!Readable, Datasets!Loads, DatasetProofs!Loads,
    Datasets!Rounded, DatasetProofs!Rounded, Datasets!TrainCount,
    DatasetProofs!TrainCount, Datasets!RankIn, DatasetProofs!RankIn,
    Datasets!TrainPart, DatasetProofs!TrainPart, Datasets!Part,
    DatasetProofs!Part, Datasets!Train, DatasetProofs!Train,
    Datasets!Evaluation, DatasetProofs!Evaluation, Datasets!Redacted,
    DatasetProofs!Redacted, Datasets!Serializable,
    DatasetProofs!Serializable, Datasets!Fails, DatasetProofs!Fails,
    Datasets!Writes, DatasetProofs!Writes, Datasets!Write,
    DatasetProofs!Write, Datasets!Created, DatasetProofs!Created,
    Datasets!Create, DatasetProofs!Create, Datasets!Split,
    DatasetProofs!Split, Datasets!Redact, DatasetProofs!Redact,
    Datasets!Derive, DatasetProofs!Derive, Datasets!Prepared,
    DatasetProofs!Prepared, Datasets!Resting, DatasetProofs!Resting,
    Datasets!SUCCESS, DatasetProofs!SUCCESS, Datasets!INVALID_INPUT,
    DatasetProofs!INVALID_INPUT, Datasets!INTERNAL_ERROR,
    DatasetProofs!INTERNAL_ERROR, Datasets!Cardinality,
    DatasetProofs!Cardinality, Datasets!Start, DatasetProofs!Start

LEMMA SameOutput ==
  ASSUME NEW p
  PROVE  /\ Datasets!OpenOutput(p) <=> DatasetProofs!OpenOutput(p)
         /\ Datasets!FillOutput(p) <=> DatasetProofs!FillOutput(p)
         /\ Datasets!WriteRaises(p) <=> DatasetProofs!WriteRaises(p)
         /\ Datasets!Stop(p) <=> DatasetProofs!Stop(p)
BY DEF
    Datasets!OpenOutput, DatasetProofs!OpenOutput, Datasets!FillOutput,
    DatasetProofs!FillOutput, Datasets!WriteRaises,
    DatasetProofs!WriteRaises, Datasets!Stop, DatasetProofs!Stop,
    Datasets!CutShort, DatasetProofs!CutShort,
    Datasets!Remains, DatasetProofs!Remains, Datasets!Torn,
    DatasetProofs!Torn, Datasets!Holding, DatasetProofs!Holding,
    Datasets!Serializable, DatasetProofs!Serializable,
    Datasets!INTERNAL_ERROR, DatasetProofs!INTERNAL_ERROR

LEMMA SameEdit == Datasets!Edit <=> DatasetProofs!Edit
BY DEF
    Datasets!Edit, DatasetProofs!Edit, Datasets!Resting,
    DatasetProofs!Resting, Datasets!Files, DatasetProofs!Files,
    Datasets!Absent, DatasetProofs!Absent, Datasets!Holding,
    DatasetProofs!Holding

LEMMA SameNext == Datasets!Next <=> DatasetProofs!Next
BY SameStart, SameOutput, SameEdit DEF Datasets!Next, DatasetProofs!Next

(* The part of the commands that works on datasets.                         *)
LEMMA FilesPart == CommandsSpec => DatasetProofs!Spec
<1>1. CommandsInit => DatasetProofs!Init
  BY SameInit DEF CommandsInit, NoFiles
<1>2. [CommandsNext]_<<work, vars, fileVars, priceVars, gradeVars>>
        => [DatasetProofs!Next]_<<content, writer, steps>>
  BY SameNext DEF CommandsNext, fileVars
<1> QED BY <1>1, <1>2, PTL DEF CommandsSpec, DatasetProofs!Spec, DatasetProofs!vars

(* A split that succeeds partitions its input, whichever other commands the *)
(* user gives: datasets of any size, any links between files.              *)
THEOREM SplitsArePartitions ==
  ASSUME NEW w, FileWriters = {w}
  PROVE  CommandsSpec => SplitPartitions
<1>1. DatasetProofs!Spec => DatasetProofs!SplitPartitions
  BY SameDirectory, DatasetProofs!SplitsPartition
<1>2. DatasetProofs!SplitPartitions => SplitPartitions
  BY PTL DEF SplitPartitions,
    Datasets!SplitPartitions, DatasetProofs!SplitPartitions,
    Datasets!Succeeded, DatasetProofs!Succeeded, Datasets!OutputsApart,
    DatasetProofs!OutputsApart, Datasets!OutputFiles,
    DatasetProofs!OutputFiles, Datasets!SUCCESS, DatasetProofs!SUCCESS,
    Datasets!vars, DatasetProofs!vars, Datasets!Cardinality,
    DatasetProofs!Cardinality
<1> QED BY <1>1, <1>2, FilesPart, PTL

(* A command on datasets keeps the file it reads; one that is killed or ends*)
(* with an error, a write that raises included, has changed only files that*)
(* hold an output of it whole, and the one it was writing.                 *)
THEOREM DatasetsAreKept ==
  ASSUME NEW w, FileWriters = {w}
  PROVE  CommandsSpec => OnlyOutputsChange
<1>1. DatasetProofs!Spec => DatasetProofs!OnlyOutputsChange
  BY SameDirectory, DatasetProofs!OutputsOnly
<1>2. DatasetProofs!OnlyOutputsChange => OnlyOutputsChange
  BY PTL DEF OnlyOutputsChange,
    Datasets!OnlyOutputsChange, DatasetProofs!OnlyOutputsChange,
    Datasets!InputIsKept, DatasetProofs!InputIsKept,
    Datasets!FailureIsContained, DatasetProofs!FailureIsContained,
    Datasets!HoldsOutput, DatasetProofs!HoldsOutput, Datasets!Files,
    DatasetProofs!Files,
    Datasets!SUCCESS, DatasetProofs!SUCCESS, Datasets!vars,
    DatasetProofs!vars
<1> QED BY <1>1, <1>2, FilesPart, PTL

(* A dataset that grows by a case keeps its split but for one case, for any *)
(* number of processes.                                                    *)
THEOREM GrownDatasetsKeepSides == CommandsSpec => ResplitMovesOne
<1>1. DatasetProofs!Spec => DatasetProofs!ResplitMovesOne
  BY SameDirectory, DatasetProofs!ResplitsKeepSides
<1>2. DatasetProofs!ResplitMovesOne => ResplitMovesOne
  BY PTL DEF ResplitMovesOne,
    Datasets!ResplitMovesOne, DatasetProofs!ResplitMovesOne,
    Datasets!ChangeSides, DatasetProofs!ChangeSides, Datasets!Files,
    DatasetProofs!Files, Datasets!vars, DatasetProofs!vars,
    Datasets!TrainPart, DatasetProofs!TrainPart, Datasets!RankIn,
    DatasetProofs!RankIn, Datasets!TrainCount, DatasetProofs!TrainCount,
    Datasets!Rounded, DatasetProofs!Rounded, Datasets!Cardinality,
    DatasetProofs!Cardinality
<1> QED BY <1>1, <1>2, FilesPart, PTL


-----------------------------------------------------------------------------
(* The part of the commands that works on suites and runs, and what is      *)
(* proved of it.                                                           *)
LEMMA RunsPart == CommandsSpec => Spec
<1>1. CommandsInit => Init
  BY DEF CommandsInit, NoRuns
<1>2. [CommandsNext]_<<work, vars, fileVars, priceVars, gradeVars>>
        => [Next]_vars
  BY DEF CommandsNext
<1> QED BY <1>1, <1>2, PTL DEF CommandsSpec, Spec

(* What is proved of RunCommand holds of the commands.                      *)
THEOREM RunsOfCommands ==
  CommandsSpec =>
    [](CompatibleNeedsBothConsents /\ AcceptedIsCarriedOut /\ ReproductionRepeats)
BY RunsPart, BothConsentsAreNeeded, AcceptedRunsAreSaved, RunsRepeat, PTL
=============================================================================
