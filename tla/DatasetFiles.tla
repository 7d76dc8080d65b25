---------------------------- MODULE DatasetFiles ----------------------------
(***************************************************************************)
(* The commands that turn one local evidence file into others: dataset     *)
(* create, split and redact, outcomes summarize, workflow evaluate,        *)
(* telemetry export and replay sanitize (cli/commands.py), on top of       *)
(* datasets/ and portable.py.  A command loads its input, checks its paths,*)
(* computes and then writes its outputs one after the other; a write       *)
(* truncates the file and fills it.  The process can stop in between, or a *)
(* write can raise (permissions, a full disk), which ends the command with *)
(* an error.  The user edits datasets, deletes files, and may have links   *)
(* between them.                                                           *)
(***************************************************************************)
EXTENDS Integers, Sequences, FiniteSets

CONSTANTS
  Procs,      \* the processes
  Paths,      \* the names of files
  Resolved,   \* path -> the path its symbolic links lead to
  FileOf,     \* path -> the file it names; a hard link shares it
  Suffix,     \* path -> "json", "jsonl" or another suffix
  Commands,   \* what the processes may be asked to do
  Cases,      \* case ids, as the numbers of their alphabetical order
  Rank,       \* case id -> the place of its hash
  PhoneLike,  \* case ids that redaction takes for a telephone number
  Original,   \* file -> what it holds to begin with
  MaxSteps    \* bound: commands and edits started

SUCCESS == 0
INVALID_INPUT == 2
INTERNAL_ERROR == 5

VARIABLES
  content,  \* file -> what it holds
  proc,     \* process -> the command it executes
  steps     \* commands and edits so far

vars == <<content, proc, steps>>

Files == {FileOf[p] : p \in Paths}

(* A content. idRoom and nameRoom are the characters that can still be     *)
(* appended to the id and the name of a dataset.                           *)
Holding(kind, cases) ==
  [kind |-> kind, cases |-> cases, idRoom |-> 0, nameRoom |-> 0,
   redacted |-> FALSE]
Absent == Holding("absent", {})
Torn == Holding("torn", {})

(* What a file may hold.                                                   *)
Kinds == {"absent", "torn", "dataset", "traces", "derived", "preflight"}
Contents ==
  [kind : Kinds, cases : {s \in SUBSET Cases : IsFiniteSet(s)},
   idRoom : Int, nameRoom : Int, redacted : BOOLEAN]

(* A command line: the outputs the verb takes.                             *)
CommandLine(c) ==
  /\ c.input \in Paths
  /\ c.outputs \in Seq(Paths)
  /\ c.percent \in Int
  /\ c.verb = "split" => Len(c.outputs) = 2
  /\ c.verb = "redact" => Len(c.outputs) = 1

(* What is asked of the constants: typed files and commands, and no two    *)
(* cases whose hashes are equal.                                           *)
Directory ==
  /\ 1 \in Cases
  /\ Rank \in [Cases -> Int]
  /\ \A c, d \in Cases : Rank[c] = Rank[d] => c = d
  /\ Original \in [Files -> Contents]
  /\ \A c \in Commands : CommandLine(c)

Exists(p) == content[FileOf[p]] # Absent
IsLink(p) == Resolved[p] # p

-----------------------------------------------------------------------------
(* portable.py. Mutant: only the resolved paths are compared. *)
NotAliased(source, destination) == Resolved[source] # Resolved[destination]

Distinct(source, destination) ==
  /\ Resolved[source] # Resolved[destination]
  /\ ~IsLink(destination)
  /\ ~(Exists(source) /\ Exists(destination)
       /\ FileOf[source] = FileOf[destination])

Readable(p) == Exists(p) /\ ~IsLink(p)

(* datasets/io.py: what can be loaded as a dataset. *)
Loads(p) ==
  /\ Readable(p) /\ Suffix[p] \in {"json", "jsonl"}
  /\ content[FileOf[p]].kind = "dataset"

(* datasets/operations.py: the cases whose hashes come first are for       *)
(* training, their share rounded half to even, with at least one case on   *)
(* either side.                                                            *)
Rounded(n) ==
  LET whole == n \div 100
      rest == n % 100
  IN  IF rest > 50 \/ (rest = 50 /\ whole % 2 = 1) THEN whole + 1 ELSE whole

TrainCount(n, percent) ==
  LET share == Rounded(n * percent)
      atMost == IF share > n - 1 THEN n - 1 ELSE share
  IN  IF atMost < 1 THEN 1 ELSE atMost

(* Mutant: the order is drawn for each dataset, not for each case. *)
RankedAnew(c, cases) ==
  IF Cardinality(cases) % 2 = 0 THEN Rank[c] ELSE 0 - Rank[c]
RankIn(c, cases) == Rank[c]

TrainPart(cases, percent) ==
  {c \in cases :
     Cardinality({d \in cases : RankIn(d, cases) < RankIn(c, cases)})
       < TrainCount(Cardinality(cases), percent)}

(* The two datasets of a split; their ids and names get longer.            *)
Part(dataset, cases, id, name) ==
  [dataset EXCEPT !.cases = cases, !.idRoom = @ - id, !.nameRoom = @ - name]
Train(dataset, percent) ==
  Part(dataset, TrainPart(dataset.cases, percent), 6, 8)

(* Mutant: the share of the evaluation is rounded on its own. *)
EvaluationOfShare(dataset, percent) ==
  LET all == dataset.cases
      count == TrainCount(Cardinality(all), 100 - percent)
  IN  Part(dataset, {c \in all : Cardinality({d \in all : Rank[d] > Rank[c]})
                                   < count}, 5, 13)
Evaluation(dataset, percent) ==
  Part(dataset, dataset.cases \ TrainPart(dataset.cases, percent), 5, 13)

Redacted(dataset) == [dataset EXCEPT !.redacted = TRUE]

(* write_dataset serializes a validated copy before it opens the file: one *)
(* whose id or name got too long raises there.                             *)
Serializable(c) == c.idRoom >= 0 /\ c.nameRoom >= 0

-----------------------------------------------------------------------------
(* What a command does once it is started: the code it ends with before it *)
(* writes anything, or its writes.                                         *)
Fails(code) == [code |-> code, writes |-> << >>]
Writes(s) == [code |-> SUCCESS, writes |-> s]
Write(p, c) == [path |-> p, content |-> c]

Created == [Holding("dataset", {1}) EXCEPT !.idRoom = 200, !.nameRoom = 400]

Create(c) ==
  IF Exists(c.input) THEN Fails(INVALID_INPUT)
  ELSE Writes(<<Write(c.input, Created)>>)

Split(c) ==
  LET dataset == content[FileOf[c.input]]
  IN  IF \/ ~Loads(c.input)
         \/ ~Distinct(c.input, c.outputs[1])
         \/ ~Distinct(c.input, c.outputs[2])
         \/ Resolved[c.outputs[1]] = Resolved[c.outputs[2]]
         \/ c.percent \notin 1 .. 99
         \/ Cardinality(dataset.cases) < 2
      THEN Fails(INVALID_INPUT)
      ELSE Writes(<<Write(c.outputs[1], Train(dataset, c.percent)),
                    Write(c.outputs[2], Evaluation(dataset, c.percent))>>)

(* A case id that is masked is not found again when its hash is put back.  *)
Redact(c) ==
  LET dataset == content[FileOf[c.input]]
  IN  IF ~Distinct(c.input, c.outputs[1]) \/ ~Loads(c.input)
      THEN Fails(INVALID_INPUT)
      ELSE IF dataset.cases \cap PhoneLike # {} THEN Fails(INTERNAL_ERROR)
      ELSE Writes(<<Write(c.outputs[1], Redacted(dataset))>>)

(* outcomes summarize, workflow evaluate and telemetry export write one    *)
(* file; replay sanitize writes the traces and then the preflight.         *)
Derive(c) ==
  IF \/ \E i \in DOMAIN c.outputs : ~Distinct(c.input, c.outputs[i])
     \/ ~Readable(c.input) \/ content[FileOf[c.input]].kind # "traces"
  THEN Fails(INVALID_INPUT)
  ELSE Writes([i \in DOMAIN c.outputs |->
                 Write(c.outputs[i],
                       Holding(IF i = 2 THEN "preflight" ELSE "derived", {}))])

Prepared(c) ==
  IF c.verb = "create" THEN Create(c)
  ELSE IF c.verb = "split" THEN Split(c)
  ELSE IF c.verb = "redact" THEN Redact(c)
  ELSE Derive(c)

-----------------------------------------------------------------------------
NoCommand == [verb |-> "none", input |-> CHOOSE p \in Paths : TRUE,
              outputs |-> << >>, percent |-> 0]
AtRest ==
  [doing |-> "nothing", command |-> NoCommand, todo |-> << >>,
   written |-> << >>, code |-> SUCCESS, before |-> Original]

Init ==
  /\ content = Original
  /\ proc = [p \in Procs |-> AtRest]
  /\ steps = 0

Resting(p) == proc[p].doing \in {"nothing", "ended", "stopped"}

Start(p, c) ==
  /\ Resting(p) /\ steps < MaxSteps
  /\ steps' = steps + 1
  /\ LET prepared == Prepared(c)
     IN  proc' = [proc EXCEPT ![p] =
           [doing |-> IF prepared.writes = << >> THEN "ended" ELSE "running",
            command |-> c, todo |-> prepared.writes, written |-> << >>,
            code |-> prepared.code, before |-> content]]
  /\ UNCHANGED content

(* The next output is serialized and its file truncated ...                *)
OpenOutput(p) ==
  /\ proc[p].doing = "running"
  /\ LET w == Head(proc[p].todo)
     IN  IF Serializable(w.content)
         THEN /\ content' = [content EXCEPT ![FileOf[w.path]] = Torn]
              /\ proc' = [proc EXCEPT ![p].doing = "writing"]
         ELSE /\ proc' = [proc EXCEPT ![p].doing = "ended",
                                      ![p].code = INTERNAL_ERROR]
              /\ UNCHANGED content
  /\ UNCHANGED steps

(* ... and filled.                                                         *)
FillOutput(p) ==
  /\ proc[p].doing = "writing"
  /\ LET w == Head(proc[p].todo)
         rest == Tail(proc[p].todo)
     IN  /\ content' = [content EXCEPT ![FileOf[w.path]] = w.content]
         /\ proc' = [proc EXCEPT
              ![p].todo = rest, ![p].written = Append(@, w),
              ![p].doing = IF rest = << >> THEN "ended" ELSE "running"]
  /\ UNCHANGED steps

(* What is left of an output that is not written to its end: a torn file;  *)
(* JSON Lines cut after a record are a dataset with fewer cases.           *)
Remains(w) ==
  {Torn} \cup
  (IF Suffix[w.path] = "jsonl" /\ w.content.kind = "dataset"
   THEN {[w.content EXCEPT !.cases = {d \in @ : d <= c}] : c \in w.content.cases}
   ELSE {})

CutShort(p) ==
  IF proc[p].doing = "running" THEN UNCHANGED content
  ELSE \E left \in Remains(Head(proc[p].todo)) :
         content' = [content EXCEPT ![FileOf[Head(proc[p].todo).path]] = left]

(* Making the directory, opening or writing the next output raises OSError,*)
(* and the guard of the command line ends the command.                    *)
WriteRaises(p) ==
  /\ proc[p].doing \in {"running", "writing"}
  /\ proc' = [proc EXCEPT ![p].doing = "ended", ![p].code = INTERNAL_ERROR]
  /\ CutShort(p)
  /\ UNCHANGED steps

(* The process is killed.                                                  *)
Stop(p) ==
  /\ proc[p].doing \in {"running", "writing"}
  /\ proc' = [proc EXCEPT ![p].doing = "stopped"]
  /\ CutShort(p)
  /\ UNCHANGED steps

(* The user adds or removes a case, or deletes a file, between commands.   *)
Edit ==
  /\ \A p \in Procs : Resting(p)
  /\ steps < MaxSteps /\ steps' = steps + 1
  /\ \E f \in Files :
       \/ /\ content[f].kind = "dataset"
          /\ \E c \in Cases :
             \E cases \in {content[f].cases \cup {c}, content[f].cases \ {c}} :
               /\ cases \notin {{}, content[f].cases}
               /\ content' = [content EXCEPT ![f].cases = cases]
       \/ /\ content[f] # Absent
          /\ content' = [content EXCEPT ![f] = Absent]
  /\ UNCHANGED proc

Next ==
  \/ \E p \in Procs, c \in Commands : Start(p, c)
  \/ \E p \in Procs :
       OpenOutput(p) \/ FillOutput(p) \/ WriteRaises(p) \/ Stop(p)
  \/ Edit

Spec == Init /\ [][Next]_vars

-----------------------------------------------------------------------------
OutputFiles(c) == {FileOf[c.outputs[i]] : i \in DOMAIN c.outputs}
OutputsApart(c) == Cardinality(OutputFiles(c)) = Len(c.outputs)

Succeeded(p) ==
  /\ proc[p].doing = "writing" /\ proc'[p].doing = "ended"
  /\ proc'[p].code = SUCCESS

(* A split that succeeds leaves two datasets that both have cases, share   *)
(* none and together have those of its input, whatever earlier splits that *)
(* stopped half way had left in these files.                               *)
SplitPartitions ==
  [][\A p \in Procs :
       LET c == proc[p].command
           at(i) == content'[FileOf[c.outputs[i]]].cases
       IN  Succeeded(p) /\ c.verb = "split" /\ OutputsApart(c) =>
             /\ at(1) # {} /\ at(2) # {} /\ at(1) \cap at(2) = {}
             /\ at(1) \cup at(2) = content[FileOf[c.input]].cases]_vars

(* A command never touches the file it reads, under whatever name.  One    *)
(* that is killed or ends with an error - its input refused, an output that*)
(* cannot be serialized, a write that raised - has changed only files in   *)
(* which one of its outputs is now whole, and the one file it was writing: *)
(* what goes wrong before the first output is opened changes nothing, and  *)
(* at the second output leaves the first as it was written.                *)
InputIsKept(p) ==
  /\ proc[p].doing \in {"running", "writing"}
  /\ proc[p].command.verb # "create"
  => content'[FileOf[proc[p].command.input]]
       = content[FileOf[proc[p].command.input]]

HoldsOutput(f, written) ==
  \E i \in DOMAIN written :
    f = FileOf[written[i].path] /\ content'[f] = written[i].content

FailureIsContained(p) ==
  \/ proc'[p].doing = "stopped"
  \/ proc'[p].doing = "ended" /\ proc'[p].code # SUCCESS
  =>
    \A f \in Files :
      \/ content'[f] = proc'[p].before[f]
      \/ HoldsOutput(f, proc'[p].written)
      \/ proc[p].doing = "writing" /\ f = FileOf[Head(proc[p].todo).path]

OnlyOutputsChange ==
  [][\A p \in Procs :
       proc'[p] # proc[p] => InputIsKept(p) /\ FailureIsContained(p)]_vars

ChangeSides(cases, more, percent) ==
  LET before == TrainPart(cases, percent)
      after == TrainPart(more, percent)
  IN  (before \ after) \cup ((cases \cap after) \ before)

(* A case that is added to a dataset moves at most one of the others to    *)
(* the other side: a case used for training stays so, but for one.         *)
ResplitMovesOne ==
  [][\A f \in Files :
       LET cases == content[f].cases
           more == content'[f].cases
       IN  /\ Cardinality(cases) >= 2
           /\ cases \subseteq more /\ Cardinality(more \ cases) = 1
           => \A percent \in {c.percent : c \in Commands} \cap 1 .. 99 :
                Cardinality(ChangeSides(cases, more, percent)) <= 1]_vars
=============================================================================
