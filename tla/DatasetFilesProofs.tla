------------------------- MODULE DatasetFilesProofs -------------------------
(***************************************************************************)
(* Proofs about DatasetFiles: for any files, links between them and        *)
(* commands on them, datasets of any size and any ranks of their cases, a  *)
(* command touches nothing but its outputs, and a split partitions.        *)
(***************************************************************************)
EXTENDS DatasetFiles, FiniteSetTheorems, WellFoundedInduction, TLAPS

-----------------------------------------------------------------------------
(* Splitting. *)

Before(c, cases) == {d \in cases : Rank[d] < Rank[c]}

LEMMA TrainPartIs ==
  ASSUME NEW cases, NEW percent
  PROVE  TrainPart(cases, percent) =
           {c \in cases : Cardinality(Before(c, cases))
                            < TrainCount(Cardinality(cases), percent)}
BY DEF TrainPart, Before, RankIn

(* At least one case is on either side of a split.                         *)
LEMMA TrainCountLeavesBoth ==
  ASSUME NEW n \in Nat, n >= 2, NEW percent \in Int
  PROVE  TrainCount(n, percent) \in 1 .. n - 1
<1>1. n * percent \in Int
  OBVIOUS
<1>2. ASSUME NEW m \in Int PROVE Rounded(m) \in Int
  BY DEF Rounded
<1>3. Rounded(n * percent) \in Int
  BY <1>1, <1>2
<1> QED BY <1>3 DEF TrainCount

(* A set of natural numbers has a least element.                           *)
LEMMA LeastNatural ==
  ASSUME NEW S, S \subseteq Nat, S # {}
  PROVE  \E x \in S : \A y \in S : x <= y
<1> DEFINE Less == OpToRel(<, Nat)
<1>1. \A m, n \in Nat : m < n => <<m, n>> \in Less
  BY Zenon DEF OpToRel
<1>2. IsWellFoundedOn(Less, Nat)
  BY NatLessThanWellFounded
<1> HIDE DEF Less
<1>3. PICK x \in S : \A y \in S : ~(<<y, x>> \in Less)
  BY <1>2, WFMin, Zenon
<1>4. \A y \in S : ~(y < x)
  BY <1>1, <1>3
<1> QED BY <1>3, <1>4

(* The more cases come before a case, the higher its rank: the cases can   *)
(* be told apart by how many come before.                                  *)
LEMMA BeforeGrows ==
  ASSUME Directory, NEW cases \in SUBSET Cases, IsFiniteSet(cases),
         NEW c \in cases, NEW d \in cases, Rank[c] < Rank[d]
  PROVE  Cardinality(Before(c, cases)) < Cardinality(Before(d, cases))
<1> DEFINE below == Before(c, cases)
<1>1. below \subseteq cases /\ c \notin below
  BY DEF Before, Directory
<1>2. below \cup {c} \subseteq Before(d, cases)
  BY DEF Before, Directory
<1>3. Before(d, cases) \subseteq cases
  BY DEF Before
<1>4. IsFiniteSet(below) /\ IsFiniteSet(Before(d, cases))
  BY <1>1, <1>3, FS_Subset
<1>5. Cardinality(below \cup {c}) = Cardinality(below) + 1
  BY <1>1, <1>4, FS_AddElement
<1>6. Cardinality(below \cup {c}) <= Cardinality(Before(d, cases))
  BY <1>2, <1>4, FS_Subset
<1>7. Cardinality(below) \in Nat /\ Cardinality(Before(d, cases)) \in Nat
  BY <1>4, FS_CardinalityType
<1> QED BY <1>5, <1>6, <1>7

(* Nothing comes before the first case, and everything else before the     *)
(* last one.                                                               *)
LEMMA FirstAndLast ==
  ASSUME Directory, NEW cases \in SUBSET Cases, IsFiniteSet(cases), cases # {}
  PROVE  /\ \E c \in cases : Cardinality(Before(c, cases)) = 0
         /\ \E c \in cases : Cardinality(Before(c, cases)) = Cardinality(cases) - 1
<1> DEFINE n == Cardinality(cases)
           place(c) == Cardinality(Before(c, cases))
           Places == {place(c) : c \in cases}
           Gaps == {n - place(c) : c \in cases}
<1>1. n \in Nat
  BY FS_CardinalityType
<1>2. \A c \in cases : place(c) \in Nat /\ place(c) <= n
  BY FS_Subset, FS_CardinalityType DEF Before
<1>3. \E c \in cases : place(c) = 0
  <2>1. Places \subseteq Nat /\ Places # {}
    BY <1>2
  <2>2. PICK least \in Places : \A other \in Places : least <= other
    BY <2>1, LeastNatural
  <2>3. PICK c \in cases : least = place(c)
    BY <2>2
  <2>4. \A d \in cases : place(c) <= place(d)
    BY <2>2, <2>3
  <2>5. ASSUME NEW d \in Before(c, cases) PROVE FALSE
    <3>1. d \in cases /\ Rank[d] < Rank[c]
      BY DEF Before
    <3>2. place(d) < place(c)
      BY <3>1, BeforeGrows
    <3> HIDE DEF place
    <3> QED BY <1>2, <2>4, <3>1, <3>2
  <2>6. Before(c, cases) = {}
    BY <2>5
  <2> QED BY <2>6, FS_EmptySet
<1>4. \E c \in cases : place(c) = n - 1
  <2>1. Gaps \subseteq Nat /\ Gaps # {}
    <3> HIDE DEF place, n
    <3>1. \A c \in cases : n - place(c) \in Nat
      BY <1>1, <1>2
    <3> QED BY <3>1
  <2>2. PICK least \in Gaps : \A other \in Gaps : least <= other
    BY <2>1, LeastNatural
  <2>3. PICK c \in cases : least = n - place(c)
    BY <2>2
  <2>4. \A d \in cases : place(d) <= place(c)
    <3> TAKE d \in cases
    <3>1. n - place(c) <= n - place(d)
      BY <2>2, <2>3
    <3> HIDE DEF place, n
    <3> QED BY <1>1, <1>2, <3>1
  <2>5. ASSUME NEW d \in cases, d # c PROVE d \in Before(c, cases)
    <3>1. ~(Rank[c] < Rank[d])
      <4> SUFFICES ASSUME Rank[c] < Rank[d] PROVE FALSE
        OBVIOUS
      <4>1. place(c) < place(d)
        BY BeforeGrows
      <4> HIDE DEF place
      <4> QED BY <1>2, <2>4, <4>1
    <3> QED BY <2>5, <3>1 DEF Before, Directory
  <2>6. Before(c, cases) = cases \ {c}
    BY <2>5 DEF Before, Directory
  <2> QED BY <2>6, FS_RemoveElement
<1> QED BY <1>3, <1>4

(* Both sides of a split have cases.                                       *)
LEMMA BothSidesHaveCases ==
  ASSUME Directory, NEW cases \in SUBSET Cases, IsFiniteSet(cases),
         Cardinality(cases) >= 2, NEW percent \in Int
  PROVE  /\ TrainPart(cases, percent) # {}
         /\ cases \ TrainPart(cases, percent) # {}
<1> DEFINE n == Cardinality(cases)
           count == TrainCount(n, percent)
<1>1. n \in Nat /\ cases # {}
  BY FS_CardinalityType, FS_EmptySet
<1>2. count \in 1 .. n - 1
  BY <1>1, TrainCountLeavesBoth
<1>3. PICK first \in cases : Cardinality(Before(first, cases)) = 0
  BY <1>1, FirstAndLast
<1>4. PICK last \in cases : Cardinality(Before(last, cases)) = n - 1
  BY <1>1, FirstAndLast
<1>5. TrainPart(cases, percent) =
        {c \in cases : Cardinality(Before(c, cases)) < count}
  BY TrainPartIs
<1> HIDE DEF count, n
<1>6. first \in TrainPart(cases, percent)
  BY <1>2, <1>3, <1>5
<1>7. last \notin TrainPart(cases, percent)
  BY <1>1, <1>2, <1>4, <1>5
<1> QED BY <1>4, <1>6, <1>7

-----------------------------------------------------------------------------
(* What a command prepares. *)

OutputWrites == [path : Paths, content : Contents]

SplitWrites(c, dataset) ==
  <<Write(c.outputs[1], Train(dataset, c.percent)),
    Write(c.outputs[2], Evaluation(dataset, c.percent))>>

(* What is known of writes that were prepared, and stays known while they  *)
(* are made.                                                               *)
Sound(c, s) ==
  c.verb # "create" => \A i \in DOMAIN s : FileOf[s[i].path] # FileOf[c.input]

LEMMA HoldingIsContent ==
  ASSUME NEW kind \in Kinds, NEW cases \in SUBSET Cases, IsFiniteSet(cases)
  PROVE  Holding(kind, cases) \in Contents
BY DEF Holding, Contents

LEMMA EmptyIsContent ==
  ASSUME NEW kind \in Kinds
  PROVE  Holding(kind, {}) \in Contents
BY HoldingIsContent, FS_EmptySet

LEMMA CreatedIsContent == Directory => Created \in Contents
<1> SUFFICES ASSUME Directory PROVE Created \in Contents
  OBVIOUS
<1>1. {1} \in SUBSET Cases /\ IsFiniteSet({1})
  BY FS_Singleton DEF Directory
<1> DEFINE empty == Holding("dataset", {1})
           roomy == [empty EXCEPT !.idRoom = 200]
<1>2. empty \in Contents
  <2>1. "dataset" \in Kinds
    BY DEF Kinds
  <2> QED BY <1>1, <2>1, HoldingIsContent, Zenon
<1> HIDE DEF empty
<1>3. roomy \in Contents
  BY <1>2 DEF Contents
<1>4. Created = [roomy EXCEPT !.nameRoom = 400]
  BY DEF Created, empty
<1> HIDE DEF roomy
<1>5. [roomy EXCEPT !.nameRoom = 400] \in Contents
  BY <1>3 DEF Contents
<1> QED BY <1>4, <1>5

(* A part of a dataset has the cases that are given, and less room.        *)
LEMMA PartIsContent ==
  ASSUME NEW dataset \in Contents, NEW cases \in SUBSET dataset.cases,
         NEW id \in Int, NEW name \in Int
  PROVE  /\ Part(dataset, cases, id, name) \in Contents
         /\ Part(dataset, cases, id, name).cases = cases
         /\ Part(dataset, cases, id, name).idRoom = dataset.idRoom - id
         /\ Part(dataset, cases, id, name).nameRoom = dataset.nameRoom - name
<1>1. cases \in SUBSET Cases /\ IsFiniteSet(cases)
  BY FS_Subset DEF Contents
<1> DEFINE one == [dataset EXCEPT !.cases = cases]
           two == [one EXCEPT !.idRoom = dataset.idRoom - id]
           part == [two EXCEPT !.nameRoom = dataset.nameRoom - name]
<1>2. Part(dataset, cases, id, name) = part
  BY DEF Part
<1>3. /\ one \in Contents /\ one.cases = cases
      /\ one.nameRoom = dataset.nameRoom
  BY <1>1 DEF Contents
<1> HIDE DEF one
<1>4. /\ two \in Contents /\ two.cases = cases
      /\ two.nameRoom = dataset.nameRoom
      /\ two.idRoom = dataset.idRoom - id
  BY <1>3 DEF Contents
<1> HIDE DEF two
<1>5. /\ part \in Contents /\ part.cases = cases
      /\ part.idRoom = dataset.idRoom - id
      /\ part.nameRoom = dataset.nameRoom - name
  BY <1>4 DEF Contents
<1> QED BY <1>2, <1>5

LEMMA SidesAreContents ==
  ASSUME NEW dataset \in Contents, NEW percent
  PROVE  LET train == Train(dataset, percent)
             evaluation == Evaluation(dataset, percent)
         IN  /\ train \in Contents /\ evaluation \in Contents
             /\ train.cases = TrainPart(dataset.cases, percent)
             /\ evaluation.cases =
                  dataset.cases \ TrainPart(dataset.cases, percent)
             /\ TrainPart(dataset.cases, percent) \subseteq dataset.cases
<1> DEFINE part == TrainPart(dataset.cases, percent)
<1>1. part \subseteq dataset.cases
  BY TrainPartIs
<1>2. /\ Train(dataset, percent) = Part(dataset, part, 6, 8)
      /\ Evaluation(dataset, percent) =
           Part(dataset, dataset.cases \ part, 5, 13)
  BY DEF Train, Evaluation
<1>3. dataset.idRoom \in Int /\ dataset.nameRoom \in Int
  BY DEF Contents
<1> HIDE DEF part
<1> QED BY <1>1, <1>2, <1>3, PartIsContent DEF part

(* A link or another name of the file that is read is never an output.     *)
LEMMA DistinctFiles ==
  ASSUME NEW source, NEW destination, Exists(source),
         Distinct(source, destination)
  PROVE  FileOf[destination] # FileOf[source]
BY DEF Distinct, Exists

Preparation(c, p) ==
  /\ p.code \in Int
  /\ p.writes \in Seq(OutputWrites)
  /\ p.writes # << >> =>
       /\ p.code = SUCCESS
       /\ Sound(c, p.writes)
       /\ c.verb = "split" =>
            LET dataset == content[FileOf[c.input]]
            IN  /\ Cardinality(dataset.cases) >= 2
                /\ p.writes = SplitWrites(c, dataset)

LEMMA FailurePrepares ==
  ASSUME NEW c, NEW code \in Int
  PROVE  Preparation(c, Fails(code))
BY DEF Preparation, Fails

(* Writes need nothing else but to leave the input alone.                  *)
LEMMA WritesPrepare ==
  ASSUME NEW c, c.verb # "split", NEW s \in Seq(OutputWrites), Sound(c, s)
  PROVE  Preparation(c, Writes(s))
BY DEF Preparation, Writes, SUCCESS

LEMMA CreatePrepares ==
  ASSUME Directory, NEW c \in Commands, c.verb = "create"
  PROVE  Preparation(c, Create(c))
<1>1. CASE Exists(c.input)
  BY <1>1, FailurePrepares DEF Create, INVALID_INPUT
<1>2. CASE ~Exists(c.input)
  <2> DEFINE s == <<Write(c.input, Created)>>
  <2>1. c.input \in Paths
    BY DEF Directory, CommandLine
  <2>2. Write(c.input, Created) \in OutputWrites
    BY <2>1, CreatedIsContent DEF Write, OutputWrites
  <2>3. s \in Seq(OutputWrites)
    BY <2>2
  <2>4. Create(c) = Writes(s)
    BY <1>2 DEF Create
  <2> HIDE DEF s
  <2> QED BY <2>3, <2>4, WritesPrepare DEF Sound
<1> QED BY <1>1, <1>2

LEMMA SplitPrepares ==
  ASSUME Directory, content \in [Files -> Contents], NEW c \in Commands,
         c.verb = "split"
  PROVE  Preparation(c, Split(c))
<1> DEFINE dataset == content[FileOf[c.input]]
           train == Train(dataset, c.percent)
           evaluation == Evaluation(dataset, c.percent)
           s == SplitWrites(c, dataset)
<1>1. CASE Split(c) = Fails(INVALID_INPUT)
  BY <1>1, FailurePrepares DEF INVALID_INPUT
<1>2. CASE Split(c) # Fails(INVALID_INPUT)
  <2>1. /\ Loads(c.input) /\ Distinct(c.input, c.outputs[1])
        /\ Distinct(c.input, c.outputs[2])
        /\ ~(Cardinality(dataset.cases) < 2)
        /\ Split(c) = Writes(s)
    BY <1>2 DEF Split, SplitWrites
  <2>2. /\ c.input \in Paths /\ c.outputs[1] \in Paths
        /\ c.outputs[2] \in Paths
    BY DEF Directory, CommandLine
  <2>3. dataset \in Contents
    BY <2>2 DEF Files
  <2>4. train \in Contents /\ evaluation \in Contents
    BY <2>3, SidesAreContents
  <2>5. Cardinality(dataset.cases) >= 2
    BY <2>1, <2>3, FS_CardinalityType DEF Contents
  <2>6. /\ FileOf[c.outputs[1]] # FileOf[c.input]
        /\ FileOf[c.outputs[2]] # FileOf[c.input]
    BY <2>1, DistinctFiles DEF Loads, Readable
  <2> HIDE DEF train, evaluation
  <2>7. s = <<Write(c.outputs[1], train), Write(c.outputs[2], evaluation)>>
    BY DEF SplitWrites, train, evaluation
  <2>8. /\ s \in Seq(OutputWrites)
        /\ DOMAIN s = {1, 2}
        /\ s[1].path = c.outputs[1] /\ s[2].path = c.outputs[2]
    <3>1. /\ Write(c.outputs[1], train) \in OutputWrites
          /\ Write(c.outputs[2], evaluation) \in OutputWrites
      BY <2>2, <2>4 DEF Write, OutputWrites
    <3> QED BY <2>7, <3>1 DEF Write
  <2> HIDE DEF s, dataset
  <2>9. Sound(c, s)
    BY <2>6, <2>8 DEF Sound
  <2> QED BY <2>1, <2>5, <2>8, <2>9 DEF Preparation, Writes, SUCCESS, s, dataset
<1> QED BY <1>1, <1>2

LEMMA RedactPrepares ==
  ASSUME Directory, content \in [Files -> Contents], NEW c \in Commands,
         c.verb = "redact"
  PROVE  Preparation(c, Redact(c))
<1> DEFINE dataset == content[FileOf[c.input]]
           s == <<Write(c.outputs[1], Redacted(dataset))>>
<1>1. CASE \E code \in {INVALID_INPUT, INTERNAL_ERROR} : Redact(c) = Fails(code)
  BY <1>1, FailurePrepares DEF INVALID_INPUT, INTERNAL_ERROR
<1>2. CASE ~\E code \in {INVALID_INPUT, INTERNAL_ERROR} : Redact(c) = Fails(code)
  <2>1. /\ Distinct(c.input, c.outputs[1]) /\ Loads(c.input)
        /\ Redact(c) = Writes(s)
    BY <1>2 DEF Redact
  <2>2. c.input \in Paths /\ c.outputs[1] \in Paths
    BY DEF Directory, CommandLine
  <2>3. dataset \in Contents
    BY <2>2 DEF Files
  <2>4. Redacted(dataset) \in Contents
    BY <2>3 DEF Redacted, Contents
  <2>5. Write(c.outputs[1], Redacted(dataset)) \in OutputWrites
    BY <2>2, <2>4 DEF Write, OutputWrites
  <2>6. /\ s \in Seq(OutputWrites) /\ DOMAIN s = {1}
        /\ s[1].path = c.outputs[1]
    BY <2>5 DEF Write
  <2>7. FileOf[c.outputs[1]] # FileOf[c.input]
    BY <2>1, DistinctFiles DEF Loads, Readable
  <2> HIDE DEF s
  <2>8. Sound(c, s)
    BY <2>6, <2>7 DEF Sound
  <2> QED BY <2>1, <2>6, <2>8 DEF Preparation, Writes, SUCCESS
<1> QED BY <1>1, <1>2

LEMMA DerivePrepares ==
  ASSUME Directory, NEW c \in Commands,
         c.verb \notin {"create", "split", "redact"}
  PROVE  Preparation(c, Derive(c))
<1> DEFINE kind(i) == IF i = 2 THEN "preflight" ELSE "derived"
           Derived(i) == Holding(kind(i), {})
           s == [i \in DOMAIN c.outputs |-> Write(c.outputs[i], Derived(i))]
<1>1. CASE Derive(c) = Fails(INVALID_INPUT)
  BY <1>1, FailurePrepares DEF INVALID_INPUT
<1>2. CASE Derive(c) # Fails(INVALID_INPUT)
  <2>1. /\ \A i \in DOMAIN c.outputs : Distinct(c.input, c.outputs[i])
        /\ Readable(c.input)
        /\ Derive(c) = Writes(s)
    BY <1>2 DEF Derive
  <2>2. c.outputs \in Seq(Paths)
    BY DEF Directory, CommandLine
  <2>3. \A i : Derived(i) \in Contents
    <3>1. \A i : kind(i) \in Kinds
      BY DEF Kinds
    <3> HIDE DEF kind
    <3> QED BY <3>1, EmptyIsContent
  <2> HIDE DEF Derived
  <2>4. /\ s \in Seq(OutputWrites) /\ DOMAIN s = DOMAIN c.outputs
        /\ \A i \in DOMAIN s : s[i].path = c.outputs[i]
    <3>1. \A i \in DOMAIN c.outputs :
            Write(c.outputs[i], Derived(i)) \in OutputWrites
      BY <2>2, <2>3 DEF Write, OutputWrites
    <3>2. s \in [DOMAIN c.outputs -> OutputWrites]
      BY <3>1
    <3>3. DOMAIN c.outputs = 1 .. Len(c.outputs) /\ Len(c.outputs) \in Nat
      BY <2>2
    <3>4. s \in Seq(OutputWrites)
      BY <3>2, <3>3
    <3>5. \A i \in DOMAIN s : s[i] = Write(c.outputs[i], Derived(i))
      OBVIOUS
    <3> QED BY <3>2, <3>4, <3>5 DEF Write
  <2>5. \A i \in DOMAIN c.outputs : FileOf[c.outputs[i]] # FileOf[c.input]
    BY <2>1, DistinctFiles DEF Readable
  <2> HIDE DEF s
  <2>6. Sound(c, s)
    BY <2>4, <2>5 DEF Sound
  <2> QED BY <2>1, <2>4, <2>6, WritesPrepare
<1> QED BY <1>1, <1>2

(* Every command prepares writes that are typed and spare its input.       *)
LEMMA PreparedIs ==
  ASSUME Directory, content \in [Files -> Contents], NEW c \in Commands
  PROVE  Preparation(c, Prepared(c))
BY CreatePrepares, SplitPrepares, RedactPrepares, DerivePrepares DEF Prepared

-----------------------------------------------------------------------------
(* The invariant. *)

Processes ==
  [doing : {"nothing", "running", "writing", "ended", "stopped"},
   command : Commands \cup {NoCommand}, todo : Seq(OutputWrites),
   written : Seq(OutputWrites), code : Int, before : [Files -> Contents]]

Typed == content \in [Files -> Contents] /\ proc \in [Procs -> Processes]

Active(p) == proc[p].doing \in {"running", "writing"}

(* A process under way has writes to make that spare its input.            *)
Underway(p) ==
  Active(p) =>
    /\ proc[p].command \in Commands
    /\ proc[p].code = SUCCESS
    /\ proc[p].todo # << >>
    /\ Sound(proc[p].command, proc[p].todo)

FilesInv == Typed /\ \A p \in Procs : Underway(p)

(* What a step leaves alone, and what it keeps of the process that takes it. *)
Others(p) == \A q \in Procs \ {p} : proc'[q] = proc[q]
SameErrand(p) ==
  /\ proc'[p].command = proc[p].command
  /\ proc'[p].before = proc[p].before

LEMMA StartKeepsType ==
  ASSUME Directory, Typed, NEW p \in Procs, NEW c \in Commands, Start(p, c)
  PROVE  /\ Typed' /\ Others(p) /\ content' = content
         /\ proc'[p].doing = IF Prepared(c).writes = << >> THEN "ended" ELSE "running"
         /\ proc'[p].command = c
         /\ proc'[p].todo = Prepared(c).writes
         /\ proc'[p].code = Prepared(c).code
         /\ proc'[p].written = << >> /\ proc'[p].before = content
<1> DEFINE prepared == Prepared(c)
           doing == IF prepared.writes = << >> THEN "ended" ELSE "running"
           next == [doing |-> doing, command |-> c, todo |-> prepared.writes,
                    written |-> << >>, code |-> prepared.code,
                    before |-> content]
<1>1. content' = content /\ proc' = [proc EXCEPT ![p] = next]
  BY DEF Start
<1>2. prepared.code \in Int /\ prepared.writes \in Seq(OutputWrites)
  BY PreparedIs DEF Typed, Preparation
<1>3. doing \in {"ended", "running"}
  OBVIOUS
<1> HIDE DEF prepared, doing
<1>4. next \in Processes
  BY <1>2, <1>3 DEF Processes, Typed
<1>5. /\ next.doing = doing /\ next.command = c
      /\ next.todo = prepared.writes /\ next.code = prepared.code
      /\ next.written = << >> /\ next.before = content
  OBVIOUS
<1> HIDE DEF next
<1>6. Typed' /\ Others(p) /\ proc'[p] = next
  BY <1>1, <1>4 DEF Typed, Others
<1> QED BY <1>1, <1>5, <1>6 DEF prepared, doing

LEMMA WriteIsTyped ==
  ASSUME Typed, NEW p \in Procs, Underway(p), Active(p)
  PROVE  /\ 1 \in DOMAIN proc[p].todo
         /\ Head(proc[p].todo) = proc[p].todo[1]
         /\ Head(proc[p].todo) \in OutputWrites
         /\ Head(proc[p].todo).path \in Paths
         /\ Head(proc[p].todo).content \in Contents
         /\ FileOf[Head(proc[p].todo).path] \in Files
<1>1. proc[p].todo \in Seq(OutputWrites) /\ proc[p].todo # << >>
  BY DEF Typed, Processes, Underway
<1>2. Head(proc[p].todo) \in OutputWrites
  BY <1>1
<1> QED BY <1>1, <1>2 DEF OutputWrites, Files

LEMMA OpenKeepsType ==
  ASSUME Typed, NEW p \in Procs, Underway(p), OpenOutput(p)
  PROVE  LET w == Head(proc[p].todo)
         IN  /\ Typed' /\ Others(p) /\ SameErrand(p)
             /\ proc[p].doing = "running"
             /\ proc'[p].todo = proc[p].todo
             /\ proc'[p].written = proc[p].written
             /\ \/ /\ Serializable(w.content)
                   /\ proc'[p].doing = "writing" /\ proc'[p].code = proc[p].code
                   /\ content' = [content EXCEPT ![FileOf[w.path]] = Torn]
                \/ /\ ~Serializable(w.content)
                   /\ proc'[p].doing = "ended" /\ proc'[p].code = INTERNAL_ERROR
                   /\ content' = content
<1> DEFINE w == Head(proc[p].todo)
<1>1. Active(p)
  BY DEF OpenOutput, Active
<1>2. FileOf[w.path] \in Files
  BY <1>1, WriteIsTyped
<1>3. Torn \in Contents
  BY EmptyIsContent DEF Torn, Kinds
<1>4. CASE Serializable(w.content)
  <2>1. /\ content' = [content EXCEPT ![FileOf[w.path]] = Torn]
        /\ proc' = [proc EXCEPT ![p].doing = "writing"]
    BY <1>4 DEF OpenOutput
  <2> HIDE DEF w
  <2>2. content' \in [Files -> Contents]
    BY <1>2, <1>3, <2>1 DEF Typed
  <2>3. /\ proc' \in [Procs -> Processes] /\ Others(p) /\ SameErrand(p)
        /\ proc'[p].doing = "writing" /\ proc'[p].code = proc[p].code
        /\ proc'[p].todo = proc[p].todo
        /\ proc'[p].written = proc[p].written
    BY <2>1 DEF Typed, Processes, Others, SameErrand
  <2> QED BY <1>4, <2>1, <2>2, <2>3 DEF Typed, OpenOutput, w
<1>5. CASE ~Serializable(w.content)
  <2> DEFINE one == [proc EXCEPT ![p].doing = "ended"]
  <2>1. /\ content' = content
        /\ proc' = [one EXCEPT ![p].code = INTERNAL_ERROR]
    BY <1>5 DEF OpenOutput
  <2>2. /\ one \in [Procs -> Processes] /\ one[p].doing = "ended"
        /\ \A q \in Procs \ {p} : one[q] = proc[q]
        /\ one[p].command = proc[p].command
        /\ one[p].before = proc[p].before
        /\ one[p].todo = proc[p].todo
        /\ one[p].written = proc[p].written
    BY DEF Typed, Processes
  <2> HIDE DEF one
  <2>3. /\ proc' \in [Procs -> Processes] /\ Others(p) /\ SameErrand(p)
        /\ proc'[p].doing = "ended" /\ proc'[p].code = INTERNAL_ERROR
        /\ proc'[p].todo = proc[p].todo
        /\ proc'[p].written = proc[p].written
    <3>1. INTERNAL_ERROR \in Int
      BY DEF INTERNAL_ERROR
    <3> QED BY <2>1, <2>2, <3>1 DEF Processes, Others, SameErrand
  <2> QED BY <1>5, <2>1, <2>3 DEF Typed, OpenOutput
<1> QED BY <1>4, <1>5

LEMMA FillKeepsType ==
  ASSUME Typed, NEW p \in Procs, Underway(p), FillOutput(p)
  PROVE  LET w == Head(proc[p].todo)
             rest == Tail(proc[p].todo)
         IN  /\ Typed' /\ Others(p) /\ SameErrand(p)
             /\ proc[p].doing = "writing"
             /\ proc'[p].todo = rest
             /\ proc'[p].written = Append(proc[p].written, w)
             /\ proc'[p].code = proc[p].code
             /\ proc'[p].doing = IF rest = << >> THEN "ended" ELSE "running"
             /\ content' = [content EXCEPT ![FileOf[w.path]] = w.content]
<1> DEFINE w == Head(proc[p].todo)
           rest == Tail(proc[p].todo)
           made == Append(proc[p].written, w)
           doing == IF rest = << >> THEN "ended" ELSE "running"
           one == [proc EXCEPT ![p].todo = rest]
           two == [one EXCEPT ![p].written = made]
<1>1. Active(p) /\ proc[p].doing = "writing"
  BY DEF FillOutput, Active
<1>2. /\ FileOf[w.path] \in Files /\ w.content \in Contents
      /\ w \in OutputWrites
  BY <1>1, WriteIsTyped
<1>3. /\ content' = [content EXCEPT ![FileOf[w.path]] = w.content]
      /\ proc' = [two EXCEPT ![p].doing = doing]
  <2>1. two = [one EXCEPT ![p].written = Append(@, w)]
    BY DEF Typed, Processes
  <2> HIDE DEF two
  <2> QED BY <2>1 DEF FillOutput
<1>4. rest \in Seq(OutputWrites) /\ made \in Seq(OutputWrites)
  <2>1. /\ proc[p].todo \in Seq(OutputWrites) /\ proc[p].todo # << >>
        /\ proc[p].written \in Seq(OutputWrites)
    BY <1>1 DEF Typed, Processes, Underway
  <2> QED BY <1>2, <2>1
<1>5. doing \in {"ended", "running"}
  OBVIOUS
<1> HIDE DEF w, rest, made, doing
<1>6. /\ one \in [Procs -> Processes] /\ one[p].todo = rest
      /\ \A q \in Procs \ {p} : one[q] = proc[q]
      /\ one[p].command = proc[p].command
      /\ one[p].before = proc[p].before
      /\ one[p].code = proc[p].code
  BY <1>4 DEF Typed, Processes
<1> HIDE DEF one
<1>7. /\ two \in [Procs -> Processes] /\ two[p].todo = rest
      /\ two[p].written = made
      /\ \A q \in Procs \ {p} : two[q] = proc[q]
      /\ two[p].command = proc[p].command
      /\ two[p].before = proc[p].before
      /\ two[p].code = proc[p].code
  BY <1>4, <1>6 DEF Processes
<1> HIDE DEF two
<1>8. /\ proc' \in [Procs -> Processes] /\ Others(p) /\ SameErrand(p)
      /\ proc'[p].todo = rest /\ proc'[p].code = proc[p].code
      /\ proc'[p].written = made /\ proc'[p].doing = doing
  BY <1>3, <1>5, <1>7 DEF Processes, Others, SameErrand
<1>9. content' \in [Files -> Contents]
  BY <1>2, <1>3 DEF Typed
<1> QED BY <1>1, <1>3, <1>8, <1>9 DEF Typed, w, rest, made, doing

(* A write that is cut short changes the file it was made to, or none.     *)
LEMMA CutKeepsType ==
  ASSUME Typed, NEW p \in Procs, Underway(p), Active(p), CutShort(p)
  PROVE  /\ content' \in [Files -> Contents]
         /\ \/ content' = content
            \/ /\ proc[p].doing = "writing"
               /\ \E left : content' =
                    [content EXCEPT ![FileOf[Head(proc[p].todo).path]] = left]
<1> DEFINE w == Head(proc[p].todo)
<1>1. FileOf[w.path] \in Files /\ w.content \in Contents
  BY WriteIsTyped
<1>2. ASSUME NEW left \in Remains(w) PROVE left \in Contents
  <2>1. CASE left = Torn
    BY <2>1, EmptyIsContent DEF Torn, Kinds
  <2>2. CASE left # Torn
    <3>1. PICK c \in w.content.cases :
            left = [w.content EXCEPT !.cases = {d \in w.content.cases : d <= c}]
      BY <2>2, <1>2 DEF Remains
    <3> DEFINE kept == {d \in w.content.cases : d <= c}
    <3>2. kept \in SUBSET Cases /\ IsFiniteSet(kept)
      BY <1>1, FS_Subset DEF Contents
    <3>3. left = [w.content EXCEPT !.cases = kept]
      BY <3>1
    <3> HIDE DEF kept, w
    <3> QED BY <1>1, <3>2, <3>3 DEF Contents
  <2> QED BY <2>1, <2>2
<1>3. \/ content' = content
      \/ /\ proc[p].doing = "writing"
         /\ \E left \in Remains(w) :
              content' = [content EXCEPT ![FileOf[w.path]] = left]
  BY DEF CutShort, Active
<1> HIDE DEF w
<1>4. content' \in [Files -> Contents]
  BY <1>1, <1>2, <1>3 DEF Typed
<1> QED BY <1>3, <1>4 DEF w

LEMMA RaiseKeepsType ==
  ASSUME Typed, NEW p \in Procs, Underway(p), WriteRaises(p)
  PROVE  /\ Typed' /\ Others(p) /\ SameErrand(p)
         /\ Active(p) /\ proc'[p].doing = "ended"
         /\ proc'[p].code = INTERNAL_ERROR
         /\ proc'[p].written = proc[p].written
         /\ \/ content' = content
            \/ /\ proc[p].doing = "writing"
               /\ \E left : content' =
                    [content EXCEPT ![FileOf[Head(proc[p].todo).path]] = left]
<1> DEFINE one == [proc EXCEPT ![p].doing = "ended"]
<1>1. /\ Active(p) /\ CutShort(p)
      /\ proc' = [one EXCEPT ![p].code = INTERNAL_ERROR]
  BY DEF WriteRaises, Active
<1>2. /\ one \in [Procs -> Processes] /\ one[p].doing = "ended"
      /\ \A q \in Procs \ {p} : one[q] = proc[q]
      /\ one[p].command = proc[p].command
      /\ one[p].before = proc[p].before
      /\ one[p].written = proc[p].written
  BY DEF Typed, Processes
<1> HIDE DEF one
<1>3. INTERNAL_ERROR \in Int
  BY DEF INTERNAL_ERROR
<1>4. /\ proc' \in [Procs -> Processes] /\ Others(p) /\ SameErrand(p)
      /\ proc'[p].doing = "ended" /\ proc'[p].code = INTERNAL_ERROR
      /\ proc'[p].written = proc[p].written
  BY <1>1, <1>2, <1>3 DEF Processes, Others, SameErrand
<1> QED BY <1>1, <1>4, CutKeepsType DEF Typed

LEMMA StopKeepsType ==
  ASSUME Typed, NEW p \in Procs, Underway(p), Stop(p)
  PROVE  /\ Typed' /\ Others(p) /\ SameErrand(p)
         /\ Active(p) /\ proc'[p].doing = "stopped"
         /\ proc'[p].written = proc[p].written
         /\ \/ content' = content
            \/ /\ proc[p].doing = "writing"
               /\ \E left : content' =
                    [content EXCEPT ![FileOf[Head(proc[p].todo).path]] = left]
<1>1. Active(p) /\ CutShort(p) /\ proc' = [proc EXCEPT ![p].doing = "stopped"]
  BY DEF Stop, Active
<1>2. /\ proc' \in [Procs -> Processes] /\ Others(p) /\ SameErrand(p)
      /\ proc'[p].doing = "stopped" /\ proc'[p].written = proc[p].written
  BY <1>1 DEF Typed, Processes, Others, SameErrand
<1> QED BY <1>1, <1>2, CutKeepsType DEF Typed

LEMMA EditKeepsType ==
  ASSUME Typed, Edit
  PROVE  Typed' /\ proc' = proc
<1>1. proc' = proc
  BY DEF Edit
<1>2. Absent \in Contents
  BY EmptyIsContent DEF Absent, Kinds
<1>3. content' \in [Files -> Contents]
  <2>1. PICK f \in Files :
          \/ \E c \in Cases :
             \E cases \in {content[f].cases \cup {c}, content[f].cases \ {c}} :
               content' = [content EXCEPT ![f].cases = cases]
          \/ content' = [content EXCEPT ![f] = Absent]
    BY DEF Edit
  <2>2. CASE content' = [content EXCEPT ![f] = Absent]
    BY <1>2, <2>2 DEF Typed
  <2>3. ASSUME NEW c \in Cases,
               NEW cases \in {content[f].cases \cup {c}, content[f].cases \ {c}},
               content' = [content EXCEPT ![f].cases = cases]
        PROVE  content' \in [Files -> Contents]
    <3>1. content[f].cases \in SUBSET Cases /\ IsFiniteSet(content[f].cases)
      BY DEF Typed, Contents
    <3>2. cases \in SUBSET Cases /\ IsFiniteSet(cases)
      BY <3>1, FS_AddElement, FS_RemoveElement
    <3> QED BY <2>3, <3>2 DEF Typed, Contents
  <2> QED BY <2>1, <2>2, <2>3
<1> QED BY <1>1, <1>3 DEF Typed

-----------------------------------------------------------------------------
(* What is known of writes is known of those that are left.                *)
LEMMA RestIs ==
  ASSUME NEW s \in Seq(OutputWrites), s # << >>
  PROVE  /\ Tail(s) \in Seq(OutputWrites)
         /\ \A i \in DOMAIN Tail(s) : i + 1 \in DOMAIN s /\ Tail(s)[i] = s[i + 1]
OBVIOUS

LEMMA RestIsSound ==
  ASSUME NEW c, NEW s \in Seq(OutputWrites), s # << >>
  PROVE  Sound(c, s) => Sound(c, Tail(s))
<1>1. (\A i \in DOMAIN s : FileOf[s[i].path] # FileOf[c.input]) =>
        \A i \in DOMAIN Tail(s) : FileOf[Tail(s)[i].path] # FileOf[c.input]
  BY RestIs
<1> QED BY <1>1 DEF Sound

LEMMA UnderwayIsKept ==
  ASSUME Directory, FilesInv, [Next]_vars
  PROVE  FilesInv'
<1>1. Typed /\ \A p \in Procs : Underway(p)
  BY DEF FilesInv
<1>2. ASSUME NEW p \in Procs, Others(p), Underway(p)'
      PROVE  \A q \in Procs : Underway(q)'
  BY <1>1, <1>2 DEF Others, Underway, Active
<1>3. ASSUME NEW p \in Procs, NEW c \in Commands, Start(p, c)
      PROVE  FilesInv'
  <2>1. Preparation(c, Prepared(c))
    BY <1>1, PreparedIs DEF Typed
  <2>2. Underway(p)'
    BY <1>1, <1>3, <2>1, StartKeepsType DEF Underway, Active, Preparation
  <2> QED BY <1>1, <1>2, <1>3, <2>2, StartKeepsType DEF FilesInv
<1>4. ASSUME NEW p \in Procs, OpenOutput(p) PROVE FilesInv'
  <2>1. Underway(p)'
    BY <1>1, <1>4, OpenKeepsType DEF Underway, Active, SameErrand
  <2> QED BY <1>1, <1>2, <1>4, <2>1, OpenKeepsType DEF FilesInv
<1>5. ASSUME NEW p \in Procs, FillOutput(p) PROVE FilesInv'
  <2>1. Active(p) /\ proc[p].todo \in Seq(OutputWrites) /\ proc[p].todo # << >>
    BY <1>1, <1>5 DEF FillOutput, Active, Underway, Typed, Processes
  <2>2. Sound(proc[p].command, Tail(proc[p].todo))
    BY <1>1, <2>1, RestIsSound DEF Underway
  <2>3. Underway(p)'
    BY <1>1, <1>5, <2>1, <2>2, FillKeepsType DEF Underway, Active, SameErrand
  <2> QED BY <1>1, <1>2, <1>5, <2>3, FillKeepsType DEF FilesInv
<1>6. ASSUME NEW p \in Procs, Stop(p) PROVE FilesInv'
  <2>1. Underway(p)'
    BY <1>1, <1>6, StopKeepsType DEF Underway, Active
  <2> QED BY <1>1, <1>2, <1>6, <2>1, StopKeepsType DEF FilesInv
<1>7. ASSUME NEW p \in Procs, WriteRaises(p) PROVE FilesInv'
  <2>1. Underway(p)'
    BY <1>1, <1>7, RaiseKeepsType DEF Underway, Active
  <2> QED BY <1>1, <1>2, <1>7, <2>1, RaiseKeepsType DEF FilesInv
<1>8. CASE Edit
  BY <1>1, <1>8, EditKeepsType DEF FilesInv, Underway, Active
<1>9. CASE UNCHANGED vars
  BY <1>1, <1>9 DEF vars, FilesInv, Typed, Underway, Active
<1> QED BY <1>3, <1>4, <1>5, <1>6, <1>7, <1>8, <1>9 DEF Next

LEMMA FilesInvariant == Directory => (Spec => []FilesInv)
<1> SUFFICES ASSUME Directory PROVE Spec => []FilesInv
  OBVIOUS
<1>1. Init => FilesInv
  <2> SUFFICES ASSUME Init PROVE FilesInv
    OBVIOUS
  <2>1. AtRest \in Processes
    BY DEF AtRest, Processes, SUCCESS, Directory
  <2>2. AtRest.doing = "nothing"
    BY DEF AtRest
  <2> QED BY <2>1, <2>2 DEF Init, FilesInv, Typed, Underway, Active, Directory
<1>2. FilesInv /\ [Next]_vars => FilesInv'
  BY UnderwayIsKept
<1> QED BY <1>1, <1>2, PTL DEF Spec

-----------------------------------------------------------------------------
(* Whatever several processes do, none of them writes to the file that it  *)
(* reads, under whatever name.                                             *)
InputsAreKept ==
  [][\A p \in Procs : proc'[p] # proc[p] => InputIsKept(p)]_vars

LEMMA StepKeepsInput ==
  ASSUME Directory, FilesInv, [Next]_vars, NEW p \in Procs, proc'[p] # proc[p]
  PROVE  InputIsKept(p)
<1>1. Typed /\ \A q \in Procs : Underway(q)
  BY DEF FilesInv
<1> SUFFICES ASSUME Active(p), proc[p].command.verb # "create"
             PROVE  content'[FileOf[proc[p].command.input]]
                      = content[FileOf[proc[p].command.input]]
  BY DEF InputIsKept, Active
<1> DEFINE w == Head(proc[p].todo)
           read == FileOf[proc[p].command.input]
<1>2. FileOf[w.path] # read
  <2>1. 1 \in DOMAIN proc[p].todo /\ w = proc[p].todo[1]
    BY <1>1, WriteIsTyped
  <2> QED BY <1>1, <2>1 DEF Underway, Sound
<1>3. read \in DOMAIN content
  BY <1>1 DEF Typed, Underway, Directory, CommandLine, Files
<1>4. \A q \in Procs \ {p} : ~Others(q)
  BY DEF Others
<1>5. \A q \in Procs : OpenOutput(q) => q = p
  BY <1>1, <1>4, OpenKeepsType
<1>6. \A q \in Procs : FillOutput(q) => q = p
  BY <1>1, <1>4, FillKeepsType
<1>7. \A q \in Procs : Stop(q) \/ WriteRaises(q) => q = p
  BY <1>1, <1>4, StopKeepsType, RaiseKeepsType
<1>8. \A q \in Procs, c \in Commands : Start(q, c) => UNCHANGED content
  BY DEF Start
<1>9. ~Edit /\ ~UNCHANGED vars
  BY <1>1, EditKeepsType DEF vars
<1> HIDE DEF w, read
<1>10. OpenOutput(p) => content'[read] = content[read]
  BY <1>1, <1>2, <1>3, OpenKeepsType DEF w
<1>11. FillOutput(p) => content'[read] = content[read]
  BY <1>1, <1>2, <1>3, FillKeepsType DEF w
<1>12. Stop(p) \/ WriteRaises(p) => content'[read] = content[read]
  BY <1>1, <1>2, <1>3, StopKeepsType, RaiseKeepsType DEF w
<1>13. content'[read] = content[read]
  BY <1>5, <1>6, <1>7, <1>8, <1>9, <1>10, <1>11, <1>12 DEF Next
<1> QED BY <1>13 DEF read

(* With any number of processes at once, none changes the file its command *)
(* reads.                                                                  *)
THEOREM InputsAreKeptTheorem == Directory => (Spec => InputsAreKept)
<1> SUFFICES ASSUME Directory PROVE Spec => InputsAreKept
  OBVIOUS
<1>1. FilesInv /\ [Next]_vars =>
        [\A p \in Procs : proc'[p] # proc[p] => InputIsKept(p)]_vars
  BY StepKeepsInput
<1> QED BY <1>1, FilesInvariant, PTL DEF Spec, InputsAreKept

-----------------------------------------------------------------------------
(* One process alone, with edits between its commands. *)

(* What a command has changed so far: files that hold an output of it, and *)
(* the one that is open.                                                   *)
Made(f, w) ==
  \E i \in DOMAIN proc[w].written :
    /\ f = FileOf[proc[w].written[i].path]
    /\ content[f] = proc[w].written[i].content
Open(f, w) ==
  proc[w].doing = "writing" /\ f = FileOf[Head(proc[w].todo).path]
Contained(w) ==
  Active(w) =>
    \A f \in Files : content[f] = proc[w].before[f] \/ Made(f, w) \/ Open(f, w)

(* A split writes the parts of what its input holds now: both, or the      *)
(* second one when the first is in its file.                               *)
HalfSplit(w) ==
  LET c == proc[w].command
      dataset == content[FileOf[c.input]]
      train == TrainPart(dataset.cases, c.percent)
      writes == SplitWrites(c, dataset)
  IN  Active(w) /\ c.verb = "split" =>
        /\ Cardinality(dataset.cases) >= 2
        /\ \/ proc[w].todo = writes
           \/ /\ proc[w].todo = Tail(writes)
              /\ OutputsApart(c) => content[FileOf[c.outputs[1]]].cases = train

AloneInv(w) == FilesInv /\ Contained(w) /\ HalfSplit(w)

LEMMA TwoWrites ==
  ASSUME NEW c, NEW dataset
  PROVE  LET s == SplitWrites(c, dataset)
         IN  /\ DOMAIN s = {1, 2} /\ s # << >>
             /\ s[1].path = c.outputs[1] /\ s[2].path = c.outputs[2]
             /\ s[1].content = Train(dataset, c.percent)
             /\ s[2].content = Evaluation(dataset, c.percent)
             /\ Head(s) = s[1] /\ Tail(s) = <<s[2]>>
             /\ Head(Tail(s)) = s[2] /\ Tail(Tail(s)) = << >>
             /\ s # Tail(s) /\ Tail(s) # << >>
BY DEF SplitWrites, Write

LEMMA TwoFiles ==
  ASSUME NEW c, Len(c.outputs) = 2, c.outputs \in Seq(Paths), OutputsApart(c)
  PROVE  FileOf[c.outputs[1]] # FileOf[c.outputs[2]]
<1>1. DOMAIN c.outputs = {1, 2}
  OBVIOUS
<1> SUFFICES ASSUME FileOf[c.outputs[1]] = FileOf[c.outputs[2]] PROVE FALSE
  OBVIOUS
<1>2. OutputFiles(c) = {FileOf[c.outputs[1]]}
  BY <1>1 DEF OutputFiles
<1>3. Cardinality(OutputFiles(c)) = 1
  BY <1>2, FS_Singleton
<1> QED BY <1>3 DEF OutputsApart

LEMMA SplitOutputs ==
  ASSUME Directory, NEW c \in Commands, c.verb = "split"
  PROVE  /\ FileOf[c.outputs[1]] \in Files
         /\ OutputsApart(c) => FileOf[c.outputs[1]] # FileOf[c.outputs[2]]
<1>1. c.outputs \in Seq(Paths) /\ Len(c.outputs) = 2
  BY DEF Directory, CommandLine
<1> QED BY <1>1, TwoFiles DEF Files

LEMMA StartAlone ==
  ASSUME Directory, NEW w \in Procs, AloneInv(w), NEW c \in Commands,
         Start(w, c)
  PROVE  Contained(w)' /\ HalfSplit(w)'
<1>1. Typed
  BY DEF AloneInv, FilesInv
<1>2. Preparation(c, Prepared(c))
  BY <1>1, PreparedIs DEF Typed
<1>3. /\ content' = content /\ proc'[w].command = c
      /\ proc'[w].todo = Prepared(c).writes /\ proc'[w].before = content
      /\ proc'[w].doing =
           IF Prepared(c).writes = << >> THEN "ended" ELSE "running"
  BY <1>1, StartKeepsType
<1>4. Contained(w)'
  BY <1>3 DEF Contained
<1>5. HalfSplit(w)'
  BY <1>2, <1>3 DEF HalfSplit, Active, Preparation, SplitWrites
<1> QED BY <1>4, <1>5

(* A step of a process under way that leaves its input alone.              *)
LEMMA InputStaysKnown ==
  ASSUME Directory, NEW w \in Procs, AloneInv(w), Next, Active(w),
         proc'[w] # proc[w], SameErrand(w), proc[w].command.verb # "create"
  PROVE  content'[FileOf[proc'[w].command.input]] =
           content[FileOf[proc[w].command.input]]
<1>1. InputIsKept(w)
  BY StepKeepsInput DEF AloneInv
<1> QED BY <1>1 DEF InputIsKept, Active, SameErrand

LEMMA OpenAlone ==
  ASSUME Directory, NEW w \in Procs, AloneInv(w), OpenOutput(w)
  PROVE  Contained(w)' /\ HalfSplit(w)'
<1> DEFINE c == proc[w].command
           todo == proc[w].todo
<1>1. Typed /\ Underway(w) /\ Contained(w) /\ HalfSplit(w)
  BY DEF AloneInv, FilesInv
<1>2. /\ Active(w) /\ SameErrand(w) /\ proc[w].doing = "running"
      /\ proc'[w].todo = todo /\ proc'[w] # proc[w]
      /\ proc'[w].written = proc[w].written
      /\ proc'[w].doing = "writing" =>
           content' = [content EXCEPT ![FileOf[Head(todo).path]] = Torn]
      /\ proc'[w].doing \in {"writing", "ended"}
  BY <1>1, OpenKeepsType DEF Active
<1>3. Next
  BY DEF Next
<1>5. c.verb # "create" =>
        content'[FileOf[proc'[w].command.input]] = content[FileOf[c.input]]
  BY <1>2, <1>3, InputStaysKnown
<1>7. ASSUME proc'[w].doing = "writing" PROVE Contained(w)'
  <2>1. ASSUME NEW f \in Files, f # FileOf[Head(todo).path]
        PROVE  content'[f] = proc'[w].before[f] \/ Made(f, w)'
    <3>1. content'[f] = content[f]
      BY <1>1, <1>2, <1>7, <2>1 DEF Typed
    <3>2. content[f] = proc[w].before[f] \/ Made(f, w)
      BY <1>1, <1>2, <2>1 DEF Contained, Open
    <3> QED BY <1>2, <3>1, <3>2 DEF Made, SameErrand
  <2> QED BY <1>2, <1>7, <2>1 DEF Contained, Open
<1>8. ASSUME proc'[w].doing = "writing", c.verb = "split"
      PROVE  HalfSplit(w)'
  <2> DEFINE dataset == content[FileOf[c.input]]
             writes == SplitWrites(c, dataset)
             first == FileOf[c.outputs[1]]
             second == FileOf[c.outputs[2]]
  <2>1. proc'[w].command = c /\ content'[FileOf[c.input]] = dataset
    BY <1>2, <1>5, <1>8 DEF SameErrand
  <2>2. /\ Cardinality(dataset.cases) >= 2
        /\ \/ todo = writes
           \/ /\ todo = Tail(writes)
              /\ OutputsApart(c) =>
                   content[first].cases = TrainPart(dataset.cases, c.percent)
    BY <1>1, <1>2, <1>8 DEF HalfSplit
  <2>3. ASSUME todo = Tail(writes), OutputsApart(c)
        PROVE  content'[first].cases = TrainPart(dataset.cases, c.percent)
    <3>1. FileOf[Head(todo).path] = second
      <4>1. Head(Tail(writes)).path = c.outputs[2]
        <5> HIDE DEF c, dataset
        <5> QED BY TwoWrites
      <4> QED BY <2>3, <4>1
    <3>2. first # second /\ first \in Files
      BY <1>1, <1>2, <1>8, <2>3, SplitOutputs DEF Underway
    <3>3. content'[first] = content[first]
      BY <1>1, <1>2, <1>8, <3>1, <3>2 DEF Typed
    <3>4. todo # writes
      BY <2>3, TwoWrites
    <3> QED BY <2>2, <2>3, <3>3, <3>4
  <2> HIDE DEF writes, first
  <2>4. /\ Cardinality(dataset.cases) >= 2
        /\ \/ proc'[w].todo = writes
           \/ /\ proc'[w].todo = Tail(writes)
              /\ OutputsApart(c) =>
                   content'[first].cases = TrainPart(dataset.cases, c.percent)
    BY <1>2, <2>2, <2>3
  <2> QED BY <2>1, <2>4 DEF HalfSplit, writes, first, SplitWrites
<1>9. CASE proc'[w].doing = "writing"
  <2>1. c.verb # "split" => HalfSplit(w)'
    BY <1>2 DEF HalfSplit, SameErrand
  <2> QED BY <1>7, <1>8, <1>9, <2>1
<1>10. CASE proc'[w].doing = "ended"
  BY <1>10 DEF Contained, HalfSplit, Active
<1> QED BY <1>2, <1>9, <1>10

LEMMA FillAlone ==
  ASSUME Directory, NEW w \in Procs, AloneInv(w), FillOutput(w)
  PROVE  Contained(w)' /\ HalfSplit(w)'
<1> DEFINE c == proc[w].command
           todo == proc[w].todo
           made == proc[w].written
<1>1. Typed /\ Underway(w) /\ Contained(w) /\ HalfSplit(w)
  BY DEF AloneInv, FilesInv
<1>2. /\ Active(w) /\ SameErrand(w) /\ proc[w].doing = "writing"
      /\ proc'[w].todo = Tail(todo) /\ proc'[w] # proc[w]
      /\ proc'[w].written = Append(made, Head(todo))
      /\ content' = [content EXCEPT ![FileOf[Head(todo).path]] = Head(todo).content]
      /\ proc'[w].doing = IF Tail(todo) = << >> THEN "ended" ELSE "running"
  BY <1>1, FillKeepsType DEF Active
<1>3. Next
  BY DEF Next
<1>4. c.verb # "create" =>
        content'[FileOf[proc'[w].command.input]] = content[FileOf[c.input]]
  BY <1>2, <1>3, InputStaysKnown
<1>5. /\ todo \in Seq(OutputWrites) /\ todo # << >> /\ c \in Commands
      /\ made \in Seq(OutputWrites) /\ Head(todo) \in OutputWrites
  BY <1>1, <1>2, WriteIsTyped DEF Underway, Typed, Processes
<1>6. Contained(w)'
  <2> DEFINE more == Append(made, Head(todo))
  <2>1. /\ DOMAIN more = DOMAIN made \cup {Len(made) + 1}
        /\ \A i \in DOMAIN made : more[i] = made[i]
        /\ more[Len(made) + 1] = Head(todo)
    <3> HIDE DEF made, todo
    <3> QED BY <1>5
  <2> HIDE DEF more, made
  <2>2. ASSUME NEW f \in Files, f # FileOf[Head(todo).path]
        PROVE  content'[f] = proc'[w].before[f] \/ Made(f, w)'
    <3>1. content'[f] = content[f]
      BY <1>1, <1>2, <2>2 DEF Typed
    <3>2. content[f] = proc[w].before[f] \/ Made(f, w)
      BY <1>1, <1>2, <2>2 DEF Contained, Open
    <3>3. Made(f, w) => Made(f, w)'
      <4>1. proc'[w].written = more
        BY <1>2 DEF more
      <4> QED BY <2>1, <3>1, <4>1 DEF Made, made
    <3> QED BY <1>2, <3>1, <3>2, <3>3 DEF SameErrand
  <2>3. ASSUME NEW f \in Files, f = FileOf[Head(todo).path] PROVE Made(f, w)'
    <3>1. content'[f] = Head(todo).content
      BY <1>1, <1>2, <2>3 DEF Typed
    <3>2. /\ proc'[w].written = more /\ Len(made) + 1 \in DOMAIN more
          /\ more[Len(made) + 1] = Head(todo)
      BY <1>2, <2>1 DEF more
    <3> HIDE DEF todo
    <3> QED BY <2>3, <3>1, <3>2 DEF Made
  <2> QED BY <2>2, <2>3 DEF Contained
<1>7. ASSUME c.verb = "split" PROVE HalfSplit(w)'
  <2> DEFINE dataset == content[FileOf[c.input]]
             writes == SplitWrites(c, dataset)
             first == FileOf[c.outputs[1]]
             part == TrainPart(dataset.cases, c.percent)
  <2>1. proc'[w].command = c /\ content'[FileOf[c.input]] = dataset
    BY <1>2, <1>4, <1>7 DEF SameErrand
  <2>2. Cardinality(dataset.cases) >= 2 /\ todo \in {writes, Tail(writes)}
    BY <1>1, <1>2, <1>7 DEF HalfSplit
  <2>3. CASE todo = Tail(writes)
    <3>1. Tail(Tail(writes)) = << >>
      <4> HIDE DEF c, dataset
      <4> QED BY TwoWrites
    <3> HIDE DEF writes
    <3>2. proc'[w].doing = "ended"
      BY <1>2, <2>3, <3>1
    <3> QED BY <3>2 DEF HalfSplit, Active
  <2>4. CASE todo = writes
    <3>1. /\ Head(writes).path = c.outputs[1]
          /\ Head(writes).content = Train(dataset, c.percent)
      <4> HIDE DEF c, dataset
      <4> QED BY TwoWrites
    <3>2. dataset \in Contents
      BY <1>1, <1>5 DEF Directory, CommandLine, Typed, Files
    <3>3. Train(dataset, c.percent).cases = part
      BY <3>2, SidesAreContents
    <3>4. first \in Files
      BY <1>5, <1>7, SplitOutputs
    <3> HIDE DEF writes, part
    <3>5. content'[first].cases = part
      BY <1>1, <1>2, <2>4, <3>1, <3>3, <3>4 DEF Typed
    <3>6. proc'[w].todo = Tail(writes)
      BY <1>2, <2>4
    <3> QED BY <2>1, <2>2, <3>5, <3>6 DEF HalfSplit, writes, part, SplitWrites
  <2> QED BY <2>2, <2>3, <2>4
<1>8. c.verb # "split" => HalfSplit(w)'
  BY <1>2 DEF HalfSplit, SameErrand
<1> QED BY <1>6, <1>7, <1>8

LEMMA AloneInvariant ==
  ASSUME Directory, NEW w, Procs = {w}
  PROVE  Spec => []AloneInv(w)
<1>1. Init => Contained(w) /\ HalfSplit(w)
  BY DEF Init, Contained, HalfSplit, Active, AtRest
<1>2. FilesInv /\ FilesInv' /\ AloneInv(w) /\ [Next]_vars => AloneInv(w)'
  <2> SUFFICES ASSUME FilesInv, FilesInv', AloneInv(w), [Next]_vars
               PROVE  Contained(w)' /\ HalfSplit(w)'
    BY DEF AloneInv
  <2>1. ASSUME NEW c \in Commands, Start(w, c) PROVE Contained(w)' /\ HalfSplit(w)'
    BY <2>1, StartAlone
  <2>2. CASE OpenOutput(w)
    BY <2>2, OpenAlone
  <2>3. CASE FillOutput(w)
    BY <2>3, FillAlone
  <2>4. CASE Stop(w) \/ WriteRaises(w)
    <3>1. ~Active(w)'
      BY <2>4, StopKeepsType, RaiseKeepsType DEF AloneInv, FilesInv, Active
    <3> QED BY <3>1 DEF Contained, HalfSplit, Active
  <2>5. CASE Edit
    <3>1. ~Active(w)'
      BY <2>5 DEF Edit, Resting, Active
    <3> QED BY <3>1 DEF Contained, HalfSplit, Active
  <2>6. CASE UNCHANGED vars
    BY <2>6 DEF vars, AloneInv, Contained, Made, Open, HalfSplit, Active
  <2> QED BY <2>1, <2>2, <2>3, <2>4, <2>5, <2>6 DEF Next
<1>3. FilesInv /\ Contained(w) /\ HalfSplit(w) <=> AloneInv(w)
  BY DEF AloneInv
<1> QED BY <1>1, <1>2, <1>3, FilesInvariant, PTL DEF Spec

LEMMA FailureAlone ==
  ASSUME Directory, NEW w \in Procs, Procs = {w}, AloneInv(w), [Next]_vars,
         proc'[w] # proc[w]
  PROVE  FailureIsContained(w)
<1>1. Typed /\ Underway(w) /\ Contained(w)
  BY DEF AloneInv, FilesInv
<1>2. ASSUME NEW c \in Commands, Start(w, c) PROVE FailureIsContained(w)
  BY <1>1, <1>2, StartKeepsType DEF FailureIsContained
<1>3. ASSUME Active(w), SameErrand(w), proc'[w].written = proc[w].written,
             \A f \in Files : content'[f] = content[f] \/ Open(f, w)
      PROVE  FailureIsContained(w)
  <2>1. ASSUME NEW f \in Files, ~Open(f, w)
        PROVE  content'[f] = proc'[w].before[f] \/ HoldsOutput(f, proc'[w].written)
    BY <1>1, <1>3, <2>1 DEF Contained, Made, HoldsOutput, SameErrand
  <2> QED BY <2>1 DEF FailureIsContained, Open
<1>4. CASE OpenOutput(w)
  <2>1. CASE proc'[w].doing = "ended"
    <3>1. SameErrand(w) /\ proc'[w].written = proc[w].written /\ content' = content
      BY <1>1, <1>4, <2>1, OpenKeepsType
    <3> QED BY <1>3, <1>4, <3>1 DEF OpenOutput, Active
  <2>2. CASE proc'[w].doing = "writing"
    BY <2>2 DEF FailureIsContained
  <2> QED BY <1>1, <1>4, <2>1, <2>2, OpenKeepsType
<1>5. CASE FillOutput(w)
  <2>1. proc[w].code = SUCCESS
    BY <1>1, <1>5 DEF FillOutput, Underway, Active
  <2> QED BY <1>1, <1>5, <2>1, FillKeepsType DEF FailureIsContained
<1>6. CASE WriteRaises(w)
  <2>1. /\ Active(w) /\ SameErrand(w) /\ proc'[w].written = proc[w].written
        /\ \/ content' = content
           \/ /\ proc[w].doing = "writing"
              /\ \E left : content' =
                   [content EXCEPT ![FileOf[Head(proc[w].todo).path]] = left]
    BY <1>1, <1>6, RaiseKeepsType
  <2>2. \A f \in Files : content'[f] = content[f] \/ Open(f, w)
    BY <1>1, <2>1 DEF Typed, Open
  <2> QED BY <1>3, <2>1, <2>2
<1>7. CASE Stop(w)
  <2>1. /\ Active(w) /\ SameErrand(w) /\ proc'[w].written = proc[w].written
        /\ \/ content' = content
           \/ /\ proc[w].doing = "writing"
              /\ \E left : content' =
                   [content EXCEPT ![FileOf[Head(proc[w].todo).path]] = left]
    BY <1>1, <1>7, StopKeepsType
  <2>2. \A f \in Files : content'[f] = content[f] \/ Open(f, w)
    BY <1>1, <2>1 DEF Typed, Open
  <2> QED BY <1>3, <2>1, <2>2
<1>8. ~Edit /\ ~UNCHANGED vars
  BY DEF Edit, vars
<1> QED BY <1>2, <1>4, <1>5, <1>6, <1>7, <1>8 DEF Next

(* A command never touches the file it reads, under whatever name, and one *)
(* that is killed or ends with an error, a write that raises included, has *)
(* changed only files that hold an output of it whole, and the one it was  *)
(* writing: for any files, links and commands on them, any edits and stops.*)
THEOREM OutputsOnly ==
  ASSUME Directory, NEW w, Procs = {w}
  PROVE  Spec => OnlyOutputsChange
<1>1. FilesInv /\ AloneInv(w) /\ [Next]_vars =>
        [\A p \in Procs :
           proc'[p] # proc[p] => InputIsKept(p) /\ FailureIsContained(p)]_vars
  BY StepKeepsInput, FailureAlone
<1> QED BY <1>1, FilesInvariant, AloneInvariant, PTL DEF Spec, OnlyOutputsChange

(* When the second part of a split is in its file, both files hold what    *)
(* they should.                                                            *)
LEMMA SplitAlone ==
  ASSUME Directory, NEW w \in Procs, AloneInv(w), [Next]_vars, Succeeded(w),
         Procs = {w}, proc[w].command.verb = "split",
         OutputsApart(proc[w].command)
  PROVE  LET c == proc[w].command
             at(i) == content'[FileOf[c.outputs[i]]].cases
         IN  /\ at(1) # {} /\ at(2) # {} /\ at(1) \cap at(2) = {}
             /\ at(1) \cup at(2) = content[FileOf[c.input]].cases
<1> DEFINE c == proc[w].command
           dataset == content[FileOf[c.input]]
           part == TrainPart(dataset.cases, c.percent)
           writes == SplitWrites(c, dataset)
           first == FileOf[c.outputs[1]]
           second == FileOf[c.outputs[2]]
           todo == proc[w].todo
<1>1. Typed /\ Underway(w) /\ HalfSplit(w) /\ Active(w)
  BY DEF AloneInv, FilesInv, Succeeded, Active
<1>2. FillOutput(w)
  <2>1. \A d \in Commands : ~Start(w, d)
    BY DEF Start, Resting, Succeeded
  <2>2. ~OpenOutput(w) /\ ~Edit /\ ~UNCHANGED vars
    BY DEF OpenOutput, Edit, Resting, Succeeded, vars
  <2>3. ~Stop(w) /\ ~WriteRaises(w)
    <3>1. INTERNAL_ERROR # SUCCESS
      BY DEF INTERNAL_ERROR, SUCCESS
    <3> QED BY <1>1, <3>1, StopKeepsType, RaiseKeepsType DEF Succeeded
  <2> QED BY <2>1, <2>2, <2>3 DEF Next
<1>3. /\ content' = [content EXCEPT ![FileOf[Head(todo).path]] = Head(todo).content]
      /\ Tail(todo) = << >>
  BY <1>1, <1>2, FillKeepsType DEF Succeeded
<1>4. /\ Tail(writes) # << >>
      /\ Head(Tail(writes)).path = c.outputs[2]
      /\ Head(Tail(writes)).content = Evaluation(dataset, c.percent)
  <2> HIDE DEF c, dataset
  <2> QED BY TwoWrites
<1>5. c \in Commands
  BY <1>1 DEF Underway
<1>6. /\ Cardinality(dataset.cases) >= 2
      /\ todo = Tail(writes) /\ content[first].cases = part
  BY <1>1, <1>3, <1>4 DEF HalfSplit
<1>7. /\ first \in Files /\ second \in Files /\ first # second
      /\ dataset \in Contents /\ c.percent \in Int
  BY <1>1, <1>5, SplitOutputs DEF Directory, CommandLine, Typed, Files
<1>8. /\ Evaluation(dataset, c.percent).cases = dataset.cases \ part
      /\ part \subseteq dataset.cases
  BY <1>7, SidesAreContents
<1>9. dataset.cases \in SUBSET Cases /\ IsFiniteSet(dataset.cases)
  BY <1>7 DEF Contents
<1>10. part # {} /\ dataset.cases \ part # {}
  BY <1>6, <1>7, <1>9, BothSidesHaveCases
<1> HIDE DEF writes, part, dataset, first, second, todo, c
<1>11. content'[first].cases = part
  BY <1>1, <1>3, <1>4, <1>6, <1>7 DEF Typed, second
<1>12. content'[second].cases = dataset.cases \ part
  BY <1>1, <1>3, <1>4, <1>6, <1>7, <1>8 DEF Typed, second
<1> QED BY <1>8, <1>10, <1>11, <1>12 DEF first, second, dataset, c

(* A split that succeeds leaves two datasets that both have cases, share   *)
(* none and together have those of its input: for datasets of any size,    *)
(* any hashes of their cases that differ and any percentage, whatever      *)
(* splits that stopped half way left in the files.                         *)
THEOREM SplitsPartition ==
  ASSUME Directory, NEW w, Procs = {w}
  PROVE  Spec => SplitPartitions
<1>1. FilesInv /\ AloneInv(w) /\ [Next]_vars =>
        [\A p \in Procs :
           LET c == proc[p].command
               at(i) == content'[FileOf[c.outputs[i]]].cases
           IN  Succeeded(p) /\ c.verb = "split" /\ OutputsApart(c) =>
                 /\ at(1) # {} /\ at(2) # {} /\ at(1) \cap at(2) = {}
                 /\ at(1) \cup at(2) = content[FileOf[c.input]].cases]_vars
  BY SplitAlone
<1> QED BY <1>1, FilesInvariant, AloneInvariant, PTL DEF Spec, SplitPartitions
-----------------------------------------------------------------------------
(* Splitting a dataset that grew.  *)

(* Rounding is off by a half at most: less than one more moves it by one.   *)
LEMMA RoundedIsNear ==
  ASSUME NEW m \in Int
  PROVE  /\ Rounded(m) \in Int
         /\ 100 * Rounded(m) <= m + 50 /\ m <= 100 * Rounded(m) + 50
BY DEF Rounded

LEMMA TrainCountGrows ==
  ASSUME NEW n \in Nat, n >= 2, NEW percent \in 1 .. 99
  PROVE  TrainCount(n + 1, percent)
           \in {TrainCount(n, percent), TrainCount(n, percent) + 1}
<1> DEFINE m == n * percent
           old == Rounded(m)
           new == Rounded(m + percent)
<1>1. m \in Int /\ (n + 1) * percent = m + percent
  OBVIOUS
<1> HIDE DEF m
<1>2. /\ old \in Int /\ 100 * old <= m + 50 /\ m <= 100 * old + 50
      /\ new \in Int /\ 100 * new <= m + percent + 50
      /\ m + percent <= 100 * new + 50
  BY <1>1, RoundedIsNear
<1>3. old <= new
  <2>1. m \div 100 \in Int /\ (m + percent) \div 100 \in Int
    BY <1>1
  <2> QED BY <1>1, <2>1 DEF Rounded
<1> HIDE DEF old, new
<1>4. new \in {old, old + 1}
  BY <1>1, <1>2, <1>3
<1>5. TrainCount(n, percent) =
        IF (IF old > n - 1 THEN n - 1 ELSE old) < 1 THEN 1
        ELSE IF old > n - 1 THEN n - 1 ELSE old
  BY DEF TrainCount, old, m
<1>6. TrainCount(n + 1, percent) =
        IF (IF new > n + 1 - 1 THEN n + 1 - 1 ELSE new) < 1 THEN 1
        ELSE IF new > n + 1 - 1 THEN n + 1 - 1 ELSE new
  BY <1>1 DEF TrainCount, new
<1> QED BY <1>2, <1>4, <1>5, <1>6

(* A case that is added comes before another one or does not.              *)
LEMMA OneMoreBefore ==
  ASSUME NEW cases, NEW more, IsFiniteSet(more),
         NEW x, x \in more, x \notin cases, more = cases \cup {x},
         NEW c \in cases
  PROVE  LET place == Cardinality(Before(c, cases))
         IN  /\ place \in Nat
             /\ Cardinality(Before(c, more)) \in {place, place + 1}
<1>1. IsFiniteSet(Before(c, cases)) /\ IsFiniteSet(Before(c, more))
  <2>1. Before(c, cases) \subseteq more /\ Before(c, more) \subseteq more
    BY DEF Before
  <2> QED BY <2>1, FS_Subset
<1>2. Cardinality(Before(c, cases)) \in Nat
  BY <1>1, FS_CardinalityType
<1>3. CASE Rank[x] < Rank[c]
  <2>1. /\ Before(c, more) = Before(c, cases) \cup {x}
        /\ x \notin Before(c, cases)
    BY <1>3 DEF Before
  <2>2. Cardinality(Before(c, more)) = Cardinality(Before(c, cases)) + 1
    BY <1>1, <2>1, FS_AddElement
  <2> QED BY <1>2, <2>2
<1>4. CASE ~(Rank[x] < Rank[c])
  <2>1. Before(c, more) = Before(c, cases)
    BY <1>4 DEF Before
  <2> QED BY <1>2, <2>1
<1> QED BY <1>3, <1>4

(* The share of training changes by nothing or one, and so does the place  *)
(* of a case: who changes sides is at one place, and there is only one     *)
(* case at a place.                                                        *)
LEMMA OneChangesSides ==
  ASSUME Directory, NEW cases \in SUBSET Cases, NEW more \in SUBSET Cases,
         IsFiniteSet(cases), IsFiniteSet(more), Cardinality(cases) >= 2,
         cases \subseteq more, Cardinality(more \ cases) = 1,
         NEW percent \in 1 .. 99
  PROVE  Cardinality(ChangeSides(cases, more, percent)) <= 1
<1> DEFINE n == Cardinality(cases)
           count == TrainCount(n, percent)
           next == TrainCount(n + 1, percent)
           place(c) == Cardinality(Before(c, cases))
           later(c) == Cardinality(Before(c, more))
           turn == IF next = count THEN count - 1 ELSE count
           moved == ChangeSides(cases, more, percent)
<1>1. PICK x : more \ cases = {x}
  <2>1. IsFiniteSet(more \ cases)
    BY FS_Difference
  <2> QED BY <2>1, FS_Singleton
<1>2. x \in more /\ x \notin cases /\ more = cases \cup {x}
  BY <1>1
<1>3. n \in Nat /\ Cardinality(more) = n + 1
  BY <1>2, FS_CardinalityType, FS_AddElement
<1>4. count \in Nat /\ next \in {count, count + 1}
  <2>1. n >= 2 /\ percent \in Int
    OBVIOUS
  <2> HIDE DEF n
  <2>2. count \in 1 .. n - 1
    BY <1>3, <2>1, TrainCountLeavesBoth
  <2>3. next \in {count, count + 1}
    BY <1>3, <2>1, TrainCountGrows
  <2> QED BY <1>3, <2>2, <2>3
<1>5. \A c \in cases : place(c) \in Nat /\ later(c) \in {place(c), place(c) + 1}
  BY <1>2, OneMoreBefore
<1>6. \A c \in moved :
        c \in cases /\ ~(place(c) < count <=> later(c) < next)
  BY <1>2, <1>3, TrainPartIs DEF ChangeSides
<1>7. \A c \in moved : c \in cases /\ place(c) = turn
  <2> HIDE DEF place, later, count, next, moved
  <2> QED BY <1>4, <1>5, <1>6
<1>8. \A c, d \in moved : c = d
  <2> SUFFICES ASSUME NEW c \in moved, NEW d \in moved, c # d PROVE FALSE
    OBVIOUS
  <2>1. c \in cases /\ d \in cases /\ place(c) = place(d) /\ place(c) \in Nat
    BY <1>5, <1>7
  <2>2. Rank[c] # Rank[d] /\ Rank[c] \in Int /\ Rank[d] \in Int
    BY <2>1 DEF Directory
  <2>3. CASE Rank[c] < Rank[d]
    <3>1. place(c) < place(d)
      BY <2>1, <2>3, BeforeGrows
    <3> HIDE DEF place
    <3> QED BY <2>1, <3>1
  <2>4. CASE Rank[d] < Rank[c]
    <3>1. place(d) < place(c)
      BY <2>1, <2>4, BeforeGrows
    <3> HIDE DEF place
    <3> QED BY <2>1, <3>1
  <2> QED BY <2>2, <2>3, <2>4
<1>9. CASE moved = {}
  BY <1>9, FS_EmptySet
<1>10. CASE moved # {}
  <2>1. PICK c : c \in moved
    BY <1>10
  <2>2. moved = {c}
    BY <1>8, <2>1
  <2>3. Cardinality(moved) = 1
    BY <2>2, FS_Singleton
  <2> QED BY <2>3
<1> QED BY <1>9, <1>10

(* Whatever processes do to files and whatever stops: when a dataset grows *)
(* by a case, at most one of the others is on the other side of the same   *)
(* split.                                                                  *)
THEOREM ResplitsKeepSides == Directory => (Spec => ResplitMovesOne)
<1> SUFFICES ASSUME Directory PROVE Spec => ResplitMovesOne
  OBVIOUS
<1>1. FilesInv /\ FilesInv' =>
        [\A f \in Files :
           LET cases == content[f].cases
               more == content'[f].cases
           IN  /\ Cardinality(cases) >= 2
               /\ cases \subseteq more /\ Cardinality(more \ cases) = 1
               => \A percent \in {c.percent : c \in Commands} \cap 1 .. 99 :
                    Cardinality(ChangeSides(cases, more, percent)) <= 1]_vars
  <2> SUFFICES ASSUME FilesInv, FilesInv', NEW f \in Files,
                      NEW percent \in 1 .. 99,
                      Cardinality(content[f].cases) >= 2,
                      content[f].cases \subseteq content'[f].cases,
                      Cardinality(content'[f].cases \ content[f].cases) = 1
               PROVE  Cardinality(ChangeSides(content[f].cases,
                                              content'[f].cases, percent)) <= 1
    OBVIOUS
  <2>1. content[f] \in Contents /\ content'[f] \in Contents
    BY DEF FilesInv, Typed
  <2>2. /\ content[f].cases \in SUBSET Cases /\ IsFiniteSet(content[f].cases)
        /\ content'[f].cases \in SUBSET Cases /\ IsFiniteSet(content'[f].cases)
    BY <2>1 DEF Contents
  <2> QED BY <2>2, OneChangesSides
<1> QED BY <1>1, FilesInvariant, PTL DEF Spec, ResplitMovesOne
=============================================================================
