------------------------------ MODULE Commands ------------------------------
(***************************************************************************)
(* The commands by which a user works on files of his own: suites and runs *)
(* (RunCommand), datasets and what is derived from evidence (DatasetFiles),*)
(* price lists (PriceList), and, within a run, the grading of one answer   *)
(* (Evaluation).  These share no file and no variable, so a behaviour is   *)
(* work of one of the four kinds, and the others rest.                     *)
(***************************************************************************)
EXTENDS RunCommand

CONSTANTS
  Paths, Resolved, FileOf, Suffix,               \* as in DatasetFiles
  FileCommands, FileWriters, CaseIds, Rank, PhoneLike, OriginalFiles, MaxSteps,
  Keys, Measured, Prices,                        \* as in PriceList
  PriceWriters, OriginalPrices, MaxPriceCommands,
  Fields, BenchmarkCases, ModelAnswers, Rubrics  \* as in Evaluation

VARIABLES
  work,                              \* "runs", "files", "prices" or "grading"
  content, writer, steps,            \* the state of DatasetFiles,
  priceFile, pricer, told, priced,   \* of PriceList,
  case, answer, specs, context, evaluations, result   \* and of Evaluation

Datasets == INSTANCE DatasetFiles WITH
  Procs <- FileWriters, Commands <- FileCommands, Cases <- CaseIds,
  Original <- OriginalFiles, proc <- writer

PriceLists == INSTANCE PriceList WITH
  Procs <- PriceWriters, Original <- OriginalPrices,
  MaxCommands <- MaxPriceCommands,
  file <- priceFile, proc <- pricer, commands <- priced

Grading == INSTANCE Evaluation

ASSUME FilesAssumption == Datasets!Directory /\ MaxSteps \in Nat
ASSUME PricesAssumption ==
  /\ OriginalPrices \in Seq([key : Keys, price : Int, measured : BOOLEAN])
  /\ \A i \in DOMAIN OriginalPrices :
       OriginalPrices[i].measured =>
         OriginalPrices[i].price = Measured[OriginalPrices[i].key]
  /\ MaxPriceCommands \in Nat
ASSUME GradesAssumption ==
  /\ IsFiniteSet(Fields)
  /\ \A c \in BenchmarkCases : Grading!IsCase(c)
  /\ \A rubric \in Rubrics :
       IsList(rubric) /\ \A i \in DOMAIN rubric : Grading!IsSpec(rubric[i])

fileVars == <<content, writer, steps>>
priceVars == <<priceFile, pricer, told, priced>>
gradeVars == <<case, answer, specs, context, evaluations, result>>

-----------------------------------------------------------------------------
(* What a part is that nobody works on. *)
NoRuns == Init /\ suiteFile = CHOOSE s \in Suites : TRUE
NoFiles == Datasets!Init
NoPrices == PriceLists!Init
NoGrading ==
  /\ case = << >> /\ answer = << >> /\ specs = << >> /\ evaluations = << >>
  /\ context = Grading!Fresh /\ result = Grading!Unfinished

CommandsInit ==
  \/ work = "runs" /\ Init /\ NoFiles /\ NoPrices /\ NoGrading
  \/ work = "files" /\ Datasets!Init /\ NoRuns /\ NoPrices /\ NoGrading
  \/ work = "prices" /\ PriceLists!Init /\ NoRuns /\ NoFiles /\ NoGrading
  \/ work = "grading" /\ Grading!Init /\ NoRuns /\ NoFiles /\ NoPrices

CommandsNext ==
  \/ /\ work = "runs" /\ Next
     /\ UNCHANGED <<work, fileVars, priceVars, gradeVars>>
  \/ /\ work = "files" /\ Datasets!Next
     /\ UNCHANGED <<work, vars, priceVars, gradeVars>>
  \/ /\ work = "prices" /\ PriceLists!Next
     /\ UNCHANGED <<work, vars, fileVars, gradeVars>>
  \/ /\ work = "grading" /\ Grading!Next
     /\ UNCHANGED <<work, vars, fileVars, priceVars>>

CommandsSpec ==
  CommandsInit
  /\ [][CommandsNext]_<<work, vars, fileVars, priceVars, gradeVars>>

-----------------------------------------------------------------------------
(* Whatever a user does to datasets, a split that succeeds partitions them. *)
SplitPartitions == Datasets!SplitPartitions

(* A dataset that grows by a case keeps its split but for one case.         *)
ResplitMovesOne == Datasets!ResplitMovesOne

(* A command keeps the file it reads; one that fails or is killed has       *)
(* changed only outputs that are whole and the one it was writing.          *)
OnlyOutputsChange == Datasets!OnlyOutputsChange

(* A price that was set is found, and a list gets no duplicates, whichever  *)
(* processes set prices at the same time and wherever they stop.            *)
SetIsKept == work = "prices" => PriceLists!SetIsKept

(* What an evaluator says does not depend on those that ran before it, and  *)
(* the score of a case agrees with its verdict.                             *)
GradingIsSound ==
  work = "grading" =>
    Grading!OrderIsNotFragile /\ Grading!ScoresFollowVerdicts
=============================================================================
