------------------------------ MODULE Evidence ------------------------------
(***************************************************************************)
(* What is done with evidence that others have written: the three report   *)
(* commands (Reports), the rows of a growing result file that an exit      *)
(* report compares (ExitSelection), the labels people give to answers      *)
(* (Outcomes), and the traces of workflows (Workflow).  These share no     *)
(* variable: a behaviour is about one kind of evidence, the others rest.   *)
(***************************************************************************)
EXTENDS Reports

CONSTANTS
  Names, Lower, Rows, References, MaxRows,       \* as in ExitSelection
  Records, MaxRecords,                           \* as in Outcomes
  Steps, Expectations, StepLimit, MaxSteps, MaxDelivered  \* as in Workflow

VARIABLES
  subject,                        \* "reports", "rows", "labels" or "traces"
  file, asked, report,            \* the state of ExitSelection,
  files,                          \* of Outcomes,
  expected, recorded, delivered   \* and of Workflow

Selection == INSTANCE ExitSelection
Labels == INSTANCE Outcomes
Traces == INSTANCE Workflow

ASSUME RowsAssumption ==
  /\ Selection!Unknown \in Names /\ Lower \in [Names -> Names]
  /\ References \subseteq Selection!Texts
  /\ \A r \in Rows :
       /\ {r.provider, r.model, r.label}
            \subseteq Selection!Texts \cup {Selection!Empty}
       /\ {r.keyed, r.failed} \subseteq BOOLEAN
       /\ r.provider # Selection!Empty
          /\ (r.model # Selection!Empty \/ r.label # Selection!Empty) => r.keyed
ASSUME RecordsAssumption ==
  /\ Records \subseteq Labels!HumanOutcomeRecord
  /\ MaxRecords \in [Labels!Sides -> Nat]
ASSUME StepsAssumption ==
  /\ Steps \subseteq Traces!WorkflowStep
  /\ Expectations \subseteq Seq(STRING)
  /\ {StepLimit, MaxSteps, MaxDelivered, MaxRows} \subseteq Nat

rowVars == <<file, asked, report>>
traceVars == <<expected, recorded, delivered>>

-----------------------------------------------------------------------------
(* What a part is that nobody works on. *)
NoReports ==
  /\ command = "none" /\ profile = "none" /\ chained = FALSE
  /\ destination = << >> /\ input = << >> /\ stage = "ended"
  /\ verdict = << >> /\ pending = {} /\ disk = << >> /\ audit = << >>
  /\ exit = -1
NoRows == file = << >> /\ asked = << >> /\ report = << >>
NoLabels == Labels!Init
NoTraces == expected = << >> /\ recorded = << >> /\ delivered = << >>

EvidenceInit ==
  \/ subject = "reports" /\ ReportsInit /\ NoRows /\ NoLabels /\ NoTraces
  \/ subject = "rows" /\ Selection!Init /\ NoReports /\ NoLabels /\ NoTraces
  \/ subject = "labels" /\ Labels!Init /\ NoReports /\ NoRows /\ NoTraces
  \/ subject = "traces" /\ Traces!Init /\ NoReports /\ NoRows /\ NoLabels

(* People may write no more; a report command always ends. *)
NoMoreEvidence ==
  /\ subject # "reports"
  /\ UNCHANGED <<subject, vars, rowVars, files, traceVars>>

EvidenceNext ==
  \/ /\ subject = "reports" /\ Next
     /\ UNCHANGED <<subject, rowVars, files, traceVars>>
  \/ /\ subject = "rows" /\ Selection!Next
     /\ UNCHANGED <<subject, vars, files, traceVars>>
  \/ /\ subject = "labels" /\ Labels!Next
     /\ UNCHANGED <<subject, vars, rowVars, traceVars>>
  \/ /\ subject = "traces" /\ Traces!Next
     /\ UNCHANGED <<subject, vars, rowVars, files>>
  \/ NoMoreEvidence

EvidenceSpec ==
  EvidenceInit
  /\ [][EvidenceNext]_<<subject, vars, rowVars, files, traceVars>>

-----------------------------------------------------------------------------
(* No row of a result file is lost on its way into a summary, and none      *)
(* counts twice.                                                            *)
EveryRowCountsOnce == subject = "rows" => Selection!EveryRowCountsOnce

(* Reports on a file that grew are about the same two models.               *)
ReportsAreAboutTheSame == Selection!ReportsAreAboutTheSame

(* Neither a failure more nor a label less makes a side look better.        *)
OutcomesNeverFlatter == Labels!OutcomesNeverFlatter

(* The evaluation of a workflow says what a monitor of it would say.        *)
ImplementsMonitor == Traces!ImplementsMonitor

(* Nothing that a workflow did is taken back by what it does later, and its *)
(* tool scores agree.                                                       *)
WorkflowsAreJudgedFairly == Traces!WorkflowsAreJudgedFairly

(* A trace that is accepted shows nothing that the workflow did not do.     *)
AcceptedIsAPart == subject = "traces" => Traces!AcceptedIsAPart
=============================================================================
