---------------------------- MODULE ExitSelection ----------------------------
(***************************************************************************)
(* Which rows of a JSON Lines file `exit-report` compares: _load_jsonl     *)
(* puts them into buckets, one for each provider, model and label, and     *)
(* select_summary takes the first bucket that answers to the name given    *)
(* on the command line (reports/exit_report.py).  The file grows between   *)
(* two reports, and different runs can name one model in different ways.   *)
(* How the numbers of a bucket are added up and decided on is ExitReport.  *)
(***************************************************************************)
EXTENDS Integers, SequencesExt, Sums

CONSTANTS
  Names,      \* the texts a row or an option can hold
  Lower,      \* what str.lower makes of a name
  Rows,       \* the rows that can be written: provider, model and label,
              \* whether the keys for them are there, and whether it failed
  References, \* what --baseline and --candidate can be
  MaxRows     \* bound: rows of the file

Roles == {"baseline", "candidate"}

(* A text is a name, or two with a colon between them: <<a>> or <<a, b>>.   *)
Texts == {<<a>> : a \in Names} \cup {<<a, b>> : a, b \in Names}

(* A field of a row that is not there, or holds null or nothing.            *)
Empty == << >>
Unknown == "unknown"

VARIABLES
  file,     \* the rows of the input
  asked,    \* --baseline and --candidate
  report    \* what the last report compared, or NoReport, or Refused

vars == <<file, asked, report>>

NoReport == << >>
Refused == <<"refused">>

-----------------------------------------------------------------------------
(* ModelIdentity, with its display name.  A row without a model is named by *)
(* its label.                                                               *)
Identity(row) ==
  LET model == IF row.model # Empty THEN row.model
               ELSE IF row.label # Empty THEN row.label ELSE <<Unknown>>
      identifier == (IF row.provider = Empty THEN <<Unknown>> ELSE row.provider)
                    \o model
  IN  [identifier |-> identifier, model |-> model,
       label |-> IF row.label = Empty THEN identifier ELSE row.label]

LowerText(text) == [i \in DOMAIN text |-> Lower[text[i]]]

(* ModelIdentity.matches *)
Matches(identity, reference) ==
  LowerText(reference) \in {LowerText(identity[f]) : f \in DOMAIN identity}

(* The key of a bucket: provider:model:label in one text. *)
Key(row) == Identity(row).identifier \o Identity(row).label

(* A bucket is called by its first row, whose identity it has.              *)
Bucket(rows, i) == {j \in DOMAIN rows : Key(rows[j]) = Key(rows[i])}
Buckets(rows) ==
  {i \in DOMAIN rows : \A j \in 1 .. i - 1 : Key(rows[j]) # Key(rows[i])}

(* Mutant: a failed row is a failure and no sample. *)
SummaryOfPassed(rows, i) ==
  [model |-> Identity(rows[i]),
   samples |-> Cardinality({j \in Bucket(rows, i) : ~rows[j].failed}),
   failures |-> Cardinality({j \in Bucket(rows, i) : rows[j].failed})]

Summary(rows, i) ==
  [model |-> Identity(rows[i]),
   samples |-> Cardinality(Bucket(rows, i)),
   failures |-> Cardinality({j \in Bucket(rows, i) : rows[j].failed})]

Matching(rows, reference) ==
  {i \in Buckets(rows) : Matches(Identity(rows[i]), reference)}

(* Mutant: the last bucket that matches. *)
SelectLast(rows, reference) == Summary(rows, Max(Matching(rows, reference)))

(* select_summary *)
Select(rows, reference) == Summary(rows, Min(Matching(rows, reference)))

-----------------------------------------------------------------------------
Init ==
  /\ file = << >>
  /\ asked \in [Roles -> References]
  /\ report = NoReport

(* A benchmark appends a result to the file. *)
AppendRow ==
  /\ Len(file) < MaxRows
  /\ \E row \in Rows : file' = Append(file, row)
  /\ UNCHANGED <<asked, report>>

Selectable ==
  /\ \A i \in DOMAIN file : file[i].keyed
  /\ \A m \in Roles : Matching(file, asked[m]) # {}

BuildReport ==
  /\ Selectable
  /\ report' = [m \in Roles |-> Select(file, asked[m])]
  /\ UNCHANGED <<file, asked>>

RefuseReport ==
  /\ ~Selectable
  /\ report' = Refused
  /\ UNCHANGED <<file, asked>>

Next == AppendRow \/ BuildReport \/ RefuseReport

Spec == Init /\ [][Next]_vars

-----------------------------------------------------------------------------
Reported == report \notin {NoReport, Refused}

(* No row is lost and none counts twice on the way into the summaries,      *)
(* whatever its provider, model and label are and wherever it is.           *)
EveryRowCountsOnce ==
  LET samples == [i \in DOMAIN file |->
                    IF i \in Buckets(file) THEN Summary(file, i).samples ELSE 0]
      failures == [i \in DOMAIN file |->
                     IF i \in Buckets(file) THEN Summary(file, i).failures ELSE 0]
  IN  /\ RunningSum(samples, Len(file)) = Len(file)
      /\ RunningSum(failures, Len(file))
           = Cardinality({i \in DOMAIN file : file[i].failed})

(* A file only grows: a later report with the same options is about the     *)
(* same two models, on no less evidence.                                    *)
ReportsAreAboutTheSame ==
  [][Reported /\ report' \notin {NoReport, Refused} =>
       \A m \in Roles :
         /\ report'[m].model = report[m].model
         /\ report'[m].samples >= report[m].samples
         /\ report'[m].failures >= report[m].failures]_vars
=============================================================================
