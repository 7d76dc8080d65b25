------------------------------ MODULE Outcomes ------------------------------
(***************************************************************************)
(* Human and business outcomes (outcomes.py): two files of labels, of a    *)
(* baseline and a candidate, that people extend and correct record by      *)
(* record, their summaries and the comparison of the two.                  *)
(***************************************************************************)
EXTENDS Integers, Sequences, FiniteSets, SequencesExt, Sums

CONSTANTS
  Records,    \* the records people write
  MaxRecords  \* bound: side -> the records of its file

NoCost == -1
Labels == {"accepted", "corrected", "escalated", "customer_reopened",
           "human_override", "unsafe"}
HumanOutcomeRecord ==
  [label : Labels, success : {"yes", "no", "unknown"},
   cost : Nat \cup {NoCost}]
Sides == {"baseline", "candidate"}

VARIABLE files   \* side -> its records

-----------------------------------------------------------------------------
Missing == [num |-> 0, den |-> 0]
Known(v) == v.den > 0

(* round(count / denominator, 4), in units of the last digit; no quotient  *)
(* with a denominator below 32 lies half way between two of them.          *)
Rate(count, denominator) ==
  IF denominator = 0 THEN Missing
  ELSE [num |-> (20000 * count + denominator) \div (2 * denominator),
        den |-> 10000]

Count(records, Test(_)) ==
  Cardinality({i \in DOMAIN records : Test(records[i])})
Labelled(records, label) == Count(records, LAMBDA r : r.label = label)
Successes(records) == Count(records, LAMBDA r : r.success = "yes")
KnownBusiness(records) == Count(records, LAMBDA r : r.success # "unknown")

SumOfCosts(records) ==
  RunningSum([i \in DOMAIN records |->
                IF records[i].cost = NoCost THEN 0 ELSE records[i].cost],
             Len(records))

(* What all records cost for each success, unless a cost is missing.        *)
(* Mutant: unknown costs are left out.                                      *)
CostOfKnown(records) ==
  IF Successes(records) = 0 THEN Missing
  ELSE [num |-> SumOfCosts(records), den |-> Successes(records)]
CostPerSuccess(records) ==
  IF Successes(records) = 0 \/ \E i \in DOMAIN records : records[i].cost = NoCost
  THEN Missing
  ELSE [num |-> SumOfCosts(records), den |-> Successes(records)]

BusinessRate(records) == Rate(Successes(records), KnownBusiness(records))

RateLabels ==
  {"accepted", "corrected", "escalated", "customer_reopened", "human_override"}
OutcomeSummary(records) ==
  [rates |-> [label \in RateLabels |->
                Rate(Labelled(records, label), Len(records))],
   business |-> BusinessRate(records),
   cost |-> CostPerSuccess(records)]

(* compare_outcomes: candidate minus baseline.                             *)
Difference(candidate, baseline) ==
  IF ~Known(candidate) \/ ~Known(baseline) THEN Missing
  ELSE IF candidate.den = baseline.den
  THEN [num |-> candidate.num - baseline.num, den |-> baseline.den]
  ELSE [num |-> candidate.num * baseline.den - baseline.num * candidate.den,
        den |-> candidate.den * baseline.den]

OutcomeComparison(baseline, candidate) ==
  LET old == OutcomeSummary(baseline)
      new == OutcomeSummary(candidate)
  IN  [accepted |-> Difference(new.rates["accepted"], old.rates["accepted"]),
       business |-> Difference(new.business, old.business),
       cost |-> Difference(new.cost, old.cost)]

-----------------------------------------------------------------------------
Init == files = [side \in Sides |-> << >>]

Label(side, r) ==
  /\ Len(files[side]) < MaxRecords[side]
  /\ files' = [files EXCEPT ![side] = Append(@, r)]

(* A label, or a cost, turns out not to be known.                          *)
Withheld(r) ==
  {[r EXCEPT !.success = "unknown"], [r EXCEPT !.cost = NoCost]} \ {r}
Withhold(side, i) ==
  \E r \in Withheld(files[side][i]) :
    files' = [files EXCEPT ![side] = [@ EXCEPT ![i] = r]]

Next ==
  \E side \in Sides :
    \/ \E r \in Records : Label(side, r)
    \/ \E i \in DOMAIN files[side] : Withhold(side, i)

Spec == Init /\ [][Next]_files

-----------------------------------------------------------------------------
AtMost(v, w) == Known(v) /\ Known(w) => v.num * w.den <= w.num * v.den
Appears(v, w) == ~Known(v) /\ Known(w)

Compared == OutcomeComparison(files["baseline"], files["candidate"])
Added(side) ==
  /\ Len(files'[side]) > Len(files[side])
  /\ Last(files'[side]).success = "no" /\ Last(files'[side]).label # "accepted"

(* One more failure on a side, whatever it cost, never makes that side     *)
(* look better: its acceptance and business rates do not rise and its cost *)
(* per success does not fall against the other side.                       *)
FailureNeverHelps ==
  LET now == Compared
      next == OutcomeComparison(files'["baseline"], files'["candidate"])
  IN  /\ Added("candidate") =>
           /\ AtMost(next.accepted, now.accepted)
           /\ AtMost(next.business, now.business)
           /\ AtMost(now.cost, next.cost) /\ ~Appears(now.cost, next.cost)
      /\ Added("baseline") =>
           /\ AtMost(now.accepted, next.accepted)
           /\ AtMost(now.business, next.business)
           /\ AtMost(next.cost, now.cost)
           /\ ~Appears(now.cost, next.cost)

(* What is no longer known never makes a success cheaper, nor an answer    *)
(* accepted.  (It can raise the business rate.)                            *)
WithheldNeverCheapens ==
  \A side \in Sides :
    files'[side] # files[side] /\ Len(files'[side]) = Len(files[side]) =>
      LET now == OutcomeSummary(files[side])
          then == OutcomeSummary(files'[side])
      IN  /\ AtMost(now.cost, then.cost) /\ ~Appears(now.cost, then.cost)
          /\ then.rates = now.rates

(* A file that is imported twice into one says what it said: records are   *)
(* not identified, and no rate depends on how many there are.              *)
RepeatedSaysTheSame ==
  \A side \in Sides :
    files'[side] # files[side] =>
      LET once == OutcomeSummary(files'[side])
          twice == OutcomeSummary(files'[side] \o files'[side])
      IN  /\ twice.rates = once.rates /\ twice.business = once.business
          /\ AtMost(once.cost, twice.cost) /\ AtMost(twice.cost, once.cost)

OutcomesNeverFlatter ==
  [][FailureNeverHelps /\ WithheldNeverCheapens /\ RepeatedSaysTheSame]_files
=============================================================================
