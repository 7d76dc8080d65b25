------------------------------ MODULE Reports ------------------------------
(* A process that runs one of the three commands that read evidence and     *)
(* decide about it.                                                         *)
EXTENDS RoutePlan, ExitReport, Gate

ReportsInit == RoutePlanInit \/ ExitReportInit \/ GateInit

Ended ==
  /\ stage = "ended"
  /\ UNCHANGED vars

Next ==
  \/ RoutePlanRefused \/ RoutePlanned \/ RoutePlanWrites
  \/ ExitReportRefused \/ ExitReported \/ ExitReportWrites
  \/ GateRefused \/ GateEvaluated \/ GateWrites
  \/ Ended

Spec == ReportsInit /\ [][Next]_vars

-----------------------------------------------------------------------------
(* The audit file of a plan or a report is a chain: a reader who recomputes *)
(* the digests notices any event but the last that was dropped, moved or    *)
(* rewritten, also when the next event was made to fit.                     *)
TamperEvident ==
  audit # << >> /\ chained =>
    /\ Verifies(audit)
    /\ \A log \in Tampered(audit, {audit[i].body : i \in DOMAIN audit}) :
         ~Verifies(log)
=============================================================================
