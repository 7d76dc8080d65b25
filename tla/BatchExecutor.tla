---------------------------- MODULE BatchExecutor ----------------------------
(***************************************************************************)
(* What the benchmark runner promises about execution, without semaphores, *)
(* retries, HTTP clients or exceptions: batches of tasks run one after the *)
(* other (one batch per model), at most limit tasks of the current batch   *)
(* are in flight, a batch ends only when every task of it has ended, and a *)
(* run that breaks down ends with nothing in flight.  The limit is at least*)
(* one, never above the ceiling and the same throughout the run.           *)
(***************************************************************************)
EXTENDS Integers, FiniteSets

CONSTANTS
  NBatches,   \* models of the run, executed in order
  Tasks,      \* tasks of one batch (case x repetition)
  Ceiling     \* what no limit exceeds

VARIABLES
  limit,      \* tasks that may be in flight together
  batch,      \* the current batch
  running,    \* tasks in flight
  ended,      \* tasks of the current batch that have ended
  status      \* "working", "complete", "broken" or "over"

vars == <<limit, batch, running, ended, status>>

TypeOK ==
  /\ limit \in 1 .. Ceiling
  /\ batch \in 0 .. NBatches
  /\ running \subseteq Tasks
  /\ ended \subseteq Tasks
  /\ status \in {"working", "complete", "broken", "over"}

Init ==
  /\ limit \in 1 .. Ceiling
  /\ batch = (IF NBatches = 0 THEN 0 ELSE 1)
  /\ running = {}
  /\ ended = {}
  /\ status = (IF NBatches = 0 THEN "complete" ELSE "working")

Start(t) ==
  /\ status \in {"working", "broken"}
  /\ t \notin running \cup ended
  /\ Cardinality(running) < limit
  /\ running' = running \cup {t}
  /\ UNCHANGED <<limit, batch, ended, status>>

(* A task ends: it was in flight, or it failed at once when it started. *)
End(t) ==
  /\ status \in {"working", "broken"}
  /\ t \notin ended
  /\ running' = running \ {t}
  /\ ended' = ended \cup {t}
  /\ UNCHANGED <<limit, batch, status>>

(* Every task of the batch has ended: the next batch opens, or the run is   *)
(* complete.                                                                *)
BatchEnded == status = "working" /\ running = {} /\ ended = Tasks

NextBatch ==
  /\ BatchEnded
  /\ batch < NBatches
  /\ batch' = batch + 1
  /\ ended' = {}
  /\ UNCHANGED <<limit, running, status>>

Complete ==
  /\ BatchEnded
  /\ batch = NBatches
  /\ status' = "complete"
  /\ ended' = {}
  /\ UNCHANGED <<limit, batch, running>>

(* Something raised.  Tasks already scheduled may still start and end ... *)
Break ==
  /\ status = "working"
  /\ status' = "broken"
  /\ UNCHANGED <<limit, batch, running, ended>>

(* ... until the event loop is torn down. *)
Teardown ==
  /\ status = "broken"
  /\ running' = {}
  /\ status' = "over"
  /\ UNCHANGED <<limit, batch, ended>>

(* A complete run whose results cannot be stored. *)
Lose ==
  /\ status = "complete"
  /\ status' = "over"
  /\ UNCHANGED <<limit, batch, running, ended>>

Next ==
  \/ \E t \in Tasks : Start(t) \/ End(t)
  \/ NextBatch \/ Complete \/ Break \/ Teardown \/ Lose

Spec == Init /\ [][Next]_vars
==============================================================================
