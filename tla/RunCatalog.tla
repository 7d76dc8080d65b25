----------------------------- MODULE RunCatalog -----------------------------
(***************************************************************************)
(* What the run repository promises to whoever lists and loads runs: a run *)
(* appears at once and whole, never changes, and once it is gone it does   *)
(* not come back.                                                          *)
(***************************************************************************)
CONSTANT Runs

VARIABLES
  visible,   \* runs that can be listed, loaded and reproduced
  past       \* runs that were deleted, or lost before they appeared

vars == <<visible, past>>

Init == visible = {} /\ past = {}

Publish(r) ==
  /\ r \notin visible \cup past
  /\ visible' = visible \cup {r}
  /\ past' = past

Remove(r) ==
  /\ r \in visible
  /\ visible' = visible \ {r}
  /\ past' = past \cup {r}

Lose(r) ==
  /\ r \notin visible \cup past
  /\ past' = past \cup {r}
  /\ visible' = visible

Next == \E r \in Runs : Publish(r) \/ Remove(r) \/ Lose(r)

Spec == Init /\ [][Next]_vars
=============================================================================
