------------------------------ MODULE AuditLog ------------------------------
(* The events of build_audit_events and build_route_audit_events: those of  *)
(* one report, each with the digest of the one before when they are         *)
(* chained.  Equal digests are taken to mean equal events.                  *)
EXTENDS Integers, SequencesExt

NoDigest == << >>

(* Mutant: the digest covers the event and not the one before it. *)
DigestOfBody(event) == <<event.sequence, event.body>>

(* _audit_event_hash: everything of an event but its own digest.            *)
Digest(event) == <<event.sequence, event.body, event.previous>>

Event(sequence, body, previous) ==
  LET bare == [sequence |-> sequence, body |-> body, previous |-> previous]
  IN  [sequence |-> sequence, body |-> body, previous |-> previous,
       digest |-> Digest(bare)]

(* The loop over event_specs. *)
Events(bodies, chained) ==
  LET event[i \in 1 .. Len(bodies)] ==
        IF chained
        THEN Event(i, bodies[i], IF i = 1 THEN NoDigest ELSE event[i - 1].digest)
        ELSE [sequence |-> i, body |-> bodies[i]]
  IN  [i \in DOMAIN bodies |-> event[i]]

-----------------------------------------------------------------------------
(* A reader of the file recomputes every digest. *)
Verifies(log) ==
  \A i \in DOMAIN log :
    /\ log[i].sequence = i
    /\ log[i].previous = IF i = 1 THEN NoDigest ELSE log[i - 1].digest
    /\ log[i].digest = Digest(log[i])

(* One event is dropped, changes places with the next, or gets another body *)
(* and a digest to match while the next event is made to point at it.  The  *)
(* last one is safe from neither: nothing follows it.                       *)
Tampered(log, bodies) ==
  LET early == 1 .. Len(log) - 1
      Rewritten(i, body) == Event(log[i].sequence, body, log[i].previous)
  IN  {RemoveAt(log, i) : i \in early}
      \cup {[log EXCEPT ![i] = log[i + 1], ![i + 1] = log[i]] : i \in early}
      \cup {[log EXCEPT ![e[1]] = Rewritten(e[1], e[2]),
                        ![e[1] + 1].previous = Rewritten(e[1], e[2]).digest] :
              e \in {f \in early \X bodies : f[2] # log[f[1]].body}}
=============================================================================
