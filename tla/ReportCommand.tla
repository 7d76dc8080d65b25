--------------------------- MODULE ReportCommand ---------------------------
(* What the `gate`, `exit-report` and `route-plan` commands share: one      *)
(* process, what it reads, what it decides, the files it writes one after   *)
(* the other, and its exit code.  A path is a name of a file; two names of  *)
(* one file are hard links.                                                 *)
EXTENDS Sequences, AuditLog

CONSTANTS
  FileOf,        \* the file each path names
  Existing,      \* the files that are there when the command starts
  InputPath,     \* --input
  Invocations,   \* the options a command can get: the risk profile, whether
                 \* audit events are chained, and where each artifact goes
  MinRetention, MaxIncrease, MinReduction   \* the three thresholds, in percent

(* In the order the commands write them. *)
Order == <<"output", "json", "aimeter", "audit">>
Artifacts == {Order[i] : i \in DOMAIN Order}
Nowhere == "nowhere"

(* "unlisted" is one the commands refuse; `gate` has "none". *)
RiskProfiles == {"low", "medium", "high", "regulated"}

ASSUME PathsAssumption ==
  /\ Existing \subseteq {FileOf[p] : p \in DOMAIN FileOf}
  /\ InputPath \in DOMAIN FileOf /\ FileOf[InputPath] \in Existing
  /\ Nowhere \notin DOMAIN FileOf
  /\ \A p, q \in DOMAIN FileOf :
       p # q /\ FileOf[p] = FileOf[q] => FileOf[p] \in Existing
ASSUME InvocationsAssumption ==
  \A i \in Invocations :
    /\ i.profile \in RiskProfiles \cup {"unlisted", "none"}
    /\ i.chained \in BOOLEAN
    /\ i.destination \in [Artifacts -> DOMAIN FileOf \cup {Nowhere}]
ASSUME ThresholdsAssumption ==
  {MinRetention, MaxIncrease, MinReduction} \subseteq Nat

VARIABLES
  command,      \* the command this process runs
  profile,      \* its risk profile
  chained,      \* whether its audit events are chained
  destination,  \* where each artifact goes: a path, or Nowhere
  input,        \* what its input holds
  stage,        \* "start", "write" or "ended"
  verdict,      \* what was decided about the input
  pending,      \* the artifacts not written yet
  disk,         \* what each file holds
  audit,        \* the events of the audit file, once written
  exit          \* the exit code, -1 while running

options == <<command, profile, chained, destination, input>>
vars == <<options, stage, verdict, pending, disk, audit, exit>>

(* errors.ExitCode *)
SUCCESS == 0
CONSTRAINTS_FAILED == 1
INVALID_INPUT == 2
PARTIAL_RUN == 4
INTERNAL_ERROR == 5

Init ==
  /\ \E i \in Invocations :
       profile = i.profile /\ chained = i.chained /\ destination = i.destination
  /\ stage = "start"
  /\ verdict = << >>
  /\ pending = {a \in Artifacts : destination[a] # Nowhere}
  /\ disk = [f \in {FileOf[p] : p \in DOMAIN FileOf} |->
               IF f = FileOf[InputPath] THEN "input"
               ELSE IF f \in Existing THEN "other" ELSE "none"]
  /\ audit = << >>
  /\ exit = -1

(* The command returns, or guard() turns what escaped into the exit code.   *)
End(code) ==
  /\ stage' = "ended"
  /\ exit' = code
  /\ UNCHANGED <<options, verdict, pending, disk, audit>>

Decided(v) ==
  /\ stage' = "write"
  /\ verdict' = v
  /\ UNCHANGED <<options, pending, disk, audit, exit>>

(* The first of the artifacts that are left. *)
IsNext(a) ==
  \E i \in DOMAIN Order :
    Order[i] = a /\ a \in pending /\ \A j \in 1 .. i - 1 : Order[j] \notin pending

(* One write_text; `bodies` are the events an audit file would get.         *)
WriteNext(bodies) ==
  /\ stage = "write"
  /\ \E a \in Artifacts :
       /\ IsNext(a)
       /\ disk' = [disk EXCEPT ![FileOf[destination[a]]] = a]
       /\ audit' = IF a = "audit" THEN Events(bodies, chained) ELSE audit
       /\ pending' = pending \ {a}
  /\ UNCHANGED <<options, stage, verdict, exit>>

(* A directory that cannot be made, a file that cannot be written: what was *)
(* written before stays.                                                    *)
WriteRaised ==
  /\ stage = "write"
  /\ pending # {}
  /\ End(INTERNAL_ERROR)

Written(code) ==
  /\ stage = "write"
  /\ pending = {}
  /\ End(code)
=============================================================================
