------------------------------ MODULE RunStore ------------------------------
(***************************************************************************)
(* The run repository (storage/repository.py, files.py, sqlite.py) under   *)
(* the commands that use it: run, reproduce, runs show and clean.  Several *)
(* processes may share one .modelswapbench directory and nothing locks it; *)
(* a step of the model is one access to the file system or one SQLite      *)
(* transaction.  A process can stop between any two of them.               *)
(***************************************************************************)
EXTENDS Integers, FiniteSets

CONSTANTS
  Procs,      \* processes, each executing one command
  MaxRuns,    \* bound: runs created
  MaxEdits    \* bound: edits of the fixture file the suite refers to

ASSUME MaxRunsAssumption == MaxRuns \in Nat
ASSUME MaxEditsAssumption == MaxEdits \in Nat

Runs == 1 .. MaxRuns   \* run ids, in the order of created_at
None == 0

(* The files of a run directory, in the order save() writes them. *)
Files == {"fixtures", "manifest", "run", "results", "suite"}

(* Mutant: the row is written before suite.json would be. *)
AfterWithoutSuite ==
  [fixtures |-> "manifest", manifest |-> "run", run |-> "results",
   results |-> "upsert", suite |-> "upsert"]

After ==
  [fixtures |-> "manifest", manifest |-> "run", run |-> "results",
   results |-> "suite", suite |-> "upsert"]

LATEST == 0     \* the reference "latest"

VARIABLES
  file,       \* per run and file: "absent", "torn" or "whole"
  dir,        \* runs whose directory exists
  index,      \* runs with a row in index.sqlite
  created,    \* runs created so far
  source,     \* the version of the suite's fixture file
  usedFixture,   \* per run, the version its provider read
  savedFixture,  \* per run, the version in its snapshot
  pc,         \* per process, the step it is about to take
  command,    \* per process: what it was asked to do
  ref,        \* ... on which run: an id or "latest"
  target,     \* ... what ref was resolved to
  second,     \* ... what it was resolved to the second time
  own,        \* ... the run it creates
  writing,    \* ... whether it holds its current file open for writing
  todo        \* ... what rmtree has still to unlink

disk == <<file, dir, index>>
ran == <<created, source, usedFixture, savedFixture>>
local == <<command, ref, target, second, own, writing, todo>>
vars == <<disk, ran, pc, local>>

Init ==
  /\ file = [r \in Runs |-> [f \in Files |-> "absent"]]
  /\ dir = {}
  /\ index = {}
  /\ created = 0
  /\ source = 0
  /\ usedFixture = [r \in Runs |-> 0]
  /\ savedFixture = [r \in Runs |-> 0]
  /\ pc = [p \in Procs |-> "idle"]
  /\ command = [p \in Procs |-> "none"]
  /\ ref = [p \in Procs |-> LATEST]
  /\ target = [p \in Procs |-> None]
  /\ second = [p \in Procs |-> None]
  /\ own = [p \in Procs |-> None]
  /\ writing = [p \in Procs |-> FALSE]
  /\ todo = [p \in Procs |-> {}]

Goto(p, step) == pc' = [pc EXCEPT ![p] = step]

(* RunIndex.latest: the row with the greatest created_at. *)
Latest ==
  IF index = {} THEN None
  ELSE CHOOSE r \in index : \A other \in index : other <= r

(* RunRepository.resolve: an id is taken as it is. *)
Resolved(p) == IF ref[p] = LATEST THEN Latest ELSE ref[p]

-----------------------------------------------------------------------------
(* Starting a command. *)

(* Mutant: an id that only tells when the run began can be drawn twice.     *)
StartRunOnUsedId(p) ==
  /\ pc[p] = "idle"
  /\ created < MaxRuns
  /\ \E r \in 1 .. created + 1 :
       /\ own' = [own EXCEPT ![p] = r]
       /\ usedFixture' = [usedFixture EXCEPT ![r] = source]
  /\ created' = created + 1
  /\ command' = [command EXCEPT ![p] = "run"]
  /\ Goto(p, "fixtures")
  /\ UNCHANGED <<disk, source, savedFixture, ref, target, second, writing, todo>>

(* `run`: the run id and created_at are drawn, the providers read their     *)
(* fixtures, and later the run is saved.                                    *)
StartRun(p) ==
  /\ pc[p] = "idle"
  /\ created < MaxRuns
  /\ created' = created + 1
  /\ own' = [own EXCEPT ![p] = created + 1]
  /\ usedFixture' = [usedFixture EXCEPT ![created + 1] = source]
  /\ command' = [command EXCEPT ![p] = "run"]
  /\ Goto(p, "fixtures")
  /\ UNCHANGED <<disk, source, savedFixture, ref, target, second, writing, todo>>

(* The other commands take "latest" or an id, which exists once drawn. *)
StartOn(p) ==
  /\ pc[p] = "idle"
  /\ \E c \in {"show", "reproduce", "clean"}, x \in (1 .. created) \cup {LATEST} :
       /\ command' = [command EXCEPT ![p] = c]
       /\ ref' = [ref EXCEPT ![p] = x]
  /\ Goto(p, "resolve")
  /\ UNCHANGED <<disk, ran, target, second, own, writing, todo>>

(* "no runs found" when there is no row. *)
Resolve(p) ==
  /\ pc[p] = "resolve"
  /\ target' = [target EXCEPT ![p] = Resolved(p)]
  /\ Goto(p, IF Resolved(p) = None THEN "failed"
             ELSE IF command[p] = "show" THEN "check"
             ELSE IF command[p] = "clean" THEN "scan"
             ELSE "again")
  /\ UNCHANGED <<disk, ran, command, ref, second, own, writing, todo>>

-----------------------------------------------------------------------------
(* Reading: load, load_manifest and load_suite_snapshot. *)

(* A file that is gone, or half written, raises. *)
ReadOr(p, r, f, step) ==
  Goto(p, IF file[r][f] = "whole" THEN step ELSE "failed")

CheckRun(p) ==
  /\ pc[p] = "check"
  /\ Goto(p, IF file[target[p]]["run"] = "absent" THEN "failed" ELSE "read")
  /\ UNCHANGED <<disk, ran, local>>

ReadRun(p) ==
  /\ pc[p] = "read"
  /\ ReadOr(p, target[p], "run", "again")
  /\ UNCHANGED <<disk, ran, local>>

(* load_manifest(run_ref) resolves the reference a second time. *)
ResolveAgain(p) ==
  /\ pc[p] = "again"
  /\ second' = [second EXCEPT ![p] = Resolved(p)]
  /\ Goto(p, IF Resolved(p) = None THEN "failed" ELSE "readManifest")
  /\ UNCHANGED <<disk, ran, command, ref, target, own, writing, todo>>

ReadManifest(p) ==
  /\ pc[p] = "readManifest"
  /\ ReadOr(p, second[p], "manifest",
            IF command[p] = "show" THEN "done" ELSE "readSuite")
  /\ UNCHANGED <<disk, ran, local>>

ReadSuite(p) ==
  /\ pc[p] = "readSuite"
  /\ ReadOr(p, target[p], "suite", "rerun")
  /\ UNCHANGED <<disk, ran, local>>

(* The snapshot is executed against the fixtures of the run directory.      *)
Rerun(p) ==
  /\ pc[p] = "rerun"
  /\ file[target[p]]["fixtures"] = "whole"
  /\ created < MaxRuns
  /\ created' = created + 1
  /\ own' = [own EXCEPT ![p] = created + 1]
  /\ usedFixture' = [usedFixture EXCEPT ![created + 1] = savedFixture[target[p]]]
  /\ Goto(p, "fixtures")
  /\ UNCHANGED <<disk, source, savedFixture,
                 command, ref, target, second, writing, todo>>

RerunFails(p) ==
  /\ pc[p] = "rerun"
  /\ file[target[p]]["fixtures"] # "whole"
  /\ Goto(p, "failed")
  /\ UNCHANGED <<disk, ran, local>>

-----------------------------------------------------------------------------
(* RunRepository.save. *)

(* Where the fixtures are copied from: beside the suite file, or for a      *)
(* reproduction from the directory of the reproduced run.                   *)
FixtureGone(p) ==
  command[p] = "reproduce" /\ file[target[p]]["fixtures"] = "absent"

FixtureVersion(p) ==
  IF command[p] = "reproduce" THEN savedFixture[target[p]] ELSE source

(* Mutant: fixtures are not snapshotted. *)
SkipFixturesAlways(p) ==
  /\ pc[p] = "fixtures"
  /\ ~writing[p]
  /\ Goto(p, "manifest")
  /\ UNCHANGED <<disk, ran, local>>

(* _snapshot_suite skips a fixture that does not exist. *)
SkipFixtures(p) ==
  /\ pc[p] = "fixtures"
  /\ ~writing[p]
  /\ FixtureGone(p)
  /\ Goto(p, "manifest")
  /\ UNCHANGED <<disk, ran, local>>

(* The first two steps create the directory, the others need it. *)
Open(p) ==
  LET r == own[p] f == pc[p] IN
  /\ f \in Files
  /\ ~writing[p]
  /\ f = "fixtures" => ~FixtureGone(p)
  /\ IF f \in {"fixtures", "manifest"} \/ r \in dir
     THEN /\ file' = [file EXCEPT ![r][f] = "torn"]
          /\ dir' = dir \cup {r}
          /\ writing' = [writing EXCEPT ![p] = TRUE]
          /\ pc' = pc
     ELSE /\ Goto(p, "failed")
          /\ UNCHANGED <<file, dir, writing>>
  /\ IF f = "fixtures"
     THEN savedFixture' = [savedFixture EXCEPT ![r] = FixtureVersion(p)]
     ELSE savedFixture' = savedFixture
  /\ UNCHANGED <<index, created, source, usedFixture,
                 command, ref, target, second, own, todo>>

(* A file unlinked while it was written stays unlinked. *)
Close(p) ==
  LET r == own[p] f == pc[p] IN
  /\ f \in Files
  /\ writing[p]
  /\ file' = [file EXCEPT ![r][f] = IF @ = "torn" THEN "whole" ELSE @]
  /\ writing' = [writing EXCEPT ![p] = FALSE]
  /\ Goto(p, After[f])
  /\ UNCHANGED <<dir, index, ran, command, ref, target, second, own, todo>>

Upsert(p) ==
  /\ pc[p] = "upsert"
  /\ index' = index \cup {own[p]}
  /\ Goto(p, "done")
  /\ UNCHANGED <<file, dir, ran, local>>

-----------------------------------------------------------------------------
(* RunRepository.delete: rmtree, then the row. *)

(* Mutant: nothing to do for a directory that is gone already. *)
ScanOrDone(p) ==
  /\ pc[p] = "scan"
  /\ IF target[p] \in dir
     THEN /\ todo' = [todo EXCEPT ![p] = {f \in Files : file[target[p]][f] # "absent"}]
          /\ Goto(p, "unlink")
     ELSE /\ Goto(p, "done")
          /\ todo' = todo
  /\ UNCHANGED <<disk, ran, command, ref, target, second, own, writing>>

Scan(p) ==
  /\ pc[p] = "scan"
  /\ IF target[p] \in dir
     THEN /\ todo' = [todo EXCEPT ![p] = {f \in Files : file[target[p]][f] # "absent"}]
          /\ Goto(p, "unlink")
     ELSE /\ Goto(p, "deleteRow")
          /\ todo' = todo
  /\ UNCHANGED <<disk, ran, command, ref, target, second, own, writing>>

(* In any order.  A file another process unlinked first raises, or not,     *)
(* depending on the Python version.                                         *)
Unlink(p) ==
  /\ pc[p] = "unlink"
  /\ \E f \in todo[p] :
       /\ file' = [file EXCEPT ![target[p]][f] = "absent"]
       /\ todo' = [todo EXCEPT ![p] = @ \ {f}]
       /\ \/ pc' = pc
          \/ file[target[p]][f] = "absent" /\ Goto(p, "failed")
  /\ UNCHANGED <<dir, index, ran, command, ref, target, second, own, writing>>

(* rmdir: a directory that is not empty raises. *)
RemoveDir(p) ==
  /\ pc[p] = "unlink"
  /\ todo[p] = {}
  /\ \/ /\ \A f \in Files : file[target[p]][f] = "absent"
        /\ dir' = dir \ {target[p]}
        /\ Goto(p, "deleteRow")
     \/ /\ \/ \E f \in Files : file[target[p]][f] # "absent"
           \/ target[p] \notin dir
        /\ dir' = dir
        /\ Goto(p, "failed")
  /\ UNCHANGED <<file, index, ran, local>>

(* Mutant: DELETE FROM runs, without the WHERE. *)
DeleteAllRows(p) ==
  /\ pc[p] = "deleteRow"
  /\ index' = {}
  /\ Goto(p, "done")
  /\ UNCHANGED <<file, dir, ran, local>>

DeleteRow(p) ==
  /\ pc[p] = "deleteRow"
  /\ index' = index \ {target[p]}
  /\ Goto(p, "done")
  /\ UNCHANGED <<file, dir, ran, local>>

-----------------------------------------------------------------------------
Running(p) == pc[p] \notin {"idle", "done", "failed"}

(* An OSError, a locked database, an interrupt or a kill. *)
Stop(p) ==
  /\ Running(p)
  /\ Goto(p, "failed")
  /\ UNCHANGED <<disk, ran, local>>

(* Someone edits the fixture file of the suite. *)
EditFixture ==
  /\ source < MaxEdits
  /\ source' = source + 1
  /\ UNCHANGED <<disk, created, usedFixture, savedFixture, pc, local>>

Step(p) ==
  \/ StartRun(p) \/ StartOn(p) \/ Resolve(p)
  \/ CheckRun(p) \/ ReadRun(p) \/ ResolveAgain(p) \/ ReadManifest(p) \/ ReadSuite(p)
  \/ Rerun(p) \/ RerunFails(p)
  \/ SkipFixtures(p) \/ Open(p) \/ Close(p) \/ Upsert(p)
  \/ Scan(p) \/ Unlink(p) \/ RemoveDir(p) \/ DeleteRow(p)
  \/ Stop(p)

Next == EditFixture \/ \E p \in Procs : Step(p)

Spec == Init /\ [][Next]_vars

-----------------------------------------------------------------------------
(* Properties. *)

Steps == Files \cup
  {"idle", "resolve", "check", "read", "again", "readManifest", "readSuite",
   "rerun", "upsert", "scan", "unlink", "deleteRow", "done", "failed"}

(* Every variable has its type. *)
TypeOK ==
  /\ file \in [Runs -> [Files -> {"absent", "torn", "whole"}]]
  /\ dir \subseteq Runs
  /\ index \subseteq Runs
  /\ created \in 0 .. MaxRuns
  /\ source \in Nat
  /\ usedFixture \in [Runs -> Nat]
  /\ savedFixture \in [Runs -> Nat]
  /\ pc \in [Procs -> Steps]
  /\ command \in [Procs -> {"none", "run", "show", "reproduce", "clean"}]
  /\ ref \in [Procs -> Runs \cup {LATEST}]
  /\ target \in [Procs -> Runs \cup {None}]
  /\ second \in [Procs -> Runs \cup {None}]
  /\ own \in [Procs -> Runs \cup {None}]
  /\ writing \in [Procs -> BOOLEAN]
  /\ todo \in [Procs -> SUBSET Files]

(* Runs some clean has resolved: from then on it may be taking them apart. *)
Cleaned == {target[p] : p \in {q \in Procs : command[q] = "clean"}}

RecordFiles == {"manifest", "run", "results", "suite"}
Whole(r) == \A f \in RecordFiles : file[r][f] = "whole"

(* A run with a row has all its files, whatever other processes did and     *)
(* wherever they stopped, unless a clean of this very run was started: the  *)
(* row is written last.                                                     *)
IndexedRunIsWhole == \A r \in index \ Cleaned : Whole(r)

(* The fixtures of a run with a row were snapshotted too, unless they were  *)
(* to come from a run that was cleaned in the meantime.                     *)
SourceCleaned(r) ==
  \E p \in Procs : own[p] = r /\ command[p] = "reproduce" /\ target[p] \in Cleaned

IndexedRunHasFixtures ==
  \A r \in index \ Cleaned : SourceCleaned(r) \/ file[r]["fixtures"] = "whole"

(* A reproduction runs on the fixtures saved with the run it reproduces and *)
(* saves those, however the suite's own fixture file is edited meanwhile.   *)
ReproductionKeepsFixtures ==
  \A p \in Procs : command[p] = "reproduce" /\ own[p] # None =>
    /\ usedFixture[own[p]] = savedFixture[target[p]]
    /\ file[own[p]]["fixtures"] # "absent" =>
         savedFixture[own[p]] = usedFixture[own[p]]

(* _snapshot_suite, which copies fixtures after the calls were made: a run  *)
(* with a row has fixtures beside it, and a run of a snapshot has the ones  *)
(* it was run on, wherever other processes stopped and whatever they clean. *)
FixturesAreKept == IndexedRunHasFixtures /\ ReproductionKeepsFixtures

(* Nothing but a clean of it changes or hides a run that has a row.         *)
StoredRunsAreImmutable ==
  [][\A r \in index \ Cleaned :
       r \notin Cleaned' =>
         r \in index' /\ file'[r] = file[r] /\ savedFixture'[r] = savedFixture[r]]_vars

(* `clean latest` that reports success has left nothing of the run: no row, *)
(* no directory, and no process brings them back.                           *)
CleanedLatestIsGone ==
  \A p \in Procs :
    command[p] = "clean" /\ ref[p] = LATEST /\ pc[p] = "done" =>
      target[p] \notin index \cup dir

(* No two processes write the same run. *)
OwnRuns == \A p, q \in Procs : own[p] = own[q] /\ own[p] # None => p = q

(* The store does what RunCatalog promises. *)
Visible == {r \in index : Whole(r)}

SaverDone(r) == \E p \in Procs : own[p] = r /\ pc[p] = "done"

Past == {r \in Runs : SaverDone(r) /\ r \notin Visible}

Catalog == INSTANCE RunCatalog WITH visible <- Visible, past <- Past

ImplementsCatalog == Catalog!Spec

-----------------------------------------------------------------------------
(* What the documentation says and the code does not do.                    *)

(* docs/reproducibility.md: reproduce "re-runs the recorded suite and warns *)
(* on version drift (package, Forge, Python, or suite hash changed)".  So   *)
(* the manifest it compares with is the one of the run it re-runs.          *)
DriftIsOfTheSameRun ==
  \A p \in Procs :
    command[p] = "reproduce" /\ pc[p] = "readSuite" => second[p] = target[p]
=============================================================================
