--------------------------- MODULE RunStoreProofs ---------------------------
(* Proofs about RunStore, for every set of processes and any number of runs *)
(* and edits.                                                               *)
EXTENDS RunStore, WellFoundedInduction, TLAPS

-----------------------------------------------------------------------------
(* The inductive invariant. *)

(* What a process is doing follows from its step. *)
Coherent(p) ==
  /\ pc[p] = "idle" => command[p] = "none" /\ own[p] = None /\ ~writing[p]
  /\ pc[p] = "resolve" => command[p] \in {"show", "reproduce", "clean"}
  /\ pc[p] \in {"check", "read"} => command[p] = "show"
  /\ pc[p] \in {"again", "readManifest"} => command[p] \in {"show", "reproduce"}
  /\ pc[p] \in {"readSuite", "rerun"} => command[p] = "reproduce"
  /\ pc[p] \in {"resolve", "check", "read", "again", "readManifest", "readSuite", "rerun"} =>
       own[p] = None /\ ~writing[p]
  /\ pc[p] \in {"again", "readManifest", "readSuite", "rerun", "check", "read"} =>
       target[p] # None
  /\ pc[p] \in {"idle", "resolve"} => target[p] = None
  /\ pc[p] = "readManifest" => second[p] # None
  /\ pc[p] \in Files \cup {"upsert"} =>
       own[p] # None /\ command[p] \in {"run", "reproduce"}
  /\ pc[p] \in {"scan", "unlink", "deleteRow"} =>
       command[p] = "clean" /\ target[p] # None
  /\ command[p] = "clean" => own[p] = None
  /\ command[p] = "reproduce" /\ own[p] # None => target[p] # None
  /\ pc[p] \notin Files \cup {"failed"} => ~writing[p]

Allocated ==
  /\ \A p \in Procs : own[p] <= created
  /\ OwnRuns
  /\ \A r \in Runs, f \in Files : r > created => file[r][f] = "absent"

(* How far the save of an undisturbed run has come. *)
Saved(p) ==
  own[p] # None /\ own[p] \notin Cleaned =>
    /\ pc[p] \in Files /\ writing[p] => file[own[p]][pc[p]] = "torn"
    /\ pc[p] = "fixtures" /\ ~writing[p] => file[own[p]]["fixtures"] = "absent"
    /\ pc[p] \in {"run", "results", "suite", "upsert", "done"} =>
         file[own[p]]["manifest"] = "whole"
    /\ pc[p] \in {"results", "suite", "upsert", "done"} =>
         file[own[p]]["run"] = "whole"
    /\ pc[p] \in {"suite", "upsert", "done"} =>
         file[own[p]]["results"] = "whole"
    /\ pc[p] \in {"upsert", "done"} =>
         file[own[p]]["suite"] = "whole"

Indexed == \A r \in index : SaverDone(r)

StoreInv ==
  /\ TypeOK
  /\ \A p \in Procs : Coherent(p)
  /\ Allocated
  /\ \A p \in Procs : Saved(p)
  /\ Indexed

(* Nothing is stored and nobody has started. *)
LEMMA InitStore == Init => StoreInv
<1> SUFFICES ASSUME Init PROVE StoreInv
  OBVIOUS
<1>1. TypeOK
  BY MaxRunsAssumption DEF Init, TypeOK, Steps, Files, LATEST, None, Runs
<1>2. \A p \in Procs : Coherent(p) /\ Saved(p)
  BY DEF Init, Coherent, Saved, Files
<1>3. Allocated
  BY DEF Init, Allocated, OwnRuns, None
<1>4. Indexed
  BY DEF Init, Indexed
<1> QED BY <1>1, <1>2, <1>3, <1>4 DEF StoreInv

-----------------------------------------------------------------------------
(* What the helpers return. *)

(* After every file comes another file, or the row. *)
LEMMA AfterFile ==
  /\ After["fixtures"] = "manifest" /\ After["manifest"] = "run"
  /\ After["run"] = "results" /\ After["results"] = "suite"
  /\ After["suite"] = "upsert"
BY DEF After

(* "latest" is a run with a row, when there is one. *)
LEMMA LatestRun ==
  ASSUME TypeOK
  PROVE  IF index = {} THEN Latest = None ELSE Latest \in index
<1> DEFINE Less == OpToRel(<, Nat)
<1>l. \A m, n \in Nat : m < n => <<m, n>> \in Less
  BY Zenon DEF OpToRel
<1>w. \A S : S \subseteq Nat /\ S # {} => \E x \in S : \A y \in S : <<y, x>> \notin Less
  <2> TAKE S
  <2>1. IsWellFoundedOn(OpToRel(<, Nat), Nat)
    BY NatLessThanWellFounded
  <2> HIDE DEF Less
  <2>2. IsWellFoundedOn(Less, Nat)
    BY <2>1 DEF Less
  <2>3. S \subseteq Nat /\ S # {} => \E x \in S : \A y \in S : ~(<<y, x>> \in Less)
    BY <2>2, WFMin, Zenon
  <2> QED BY <2>3
<1> HIDE DEF Less
<1>0. index \subseteq Runs
  BY DEF TypeOK
<1>1. CASE index = {}
  BY <1>1 DEF Latest
<1>2. CASE index # {}
  <2> DEFINE Below == {MaxRuns - r : r \in index}
  <2>1. Below \subseteq Nat /\ Below # {}
    <3>1. \A r \in Runs : MaxRuns - r \in Nat
      BY MaxRunsAssumption DEF Runs
    <3>2. \A r \in index : MaxRuns - r \in Below
      OBVIOUS
    <3> QED BY <1>0, <1>2, <3>1, <3>2
  <2>2. PICK least \in Below : \A other \in Below : <<other, least>> \notin Less
    BY <2>1, <1>w
  <2>3. PICK last \in index : least = MaxRuns - last
    BY <2>2
  <2>4. \A other \in index : MaxRuns - other \in Nat
    BY <1>0, MaxRunsAssumption DEF Runs
  <2>5. \A other \in index : ~(MaxRuns - other < MaxRuns - last)
    BY <2>2, <2>3, <2>4, <1>l
  <2>6. \A other \in index : other <= last
    BY <1>0, <2>3, <2>5, MaxRunsAssumption DEF Runs
  <2> QED BY <1>2, <2>6 DEF Latest
<1> QED BY <1>1, <1>2

(* A reference resolves to a run, or to none. *)
LEMMA ResolvedRun ==
  ASSUME TypeOK, NEW p \in Procs
  PROVE  Resolved(p) \in Runs \cup {None}
BY LatestRun DEF TypeOK, Resolved, LATEST

-----------------------------------------------------------------------------
(* Type correctness. *)

(* Every step of a process leads to another of its steps. *)
LEMMA PcStep ==
  ASSUME TypeOK, NEW p \in Procs, Step(p)
  PROVE  pc' \in [Procs -> Steps]
<1>0. pc \in [Procs -> Steps]
  BY DEF TypeOK
<1>g. \A step \in Steps : Goto(p, step) => pc' \in [Procs -> Steps]
  BY <1>0 DEF Goto
<1>a. \A f \in Files : After[f] \in Steps
  BY AfterFile DEF Files, Steps
<1> USE <1>0, <1>g, <1>a DEF Steps, Files
<1>1. CASE StartRun(p)
  BY <1>1 DEF StartRun
<1>2. CASE StartOn(p)
  BY <1>2 DEF StartOn
<1>3. CASE Resolve(p)
  BY <1>3 DEF Resolve
<1>4. CASE CheckRun(p)
  BY <1>4 DEF CheckRun
<1>5. CASE ReadRun(p)
  BY <1>5 DEF ReadRun, ReadOr
<1>6. CASE ResolveAgain(p)
  BY <1>6 DEF ResolveAgain
<1>7. CASE ReadManifest(p)
  BY <1>7 DEF ReadManifest, ReadOr
<1>8. CASE ReadSuite(p)
  BY <1>8 DEF ReadSuite, ReadOr
<1>9. CASE Rerun(p)
  BY <1>9 DEF Rerun
<1>10. CASE RerunFails(p)
  BY <1>10 DEF RerunFails
<1>11. CASE SkipFixtures(p)
  BY <1>11 DEF SkipFixtures
<1>12. CASE Open(p)
  BY <1>12 DEF Open
<1>13. CASE Close(p)
  BY <1>13 DEF Close
<1>14. CASE Upsert(p)
  BY <1>14 DEF Upsert
<1>15. CASE Scan(p)
  BY <1>15 DEF Scan
<1>16. CASE Unlink(p)
  BY <1>16 DEF Unlink
<1>17. CASE RemoveDir(p)
  BY <1>17 DEF RemoveDir
<1>18. CASE DeleteRow(p)
  BY <1>18 DEF DeleteRow
<1>19. CASE Stop(p)
  BY <1>19 DEF Stop
<1> QED
  BY <1>1, <1>2, <1>3, <1>4, <1>5, <1>6, <1>7, <1>8, <1>9, <1>10, <1>11, <1>12, <1>13, <1>14, <1>15, <1>16, <1>17, <1>18, <1>19 DEF Step

(* Every step of a process keeps every variable in its type. *)
LEMMA TypeStep ==
  ASSUME TypeOK, NEW p \in Procs, Coherent(p), Step(p)
  PROVE  TypeOK'
<1>t. pc' \in [Procs -> Steps]
  BY PcStep
<1>r. Resolved(p) \in Runs \cup {None}
  BY ResolvedRun
<1>c. created \in Nat /\ (created < MaxRuns => created + 1 \in Runs /\ created + 1 \in 0 .. MaxRuns)
  BY MaxRunsAssumption DEF TypeOK, Runs
<1>d. (1 .. created) \subseteq Runs
  BY MaxRunsAssumption DEF TypeOK, Runs
<1>o. pc[p] \in Files \cup {"upsert"} => own[p] \in Runs
  BY DEF TypeOK, Coherent
<1>e. pc[p] = "unlink" \/ pc[p] = "rerun" => target[p] \in Runs
  BY DEF TypeOK, Coherent
<1> USE <1>t, <1>r, <1>c, <1>d, <1>o, <1>e DEF TypeOK, disk, ran, local
<1>1. CASE StartRun(p)
  BY <1>1 DEF StartRun
<1>2. CASE StartOn(p)
  BY <1>2 DEF StartOn
<1>3. CASE Resolve(p)
  BY <1>3 DEF Resolve
<1>4. CASE CheckRun(p)
  BY <1>4 DEF CheckRun
<1>5. CASE ReadRun(p)
  BY <1>5 DEF ReadRun, ReadOr
<1>6. CASE ResolveAgain(p)
  BY <1>6 DEF ResolveAgain
<1>7. CASE ReadManifest(p)
  BY <1>7 DEF ReadManifest, ReadOr
<1>8. CASE ReadSuite(p)
  BY <1>8 DEF ReadSuite, ReadOr
<1>9. CASE Rerun(p)
  BY <1>9 DEF Rerun
<1>10. CASE RerunFails(p)
  BY <1>10 DEF RerunFails
<1>11. CASE SkipFixtures(p)
  BY <1>11 DEF SkipFixtures
<1>12. CASE Open(p)
  <2>1. own[p] \in Runs /\ pc[p] \in Files
    BY <1>12 DEF Open
  <2>2. savedFixture' \in [Runs -> Nat]
    <3>1. FixtureVersion(p) \in Nat
      <4>1. command[p] = "reproduce" => target[p] \in Runs
        BY <2>1 DEF Coherent
      <4> QED BY <4>1 DEF FixtureVersion
    <3> QED BY <1>12, <2>1, <3>1 DEF Open
  <2>3. file' \in [Runs -> [Files -> {"absent", "torn", "whole"}]]
    <3>1. \/ file' = [file EXCEPT ![own[p]][pc[p]] = "torn"]
          \/ file' = file
      BY <1>12 DEF Open
    <3>2. file \in [Runs -> [Files -> {"absent", "torn", "whole"}]]
      OBVIOUS
    <3> QED BY ONLY <2>1, <3>1, <3>2
  <2>4. dir' \subseteq Runs /\ writing' \in [Procs -> BOOLEAN]
    BY <1>12, <2>1 DEF Open
  <2> QED BY <1>12, <2>2, <2>3, <2>4 DEF Open
<1>13. CASE Close(p)
  BY <1>13 DEF Close
<1>14. CASE Upsert(p)
  BY <1>14 DEF Upsert
<1>15. CASE Scan(p)
  BY <1>15 DEF Scan
<1>16. CASE Unlink(p)
  BY <1>16 DEF Unlink
<1>17. CASE RemoveDir(p)
  BY <1>17 DEF RemoveDir
<1>18. CASE DeleteRow(p)
  BY <1>18 DEF DeleteRow
<1>19. CASE Stop(p)
  BY <1>19 DEF Stop
<1> QED
  BY <1>1, <1>2, <1>3, <1>4, <1>5, <1>6, <1>7, <1>8, <1>9, <1>10, <1>11, <1>12, <1>13, <1>14, <1>15, <1>16, <1>17, <1>18, <1>19 DEF Step


-----------------------------------------------------------------------------
(* What a step of one process leaves alone. *)

(* The other processes' own variables. *)
LEMMA OthersStep ==
  ASSUME TypeOK, NEW p \in Procs, Step(p), NEW q \in Procs, q # p
  PROVE  /\ pc'[q] = pc[q] /\ command'[q] = command[q] /\ ref'[q] = ref[q]
         /\ target'[q] = target[q] /\ second'[q] = second[q]
         /\ own'[q] = own[q] /\ writing'[q] = writing[q]
<1> USE DEF TypeOK, Goto, ran, local
<1>1. CASE StartRun(p)
  BY <1>1 DEF StartRun
<1>2. CASE StartOn(p)
  BY <1>2 DEF StartOn
<1>3. CASE Resolve(p)
  BY <1>3 DEF Resolve
<1>4. CASE CheckRun(p)
  BY <1>4 DEF CheckRun
<1>5. CASE ReadRun(p)
  BY <1>5 DEF ReadRun, ReadOr
<1>6. CASE ResolveAgain(p)
  BY <1>6 DEF ResolveAgain
<1>7. CASE ReadManifest(p)
  BY <1>7 DEF ReadManifest, ReadOr
<1>8. CASE ReadSuite(p)
  BY <1>8 DEF ReadSuite, ReadOr
<1>9. CASE Rerun(p)
  BY <1>9 DEF Rerun
<1>10. CASE RerunFails(p)
  BY <1>10 DEF RerunFails
<1>11. CASE SkipFixtures(p)
  BY <1>11 DEF SkipFixtures
<1>12. CASE Open(p)
  BY <1>12 DEF Open
<1>13. CASE Close(p)
  BY <1>13 DEF Close
<1>14. CASE Upsert(p)
  BY <1>14 DEF Upsert
<1>15. CASE Scan(p)
  BY <1>15 DEF Scan
<1>16. CASE Unlink(p)
  BY <1>16 DEF Unlink
<1>17. CASE RemoveDir(p)
  BY <1>17 DEF RemoveDir
<1>18. CASE DeleteRow(p)
  BY <1>18 DEF DeleteRow
<1>19. CASE Stop(p)
  BY <1>19 DEF Stop
<1> QED
  BY <1>1, <1>2, <1>3, <1>4, <1>5, <1>6, <1>7, <1>8, <1>9, <1>10, <1>11, <1>12, <1>13, <1>14, <1>15, <1>16, <1>17, <1>18, <1>19 DEF Step

(* What the process is doing still follows from its step. *)
LEMMA SelfCoherent ==
  ASSUME TypeOK, NEW p \in Procs, Coherent(p), Step(p)
  PROVE  Coherent(p)'
<1>r. Resolved(p) \in Runs \cup {None}
  BY ResolvedRun
<1>c. created + 1 # None
  BY MaxRunsAssumption DEF TypeOK, None
<1> USE <1>r, <1>c DEF TypeOK, Coherent, Goto, Files, local
<1>1. CASE StartRun(p)
  BY <1>1 DEF StartRun
<1>2. CASE StartOn(p)
  BY <1>2 DEF StartOn
<1>3. CASE Resolve(p)
  BY <1>3 DEF Resolve
<1>4. CASE CheckRun(p)
  BY <1>4 DEF CheckRun
<1>5. CASE ReadRun(p)
  BY <1>5 DEF ReadRun, ReadOr
<1>6. CASE ResolveAgain(p)
  BY <1>6 DEF ResolveAgain
<1>7. CASE ReadManifest(p)
  BY <1>7 DEF ReadManifest, ReadOr
<1>8. CASE ReadSuite(p)
  BY <1>8 DEF ReadSuite, ReadOr
<1>9. CASE Rerun(p)
  BY <1>9 DEF Rerun
<1>10. CASE RerunFails(p)
  BY <1>10 DEF RerunFails
<1>11. CASE SkipFixtures(p)
  BY <1>11 DEF SkipFixtures
<1>12. CASE Open(p)
  BY <1>12 DEF Open
<1>13. CASE Close(p)
  BY <1>13, AfterFile DEF Close
<1>14. CASE Upsert(p)
  BY <1>14 DEF Upsert
<1>15. CASE Scan(p)
  BY <1>15 DEF Scan
<1>16. CASE Unlink(p)
  BY <1>16 DEF Unlink
<1>17. CASE RemoveDir(p)
  BY <1>17 DEF RemoveDir
<1>18. CASE DeleteRow(p)
  BY <1>18 DEF DeleteRow
<1>19. CASE Stop(p)
  BY <1>19 DEF Stop
<1> QED
  BY <1>1, <1>2, <1>3, <1>4, <1>5, <1>6, <1>7, <1>8, <1>9, <1>10, <1>11, <1>12, <1>13, <1>14, <1>15, <1>16, <1>17, <1>18, <1>19 DEF Step

(* Every step keeps what each process remembers coherent. *)
LEMMA CoherentStep ==
  ASSUME TypeOK, \A q \in Procs : Coherent(q), NEW p \in Procs, Step(p)
  PROVE  \A q \in Procs : Coherent(q)'
<1> SUFFICES ASSUME NEW q \in Procs PROVE Coherent(q)'
  OBVIOUS
<1>1. CASE q = p
  BY <1>1, SelfCoherent
<1>2. CASE q # p
  BY <1>2, OthersStep DEF Coherent
<1> QED BY <1>1, <1>2

(* A run a clean has resolved stays one a clean has resolved. *)
LEMMA CleanStays ==
  ASSUME TypeOK, NEW p \in Procs, Coherent(p), Step(p),
         NEW q \in Procs, command[q] = "clean", target[q] # None
  PROVE  command'[q] = "clean" /\ target'[q] = target[q]
<1>0. CASE q # p
  BY <1>0, OthersStep
<1>p. CASE q = p
  <2> USE <1>p DEF TypeOK, Coherent, local
  <2>1. CASE StartRun(p)
    BY <2>1 DEF StartRun
  <2>2. CASE StartOn(p)
    BY <2>2 DEF StartOn
  <2>3. CASE Resolve(p)
    BY <2>3 DEF Resolve
  <2>4. CASE CheckRun(p)
    BY <2>4 DEF CheckRun
  <2>5. CASE ReadRun(p)
    BY <2>5 DEF ReadRun, ReadOr
  <2>6. CASE ResolveAgain(p)
    BY <2>6 DEF ResolveAgain
  <2>7. CASE ReadManifest(p)
    BY <2>7 DEF ReadManifest, ReadOr
  <2>8. CASE ReadSuite(p)
    BY <2>8 DEF ReadSuite, ReadOr
  <2>9. CASE Rerun(p)
    BY <2>9 DEF Rerun
  <2>10. CASE RerunFails(p)
    BY <2>10 DEF RerunFails
  <2>11. CASE SkipFixtures(p)
    BY <2>11 DEF SkipFixtures
  <2>12. CASE Open(p)
    BY <2>12 DEF Open
  <2>13. CASE Close(p)
    BY <2>13 DEF Close
  <2>14. CASE Upsert(p)
    BY <2>14 DEF Upsert
  <2>15. CASE Scan(p)
    BY <2>15 DEF Scan
  <2>16. CASE Unlink(p)
    BY <2>16 DEF Unlink
  <2>17. CASE RemoveDir(p)
    BY <2>17 DEF RemoveDir
  <2>18. CASE DeleteRow(p)
    BY <2>18 DEF DeleteRow
  <2>19. CASE Stop(p)
    BY <2>19 DEF Stop
  <2> QED
    BY <2>1, <2>2, <2>3, <2>4, <2>5, <2>6, <2>7, <2>8, <2>9, <2>10, <2>11, <2>12, <2>13, <2>14, <2>15, <2>16, <2>17, <2>18, <2>19 DEF Step
<1> QED BY <1>0, <1>p

(* A run that some clean has resolved stays one. *)
LEMMA CleanedGrows ==
  ASSUME TypeOK, NEW p \in Procs, Coherent(p), Step(p)
  PROVE  Cleaned \ {None} \subseteq Cleaned'
BY CleanStays DEF Cleaned

(* A saved run stays saved. *)
LEMMA DoneStays ==
  ASSUME TypeOK, NEW p \in Procs, Coherent(p), Step(p), NEW r, SaverDone(r)
  PROVE  SaverDone(r)'
<1>1. pc[p] # "done"
  BY DEF Step, StartRun, StartOn, Resolve, CheckRun, ReadRun, ResolveAgain,
         ReadManifest, ReadSuite, Rerun, RerunFails, SkipFixtures, Open, Close,
         Upsert, Scan, Unlink, RemoveDir, DeleteRow, Stop, Running, Files
<1>2. PICK q \in Procs : own[q] = r /\ pc[q] = "done"
  BY DEF SaverDone
<1>3. own'[q] = r /\ pc'[q] = "done"
  BY <1>1, <1>2, OthersStep
<1> QED BY <1>3 DEF SaverDone

(* Only its saver and a clean of it touch the files of a run. *)
LEMMA FilesStep ==
  ASSUME TypeOK, NEW p \in Procs, Coherent(p), Step(p), NEW r \in Runs
  PROVE  \/ file'[r] = file[r]
         \/ r = own[p] /\ pc[p] \in Files
         \/ r = target[p] /\ pc[p] = "unlink"
<1> USE DEF TypeOK, disk
<1>1. CASE StartRun(p)
  BY <1>1 DEF StartRun
<1>2. CASE StartOn(p)
  BY <1>2 DEF StartOn
<1>3. CASE Resolve(p)
  BY <1>3 DEF Resolve
<1>4. CASE CheckRun(p)
  BY <1>4 DEF CheckRun
<1>5. CASE ReadRun(p)
  BY <1>5 DEF ReadRun, ReadOr
<1>6. CASE ResolveAgain(p)
  BY <1>6 DEF ResolveAgain
<1>7. CASE ReadManifest(p)
  BY <1>7 DEF ReadManifest, ReadOr
<1>8. CASE ReadSuite(p)
  BY <1>8 DEF ReadSuite, ReadOr
<1>9. CASE Rerun(p)
  BY <1>9 DEF Rerun
<1>10. CASE RerunFails(p)
  BY <1>10 DEF RerunFails
<1>11. CASE SkipFixtures(p)
  BY <1>11 DEF SkipFixtures
<1>12. CASE Open(p)
  BY <1>12 DEF Open
<1>13. CASE Close(p)
  BY <1>13 DEF Close
<1>14. CASE Upsert(p)
  BY <1>14 DEF Upsert
<1>15. CASE Scan(p)
  BY <1>15 DEF Scan
<1>16. CASE Unlink(p)
  BY <1>16 DEF Unlink
<1>17. CASE RemoveDir(p)
  BY <1>17 DEF RemoveDir
<1>18. CASE DeleteRow(p)
  BY <1>18 DEF DeleteRow
<1>19. CASE Stop(p)
  BY <1>19 DEF Stop
<1> QED
  BY <1>1, <1>2, <1>3, <1>4, <1>5, <1>6, <1>7, <1>8, <1>9, <1>10, <1>11, <1>12, <1>13, <1>14, <1>15, <1>16, <1>17, <1>18, <1>19 DEF Step

(* Only its saver writes the row of a run, last; only a clean deletes it. *)
LEMMA IndexStep ==
  ASSUME TypeOK, NEW p \in Procs, Coherent(p), Step(p)
  PROVE  \/ index' = index
         \/ /\ pc[p] = "upsert" /\ pc'[p] = "done" /\ own'[p] = own[p]
            /\ index' = index \cup {own[p]} /\ file' = file
         \/ /\ pc[p] = "deleteRow"
            /\ index' = index \ {target[p]} /\ file' = file
<1> USE DEF TypeOK, Goto, disk, ran, local
<1>1. CASE StartRun(p)
  BY <1>1 DEF StartRun
<1>2. CASE StartOn(p)
  BY <1>2 DEF StartOn
<1>3. CASE Resolve(p)
  BY <1>3 DEF Resolve
<1>4. CASE CheckRun(p)
  BY <1>4 DEF CheckRun
<1>5. CASE ReadRun(p)
  BY <1>5 DEF ReadRun, ReadOr
<1>6. CASE ResolveAgain(p)
  BY <1>6 DEF ResolveAgain
<1>7. CASE ReadManifest(p)
  BY <1>7 DEF ReadManifest, ReadOr
<1>8. CASE ReadSuite(p)
  BY <1>8 DEF ReadSuite, ReadOr
<1>9. CASE Rerun(p)
  BY <1>9 DEF Rerun
<1>10. CASE RerunFails(p)
  BY <1>10 DEF RerunFails
<1>11. CASE SkipFixtures(p)
  BY <1>11 DEF SkipFixtures
<1>12. CASE Open(p)
  BY <1>12 DEF Open
<1>13. CASE Close(p)
  BY <1>13 DEF Close
<1>14. CASE Upsert(p)
  BY <1>14 DEF Upsert
<1>15. CASE Scan(p)
  BY <1>15 DEF Scan
<1>16. CASE Unlink(p)
  BY <1>16 DEF Unlink
<1>17. CASE RemoveDir(p)
  BY <1>17 DEF RemoveDir
<1>18. CASE DeleteRow(p)
  BY <1>18 DEF DeleteRow
<1>19. CASE Stop(p)
  BY <1>19 DEF Stop
<1> QED
  BY <1>1, <1>2, <1>3, <1>4, <1>5, <1>6, <1>7, <1>8, <1>9, <1>10, <1>11, <1>12, <1>13, <1>14, <1>15, <1>16, <1>17, <1>18, <1>19 DEF Step

(* A new run has an id of its own. *)
LEMMA AllocatedStep ==
  ASSUME TypeOK, Allocated, NEW p \in Procs, Coherent(p), Step(p)
  PROVE  Allocated'
<1>t. /\ created \in Nat
      /\ \A q \in Procs : own[q] \in Nat /\ own[q] <= created
      /\ \A r \in Runs : r \in Nat
  BY MaxRunsAssumption DEF TypeOK, Allocated, Runs, None
<1>1. \/ created' = created /\ own' = own
      \/ created' = created + 1 /\ own' = [own EXCEPT ![p] = created + 1]
  <2> USE DEF ran, local
  <2>1. CASE StartRun(p)
    BY <2>1 DEF StartRun
  <2>2. CASE StartOn(p)
    BY <2>2 DEF StartOn
  <2>3. CASE Resolve(p)
    BY <2>3 DEF Resolve
  <2>4. CASE CheckRun(p)
    BY <2>4 DEF CheckRun
  <2>5. CASE ReadRun(p)
    BY <2>5 DEF ReadRun, ReadOr
  <2>6. CASE ResolveAgain(p)
    BY <2>6 DEF ResolveAgain
  <2>7. CASE ReadManifest(p)
    BY <2>7 DEF ReadManifest, ReadOr
  <2>8. CASE ReadSuite(p)
    BY <2>8 DEF ReadSuite, ReadOr
  <2>9. CASE Rerun(p)
    BY <2>9 DEF Rerun
  <2>10. CASE RerunFails(p)
    BY <2>10 DEF RerunFails
  <2>11. CASE SkipFixtures(p)
    BY <2>11 DEF SkipFixtures
  <2>12. CASE Open(p)
    BY <2>12 DEF Open
  <2>13. CASE Close(p)
    BY <2>13 DEF Close
  <2>14. CASE Upsert(p)
    BY <2>14 DEF Upsert
  <2>15. CASE Scan(p)
    BY <2>15 DEF Scan
  <2>16. CASE Unlink(p)
    BY <2>16 DEF Unlink
  <2>17. CASE RemoveDir(p)
    BY <2>17 DEF RemoveDir
  <2>18. CASE DeleteRow(p)
    BY <2>18 DEF DeleteRow
  <2>19. CASE Stop(p)
    BY <2>19 DEF Stop
  <2> QED
    BY <2>1, <2>2, <2>3, <2>4, <2>5, <2>6, <2>7, <2>8, <2>9, <2>10, <2>11, <2>12, <2>13, <2>14, <2>15, <2>16, <2>17, <2>18, <2>19 DEF Step
<1>2. \A q \in Procs : own'[q] <= created'
  BY <1>t, <1>1 DEF TypeOK
<1>3. OwnRuns'
  BY <1>t, <1>1 DEF TypeOK, Allocated, OwnRuns
<1>4. \A r \in Runs, f \in Files : r > created' => file'[r][f] = "absent"
  <2> TAKE r \in Runs, f \in Files
  <2> HAVE r > created'
  <2>1. r > created /\ file[r][f] = "absent"
    BY <1>t, <1>1 DEF Allocated
  <2>2. r # own[p]
    BY <2>1, <1>t
  <2>3. CASE file'[r] = file[r]
    BY <2>1, <2>3
  <2>4. CASE pc[p] = "unlink"
    <3>1. Unlink(p) \/ RemoveDir(p) \/ Stop(p)
      BY <2>4 DEF Step, StartRun, StartOn, Resolve, CheckRun, ReadRun, ResolveAgain,
         ReadManifest, ReadSuite, Rerun, RerunFails, SkipFixtures, Open, Close,
         Upsert, Scan, DeleteRow, Files
    <3> QED BY <3>1, <2>1 DEF Unlink, RemoveDir, Stop, disk, TypeOK
  <2> QED BY <2>2, <2>3, <2>4, FilesStep
<1> QED BY <1>2, <1>3, <1>4 DEF Allocated

(* A process that saves a run no clean has resolved knows what it wrote. *)
LEMMA SelfSaved ==
  ASSUME TypeOK, Allocated, NEW p \in Procs, Coherent(p), Saved(p), Step(p)
  PROVE  Saved(p)'
<1> SUFFICES ASSUME own'[p] # None, own'[p] \notin Cleaned'
             PROVE  Saved(p)'
  BY DEF Saved
<1>c. own'[p] = own[p] => own[p] \notin Cleaned
  BY CleanedGrows
<1>n. /\ created \in Nat
      /\ created < MaxRuns => \A f \in Files : file[created + 1][f] = "absent"
  BY MaxRunsAssumption DEF TypeOK, Allocated, Runs
<1> USE <1>c, <1>n DEF TypeOK, Coherent, Saved, Goto, Files, disk, ran, local
<1>1. CASE StartRun(p)
  BY <1>1 DEF StartRun
<1>2. CASE StartOn(p)
  BY <1>2 DEF StartOn
<1>3. CASE Resolve(p)
  BY <1>3 DEF Resolve
<1>4. CASE CheckRun(p)
  BY <1>4 DEF CheckRun
<1>5. CASE ReadRun(p)
  BY <1>5 DEF ReadRun, ReadOr
<1>6. CASE ResolveAgain(p)
  BY <1>6 DEF ResolveAgain
<1>7. CASE ReadManifest(p)
  BY <1>7 DEF ReadManifest, ReadOr
<1>8. CASE ReadSuite(p)
  BY <1>8 DEF ReadSuite, ReadOr
<1>9. CASE Rerun(p)
  BY <1>9 DEF Rerun
<1>10. CASE RerunFails(p)
  BY <1>10 DEF RerunFails
<1>11. CASE SkipFixtures(p)
  BY <1>11 DEF SkipFixtures
<1>12. CASE Open(p)
  BY <1>12 DEF Open
<1>13. CASE Close(p)
  BY <1>13, AfterFile DEF Close
<1>14. CASE Upsert(p)
  BY <1>14 DEF Upsert
<1>15. CASE Scan(p)
  BY <1>15 DEF Scan
<1>16. CASE Unlink(p)
  BY <1>16 DEF Unlink, Cleaned
<1>17. CASE RemoveDir(p)
  BY <1>17 DEF RemoveDir
<1>18. CASE DeleteRow(p)
  BY <1>18 DEF DeleteRow
<1>19. CASE Stop(p)
  BY <1>19 DEF Stop
<1> QED
  BY <1>1, <1>2, <1>3, <1>4, <1>5, <1>6, <1>7, <1>8, <1>9, <1>10, <1>11, <1>12, <1>13, <1>14, <1>15, <1>16, <1>17, <1>18, <1>19 DEF Step

(* Every step keeps the files each saver has written so far. *)
LEMMA SavedStep ==
  ASSUME TypeOK, Allocated, \A q \in Procs : Coherent(q) /\ Saved(q),
         NEW p \in Procs, Step(p)
  PROVE  \A q \in Procs : Saved(q)'
<1> TAKE q \in Procs
<1>1. CASE q = p
  BY <1>1, SelfSaved
<1>2. CASE q # p /\ own[q] # None /\ own[q] \notin Cleaned'
  <2>1. own[q] \in Runs /\ own[q] \notin Cleaned
    BY <1>2, CleanedGrows DEF TypeOK
  <2>2. own[q] # own[p]
    BY <1>2 DEF Allocated, OwnRuns
  <2>3. ~(own[q] = target[p] /\ pc[p] = "unlink")
    BY <2>1 DEF Coherent, Cleaned
  <2>4. file'[own[q]] = file[own[q]]
    BY <2>1, <2>2, <2>3, FilesStep
  <2> QED BY <1>2, <2>1, <2>4, OthersStep DEF Saved
<1>3. CASE q # p /\ (own[q] = None \/ own[q] \in Cleaned')
  BY <1>3, OthersStep DEF Saved
<1> QED BY <1>1, <1>2, <1>3

(* Every row was written by a process that saved the run. *)
LEMMA IndexedStep ==
  ASSUME TypeOK, Indexed, NEW p \in Procs, Coherent(p), Step(p)
  PROVE  Indexed'
<1> SUFFICES ASSUME NEW r \in index' PROVE SaverDone(r)'
  BY DEF Indexed
<1>1. CASE r \in index
  BY <1>1, DoneStays DEF Indexed
<1>2. CASE r \notin index
  <2>1. r = own'[p] /\ pc'[p] = "done"
    BY <1>2, IndexStep
  <2> QED BY <2>1 DEF SaverDone
<1> QED BY <1>1, <1>2

(* The invariant is inductive. *)
LEMMA StoreStep ==
  ASSUME StoreInv, [Next]_vars
  PROVE  StoreInv'
<1> USE DEF StoreInv
<1>1. CASE UNCHANGED vars
  BY <1>1 DEF vars, disk, ran, local, TypeOK, Coherent, Allocated, OwnRuns, Saved,
              Cleaned, Indexed, SaverDone
<1>2. CASE EditFixture
  BY <1>2 DEF EditFixture, disk, ran, local, TypeOK, Coherent, Allocated, OwnRuns,
              Saved, Cleaned, Indexed, SaverDone
<1>3. CASE \E p \in Procs : Step(p)
  <2> PICK p \in Procs : Step(p)
    BY <1>3
  <2>1. TypeOK'
    BY TypeStep
  <2>2. \A q \in Procs : Coherent(q)'
    BY CoherentStep
  <2>3. Allocated'
    BY AllocatedStep
  <2>4. \A q \in Procs : Saved(q)'
    BY SavedStep
  <2>5. Indexed'
    BY IndexedStep
  <2> QED BY <2>1, <2>2, <2>3, <2>4, <2>5
<1> QED BY <1>1, <1>2, <1>3 DEF Next

(* The inductive invariant of the repository, on which the theorems below   *)
(* rest: what a process remembers is coherent, no run has two savers, the   *)
(* files before the one being written are whole unless a clean of the run   *)
(* was started, and a row belongs to a saver that finished.                 *)
THEOREM StoreInvariant == Spec => []StoreInv
<1>1. Init => StoreInv
  BY InitStore
<1>2. StoreInv /\ [Next]_vars => StoreInv'
  BY StoreStep
<1> QED BY <1>1, <1>2, PTL DEF Spec

-----------------------------------------------------------------------------
(* The theorems. *)

(* Every variable of the repository and of the commands keeps its type. *)
THEOREM TypeCorrect == Spec => []TypeOK
BY StoreInvariant, PTL DEF StoreInv

(* A row in index.sqlite means the four files save() wrote before it are    *)
(* there and complete, as long as nobody started to clean the run.          *)
THEOREM IndexedRunsAreWhole == Spec => []IndexedRunIsWhole
<1>1. StoreInv => IndexedRunIsWhole
  <2> SUFFICES ASSUME StoreInv, NEW r \in index \ Cleaned
               PROVE  Whole(r)
    BY DEF IndexedRunIsWhole
  <2>1. PICK p \in Procs : own[p] = r /\ pc[p] = "done"
    BY DEF StoreInv, Indexed, SaverDone
  <2>2. r # None
    BY DEF StoreInv, TypeOK, Runs, None
  <2> QED BY <2>1, <2>2 DEF StoreInv, Saved, Whole, RecordFiles
<1> QED BY <1>1, StoreInvariant, PTL

(* save() of one run and delete() of another leave a listed run alone. *)
THEOREM StoredRunsNeverChange == Spec => StoredRunsAreImmutable
<1>1. ASSUME StoreInv, [Next]_vars, NEW r \in index \ Cleaned, r \notin Cleaned'
      PROVE  r \in index' /\ file'[r] = file[r] /\ savedFixture'[r] = savedFixture[r]
  <2>0. CASE UNCHANGED vars \/ EditFixture
    BY <2>0, <1>1 DEF vars, disk, ran, EditFixture
  <2>1. CASE \E p \in Procs : Step(p)
    <3> PICK p \in Procs : Step(p)
      BY <2>1
    <3> USE <1>1 DEF StoreInv
    <3>1. r \in Runs /\ r # None
      BY DEF TypeOK, Runs, None
    <3>2. PICK q \in Procs : own[q] = r /\ pc[q] = "done"
      BY DEF Indexed, SaverDone
    <3>3. ~(r = own[p] /\ pc[p] \in Files)
      BY <3>1, <3>2 DEF Allocated, OwnRuns, Files
    <3>4. ~(r = target[p] /\ pc[p] \in {"unlink", "deleteRow"})
      BY DEF Coherent, Cleaned
    <3>5. file'[r] = file[r]
      BY <3>1, <3>3, <3>4, FilesStep
    <3>6. r \in index'
      BY <3>4, IndexStep
    <3>7. savedFixture' = savedFixture \/ Open(p)
      BY DEF Step, ran, StartRun, StartOn, Resolve, CheckRun, ReadRun, ReadOr,
             ResolveAgain, ReadManifest, ReadSuite, Rerun, RerunFails, SkipFixtures,
             Close, Upsert, Scan, Unlink, RemoveDir, DeleteRow, Stop
    <3>8. savedFixture'[r] = savedFixture[r]
      BY <3>1, <3>3, <3>7 DEF Open, TypeOK
    <3> QED BY <3>5, <3>6, <3>8
  <2> QED BY <1>1, <2>0, <2>1 DEF Next
<1>2. StoreInv /\ [Next]_vars =>
        [\A r \in index \ Cleaned :
           r \notin Cleaned' =>
             r \in index' /\ file'[r] = file[r] /\ savedFixture'[r] = savedFixture[r]]_vars
  BY <1>1
<1> QED BY <1>2, StoreInvariant, PTL DEF Spec, StoredRunsAreImmutable

-----------------------------------------------------------------------------
(* `clean latest`. *)

(* Only its saver makes the directory of a run. *)
LEMMA DirStep ==
  ASSUME TypeOK, NEW p \in Procs, Coherent(p), Step(p)
  PROVE  \/ dir' \subseteq dir /\ pc'[p] # "deleteRow"
         \/ pc[p] \in Files /\ dir' = dir \cup {own[p]} /\ pc'[p] # "deleteRow"
         \/ /\ pc[p] \in {"scan", "unlink"} /\ pc'[p] = "deleteRow"
            /\ target'[p] = target[p] /\ dir' = dir \ {target[p]}
<1> USE DEF TypeOK, Goto, disk, local, Files
<1>1. CASE StartRun(p)
  BY <1>1 DEF StartRun
<1>2. CASE StartOn(p)
  BY <1>2 DEF StartOn
<1>3. CASE Resolve(p)
  BY <1>3 DEF Resolve
<1>4. CASE CheckRun(p)
  BY <1>4 DEF CheckRun
<1>5. CASE ReadRun(p)
  BY <1>5 DEF ReadRun, ReadOr
<1>6. CASE ResolveAgain(p)
  BY <1>6 DEF ResolveAgain
<1>7. CASE ReadManifest(p)
  BY <1>7 DEF ReadManifest, ReadOr
<1>8. CASE ReadSuite(p)
  BY <1>8 DEF ReadSuite, ReadOr
<1>9. CASE Rerun(p)
  BY <1>9 DEF Rerun
<1>10. CASE RerunFails(p)
  BY <1>10 DEF RerunFails
<1>11. CASE SkipFixtures(p)
  BY <1>11 DEF SkipFixtures
<1>12. CASE Open(p)
  BY <1>12 DEF Open
<1>13. CASE Close(p)
  BY <1>13, AfterFile DEF Close
<1>14. CASE Upsert(p)
  BY <1>14 DEF Upsert
<1>15. CASE Scan(p)
  BY <1>15 DEF Scan
<1>16. CASE Unlink(p)
  BY <1>16 DEF Unlink
<1>17. CASE RemoveDir(p)
  BY <1>17 DEF RemoveDir
<1>18. CASE DeleteRow(p)
  BY <1>18 DEF DeleteRow
<1>19. CASE Stop(p)
  BY <1>19 DEF Stop
<1> QED
  BY <1>1, <1>2, <1>3, <1>4, <1>5, <1>6, <1>7, <1>8, <1>9, <1>10, <1>11, <1>12, <1>13, <1>14, <1>15, <1>16, <1>17, <1>18, <1>19 DEF Step

(* What the clean of the latest run knows: the run is complete, its         *)
(* directory goes first and its row second, and its saver is done with it.  *)
Cleaning(p) ==
  command[p] = "clean" /\ ref[p] = LATEST =>
    /\ pc[p] = "done" => target[p] # None
    /\ target[p] # None => SaverDone(target[p])
    /\ pc[p] \in {"deleteRow", "done"} => target[p] \notin dir
    /\ pc[p] = "done" => target[p] \notin index

(* A clean keeps what it has removed so far removed. *)
LEMMA CleaningStep ==
  ASSUME StoreInv, \A q \in Procs : Cleaning(q), NEW p \in Procs, Step(p)
  PROVE  \A q \in Procs : Cleaning(q)'
<1> USE DEF StoreInv
<1> TAKE q \in Procs
<1> SUFFICES ASSUME command'[q] = "clean", ref'[q] = LATEST
             PROVE  Cleaning(q)'
  BY DEF Cleaning
<1>1. \A r \in Runs : SaverDone(r) => ~(r = own[p] /\ pc[p] \in Files \cup {"upsert"})
  BY DEF SaverDone, Allocated, OwnRuns, Runs, None, Files
<1>2. CASE q # p
  <2>1. /\ command[q] = "clean" /\ ref[q] = LATEST
        /\ pc'[q] = pc[q] /\ target'[q] = target[q]
    BY <1>2, OthersStep
  <2>2. target[q] # None => SaverDone(target[q]) /\ SaverDone(target[q])'
    BY <2>1, DoneStays DEF Cleaning
  <2>3. pc[q] \in {"deleteRow", "done"} => target[q] \in Runs /\ SaverDone(target[q])
    BY <2>1, <2>2 DEF Cleaning, Coherent, TypeOK
  <2>4. pc[q] \in {"deleteRow", "done"} => target[q] \notin dir'
    BY <2>1, <2>3, <1>1, DirStep DEF Cleaning
  <2>5. pc[q] = "done" => target[q] \notin index'
    BY <2>1, <2>3, <1>1, IndexStep DEF Cleaning
  <2> QED BY <2>1, <2>2, <2>4, <2>5 DEF Cleaning
<1>3. CASE q = p
  <2>s. \A r \in Runs : SaverDone(r) => SaverDone(r)'
    BY DoneStays
  <2>r. /\ Resolved(p) \in Runs \cup {None}
        /\ ref[p] = LATEST /\ Resolved(p) # None => SaverDone(Resolved(p))
    BY LatestRun, ResolvedRun DEF Resolved, Indexed
  <2> USE <1>3, <2>s, <2>r DEF TypeOK, Coherent, Cleaning, Goto, disk, local, Files, SaverDone
  <2>1. CASE StartRun(p)
    BY <2>1 DEF StartRun
  <2>2. CASE StartOn(p)
    BY <2>2 DEF StartOn
  <2>3. CASE Resolve(p)
    BY <2>3 DEF Resolve
  <2>4. CASE CheckRun(p)
    BY <2>4 DEF CheckRun
  <2>5. CASE ReadRun(p)
    BY <2>5 DEF ReadRun, ReadOr
  <2>6. CASE ResolveAgain(p)
    BY <2>6 DEF ResolveAgain
  <2>7. CASE ReadManifest(p)
    BY <2>7 DEF ReadManifest, ReadOr
  <2>8. CASE ReadSuite(p)
    BY <2>8 DEF ReadSuite, ReadOr
  <2>9. CASE Rerun(p)
    BY <2>9 DEF Rerun
  <2>10. CASE RerunFails(p)
    BY <2>10 DEF RerunFails
  <2>11. CASE SkipFixtures(p)
    BY <2>11 DEF SkipFixtures
  <2>12. CASE Open(p)
    BY <2>12 DEF Open
  <2>13. CASE Close(p)
    BY <2>13 DEF Close
  <2>14. CASE Upsert(p)
    BY <2>14 DEF Upsert
  <2>15. CASE Scan(p)
    BY <2>15 DEF Scan
  <2>16. CASE Unlink(p)
    BY <2>16 DEF Unlink
  <2>17. CASE RemoveDir(p)
    BY <2>17 DEF RemoveDir
  <2>18. CASE DeleteRow(p)
    BY <2>18 DEF DeleteRow
  <2>19. CASE Stop(p)
    BY <2>19 DEF Stop
  <2> QED
    BY <2>1, <2>2, <2>3, <2>4, <2>5, <2>6, <2>7, <2>8, <2>9, <2>10, <2>11, <2>12, <2>13, <2>14, <2>15, <2>16, <2>17, <2>18, <2>19 DEF Step
<1> QED BY <1>2, <1>3

(* `clean latest` that ends has removed the run for good: its saver is done *)
(* and no other process writes its files or its row.                        *)
THEOREM CleanedLatestStaysGone == Spec => []CleanedLatestIsGone
<1>1. Init => \A q \in Procs : Cleaning(q)
  BY DEF Init, Cleaning
<1>2. StoreInv /\ (\A q \in Procs : Cleaning(q)) /\ [Next]_vars =>
        (\A q \in Procs : Cleaning(q))'
  <2> SUFFICES ASSUME StoreInv, \A q \in Procs : Cleaning(q), [Next]_vars
               PROVE  \A q \in Procs : Cleaning(q)'
    OBVIOUS
  <2>1. CASE UNCHANGED vars \/ EditFixture
    BY <2>1 DEF vars, disk, ran, local, EditFixture, Cleaning, SaverDone
  <2>2. CASE \E p \in Procs : Step(p)
    BY <2>2, CleaningStep
  <2> QED BY <2>1, <2>2 DEF Next
<1>3. (\A q \in Procs : Cleaning(q)) => CleanedLatestIsGone
  BY DEF Cleaning, CleanedLatestIsGone
<1> QED BY <1>1, <1>2, <1>3, StoreInvariant, PTL DEF Spec

-----------------------------------------------------------------------------
(* Refinement. *)

(* No file of a run becomes whole once its saver is done. *)
LEMMA DoneFiles ==
  ASSUME StoreInv, NEW p \in Procs, Step(p), NEW r \in Runs, SaverDone(r)
  PROVE  \A f \in Files : file'[r][f] = "whole" => file[r][f] = "whole"
<1> USE DEF StoreInv
<1>1. ~(r = own[p] /\ pc[p] \in Files)
  BY DEF SaverDone, Allocated, OwnRuns, Runs, None, Files
<1>2. CASE file'[r] = file[r]
  BY <1>2
<1>3. CASE pc[p] = "unlink"
  <2>1. Unlink(p) \/ file' = file
    BY <1>3 DEF Step, StartRun, StartOn, Resolve, CheckRun, ReadRun, ResolveAgain,
         ReadManifest, ReadSuite, Rerun, RerunFails, SkipFixtures, Open, Close,
         Upsert, Scan, RemoveDir, DeleteRow, Stop, Files, disk
  <2>2. CASE Unlink(p)
    <3>1. PICK g \in todo[p] : file' = [file EXCEPT ![target[p]][g] = "absent"]
      BY <2>2 DEF Unlink
    <3>2. file \in [Runs -> [Files -> {"absent", "torn", "whole"}]]
      BY DEF TypeOK
    <3>3. \A f \in Files : file'[r][f] \in {file[r][f], "absent"}
      BY <3>1, <3>2
    <3> QED BY <3>3
  <2> QED BY <2>1, <2>2
<1> QED BY <1>1, <1>2, <1>3, FilesStep

(* A step changes what is visible, or lost, of one run at most. *)
LEMMA CatalogStep ==
  ASSUME StoreInv, StoreInv', NEW p \in Procs, Step(p), NEW r \in Runs
  PROVE  \/ /\ r \in Visible' <=> r \in Visible
            /\ SaverDone(r)' <=> SaverDone(r)
         \/ r = own[p] /\ pc[p] = "upsert" /\ ~SaverDone(r) /\ SaverDone(r)'
         \/ /\ r = target[p] /\ pc[p] \in {"unlink", "deleteRow"}
            /\ SaverDone(r) /\ SaverDone(r)' /\ r \in Visible /\ r \notin Visible'
<1> USE DEF StoreInv
<1>1. SaverDone(r) => SaverDone(r)'
  BY DoneStays
<1>2. SaverDone(r)' => SaverDone(r) \/ (r = own[p] /\ pc[p] = "upsert")
  <2>1. r # None
    BY DEF Runs, None
  <2>2. pc'[p] = "done" => (own'[p] = own[p] /\ pc[p] = "upsert") \/ own'[p] = None
    <3> USE DEF TypeOK, Coherent, Goto, Files, local
    <3>1. CASE StartRun(p)
      BY <3>1 DEF StartRun
    <3>2. CASE StartOn(p)
      BY <3>2 DEF StartOn
    <3>3. CASE Resolve(p)
      BY <3>3 DEF Resolve
    <3>4. CASE CheckRun(p)
      BY <3>4 DEF CheckRun
    <3>5. CASE ReadRun(p)
      BY <3>5 DEF ReadRun, ReadOr
    <3>6. CASE ResolveAgain(p)
      BY <3>6 DEF ResolveAgain
    <3>7. CASE ReadManifest(p)
      BY <3>7 DEF ReadManifest, ReadOr
    <3>8. CASE ReadSuite(p)
      BY <3>8 DEF ReadSuite, ReadOr
    <3>9. CASE Rerun(p)
      BY <3>9 DEF Rerun
    <3>10. CASE RerunFails(p)
      BY <3>10 DEF RerunFails
    <3>11. CASE SkipFixtures(p)
      BY <3>11 DEF SkipFixtures
    <3>12. CASE Open(p)
      BY <3>12 DEF Open
    <3>13. CASE Close(p)
      BY <3>13, AfterFile DEF Close
    <3>14. CASE Upsert(p)
      BY <3>14 DEF Upsert
    <3>15. CASE Scan(p)
      BY <3>15 DEF Scan
    <3>16. CASE Unlink(p)
      BY <3>16 DEF Unlink
    <3>17. CASE RemoveDir(p)
      BY <3>17 DEF RemoveDir
    <3>18. CASE DeleteRow(p)
      BY <3>18 DEF DeleteRow
    <3>19. CASE Stop(p)
      BY <3>19 DEF Stop
    <3> QED
      BY <3>1, <3>2, <3>3, <3>4, <3>5, <3>6, <3>7, <3>8, <3>9, <3>10, <3>11, <3>12, <3>13, <3>14, <3>15, <3>16, <3>17, <3>18, <3>19 DEF Step
  <2>3. PICK q \in Procs : \/ own'[q] = r /\ pc'[q] = "done"
                         \/ ~SaverDone(r)'
    BY DEF SaverDone
  <2> QED BY <2>1, <2>2, <2>3, OthersStep DEF SaverDone
<1>3. r \in Visible => SaverDone(r)
  BY DEF Visible, Indexed
<1>4. r \in Visible' => SaverDone(r)'
  BY DEF Visible, Indexed
<1>5. SaverDone(r) => ~(r = own[p] /\ pc[p] = "upsert")
  BY DEF SaverDone, Allocated, OwnRuns, Runs, None
<1>6. SaverDone(r) /\ r \in Visible' => r \in Visible
  <2>1. SaverDone(r) /\ r \in index' => r \in index
    BY <1>5, IndexStep
  <2> QED BY <2>1, DoneFiles DEF Visible, Whole, RecordFiles, Files
<1>7. r \in Visible /\ r \notin Visible' => r = target[p] /\ pc[p] \in {"unlink", "deleteRow"}
  <2>1. r \in index' \/ r \notin index \/ (r = target[p] /\ pc[p] = "deleteRow")
    BY IndexStep
  <2>2. r \in Visible => ~(r = own[p] /\ pc[p] \in Files)
    BY <1>3 DEF SaverDone, Allocated, OwnRuns, Runs, None, Files
  <2>3. \/ file'[r] = file[r]
        \/ r \notin Visible
        \/ r = target[p] /\ pc[p] = "unlink"
    BY <2>2, FilesStep
  <2> QED BY <2>1, <2>3 DEF Visible, Whole
<1> QED BY <1>1, <1>2, <1>3, <1>4, <1>5, <1>6, <1>7

(* Listing and loading runs behaves as RunCatalog says: saving publishes a  *)
(* run in one step, deleting removes it in one step, and neither comes      *)
(* back.                                                                    *)
THEOREM StoreImplementsCatalog == Spec => ImplementsCatalog
<1> USE DEF Catalog!vars
<1>1. Init => Catalog!Init
  BY DEF Init, Catalog!Init, Visible, Past, SaverDone
<1>2. StoreInv /\ StoreInv' /\ [Next]_vars => [Catalog!Next]_Catalog!vars
  <2> SUFFICES ASSUME StoreInv, StoreInv', [Next]_vars
               PROVE  [Catalog!Next]_Catalog!vars
    OBVIOUS
  <2>1. CASE UNCHANGED vars \/ EditFixture
    BY <2>1 DEF vars, disk, ran, local, EditFixture, Visible, Whole, Past, SaverDone
  <2>2. CASE \E p \in Procs : Step(p)
    <3> PICK p \in Procs : Step(p)
      BY <2>2
    <3>0. Visible \subseteq Runs /\ Visible' \subseteq Runs
      BY DEF Visible, StoreInv, TypeOK
    <3>1. \A r \in Runs :
             \/ (r \in Visible' <=> r \in Visible) /\ (r \in Past' <=> r \in Past)
             \/ /\ r = own[p] /\ pc[p] = "upsert"
                /\ r \notin Visible \cup Past /\ r \in Visible' \cup Past'
             \/ /\ r = target[p] /\ pc[p] \in {"unlink", "deleteRow"}
                /\ r \in Visible /\ r \notin Visible' /\ r \in Past'
      <4> TAKE r \in Runs
      <4>1. /\ r \in Past <=> SaverDone(r) /\ r \notin Visible
            /\ r \in Past' <=> SaverDone(r)' /\ r \notin Visible'
        BY DEF Past
      <4>2. r \in Visible => SaverDone(r)
        BY DEF Visible, Indexed, StoreInv
      <4> QED BY <4>1, <4>2, CatalogStep
    <3>2. /\ \A r \in Runs : ~(r \in Visible /\ r \in Past) /\ ~(r \in Visible' /\ r \in Past')
          /\ Past \subseteq Runs /\ Past' \subseteq Runs
      BY DEF Past
    <3> HIDE DEF Past
    <3>3. CASE \E r \in Runs :
                 /\ r = own[p] /\ pc[p] = "upsert"
                 /\ r \notin Visible \cup Past /\ r \in Visible' \cup Past'
      <4> PICK r \in Runs :
                 /\ r = own[p] /\ pc[p] = "upsert"
                 /\ r \notin Visible \cup Past /\ r \in Visible' \cup Past'
        BY <3>3
      <4>1. CASE r \in Visible'
        <5>1. Visible' = Visible \cup {r} /\ Past' = Past
          BY <3>0, <3>1, <3>2, <4>1
        <5> QED BY <5>1 DEF Catalog!Next, Catalog!Publish
      <4>2. CASE r \in Past'
        <5>1. Past' = Past \cup {r} /\ Visible' = Visible
          BY <3>0, <3>1, <3>2, <4>2
        <5> QED BY <5>1 DEF Catalog!Next, Catalog!Lose
      <4> QED BY <4>1, <4>2
    <3>4. CASE \E r \in Runs :
                 /\ r = target[p] /\ pc[p] \in {"unlink", "deleteRow"}
                 /\ r \in Visible /\ r \notin Visible' /\ r \in Past'
      <4> PICK r \in Runs :
                 /\ r = target[p] /\ pc[p] \in {"unlink", "deleteRow"}
                 /\ r \in Visible /\ r \notin Visible' /\ r \in Past'
        BY <3>4
      <4>1. Visible' = Visible \ {r} /\ Past' = Past \cup {r}
        BY <3>0, <3>1, <3>2
      <4> QED BY <4>1 DEF Catalog!Next, Catalog!Remove
    <3>5. CASE \A r \in Runs :
                 (r \in Visible' <=> r \in Visible) /\ (r \in Past' <=> r \in Past)
      <4>1. Visible' = Visible /\ Past' = Past
        BY <3>0, <3>2, <3>5
      <4> QED BY <4>1
    <3> QED BY <3>1, <3>3, <3>4, <3>5
  <2> QED BY <2>1, <2>2 DEF Next
<1> QED BY <1>1, <1>2, StoreInvariant, PTL DEF Spec, ImplementsCatalog, Catalog!Spec

-----------------------------------------------------------------------------
(* The fixtures of runs and of their reproductions. *)

(* save() has not come to the fixtures yet. *)
Uncopied(p) == pc[p] = "fixtures" /\ ~writing[p]

(* A reproduction ran on the fixtures of a run that has its own, and        *)
(* nobody will copy others over them.                                       *)
Reproducing(p) ==
  command[p] = "reproduce" /\ own[p] # None =>
    /\ target[p] <= created
    /\ usedFixture[own[p]] = savedFixture[target[p]]
    /\ file[own[p]]["fixtures"] # "absent" =>
         savedFixture[own[p]] = usedFixture[own[p]]
    /\ file[target[p]]["fixtures"] = "whole" \/ target[p] \in Cleaned
    /\ \A q \in Procs : Uncopied(q) => own[q] # target[p]

(* The fixtures are copied first, unless those of the reproduced run went. *)
Copied(p) ==
  /\ Uncopied(p) => file[own[p]]["fixtures"] = "absent"
  /\ /\ own[p] # None /\ own[p] \notin Cleaned
     /\ pc[p] \in {"manifest", "run", "results", "suite", "upsert", "done"}
     => \/ file[own[p]]["fixtures"] = "whole"
        \/ command[p] = "reproduce" /\ target[p] \in Cleaned

FixtureInv == \A p \in Procs : Reproducing(p) /\ Copied(p)

(* A version is remembered when a run is created, from the source or from   *)
(* the copy of a run that has one, and when save() comes to the fixtures.   *)
LEMMA VersionStep ==
  ASSUME TypeOK, NEW p \in Procs, Coherent(p), Step(p)
  PROVE  /\ \/ usedFixture' = usedFixture /\ own' = own /\ created' = created
            \/ /\ created < MaxRuns /\ created' = created + 1
               /\ own' = [own EXCEPT ![p] = created + 1]
               /\ savedFixture' = savedFixture /\ file' = file
               /\ target' = target
               /\ \/ /\ command'[p] = "run"
                     /\ usedFixture' = [usedFixture EXCEPT ![created + 1] = source]
                  \/ /\ pc[p] = "rerun" /\ file[target[p]]["fixtures"] = "whole"
                     /\ usedFixture' = [usedFixture EXCEPT
                                          ![created + 1] = savedFixture[target[p]]]
         /\ \/ savedFixture' = savedFixture
            \/ /\ Uncopied(p) /\ ~FixtureGone(p)
               /\ savedFixture' = [savedFixture EXCEPT ![own[p]] = FixtureVersion(p)]
<1> USE DEF TypeOK, Uncopied, disk, ran, local
<1>1. CASE StartRun(p)
  BY <1>1 DEF StartRun
<1>2. CASE StartOn(p)
  BY <1>2 DEF StartOn
<1>3. CASE Resolve(p)
  BY <1>3 DEF Resolve
<1>4. CASE CheckRun(p)
  BY <1>4 DEF CheckRun
<1>5. CASE ReadRun(p)
  BY <1>5 DEF ReadRun, ReadOr
<1>6. CASE ResolveAgain(p)
  BY <1>6 DEF ResolveAgain
<1>7. CASE ReadManifest(p)
  BY <1>7 DEF ReadManifest, ReadOr
<1>8. CASE ReadSuite(p)
  BY <1>8 DEF ReadSuite, ReadOr
<1>9. CASE Rerun(p)
  BY <1>9 DEF Rerun
<1>10. CASE RerunFails(p)
  BY <1>10 DEF RerunFails
<1>11. CASE SkipFixtures(p)
  BY <1>11 DEF SkipFixtures
<1>12. CASE Open(p)
  BY <1>12 DEF Open
<1>13. CASE Close(p)
  BY <1>13 DEF Close
<1>14. CASE Upsert(p)
  BY <1>14 DEF Upsert
<1>15. CASE Scan(p)
  BY <1>15 DEF Scan
<1>16. CASE Unlink(p)
  BY <1>16 DEF Unlink
<1>17. CASE RemoveDir(p)
  BY <1>17 DEF RemoveDir
<1>18. CASE DeleteRow(p)
  BY <1>18 DEF DeleteRow
<1>19. CASE Stop(p)
  BY <1>19 DEF Stop
<1> QED
  BY <1>1, <1>2, <1>3, <1>4, <1>5, <1>6, <1>7, <1>8, <1>9, <1>10,
     <1>11, <1>12, <1>13, <1>14, <1>15, <1>16, <1>17, <1>18, <1>19 DEF Step

(* A reproduction keeps its run and the one it reproduces. *)
LEMMA ReproductionStays ==
  ASSUME TypeOK, NEW p \in Procs, Coherent(p), Step(p), own[p] # None
  PROVE  command'[p] = command[p] /\ own'[p] = own[p] /\ target'[p] = target[p]
<1> USE DEF TypeOK, Coherent, Files, ran, local
<1>1. CASE StartRun(p)
  BY <1>1 DEF StartRun
<1>2. CASE StartOn(p)
  BY <1>2 DEF StartOn
<1>3. CASE Resolve(p)
  BY <1>3 DEF Resolve
<1>4. CASE CheckRun(p)
  BY <1>4 DEF CheckRun
<1>5. CASE ReadRun(p)
  BY <1>5 DEF ReadRun, ReadOr
<1>6. CASE ResolveAgain(p)
  BY <1>6 DEF ResolveAgain
<1>7. CASE ReadManifest(p)
  BY <1>7 DEF ReadManifest, ReadOr
<1>8. CASE ReadSuite(p)
  BY <1>8 DEF ReadSuite, ReadOr
<1>9. CASE Rerun(p)
  BY <1>9 DEF Rerun
<1>10. CASE RerunFails(p)
  BY <1>10 DEF RerunFails
<1>11. CASE SkipFixtures(p)
  BY <1>11 DEF SkipFixtures
<1>12. CASE Open(p)
  BY <1>12 DEF Open
<1>13. CASE Close(p)
  BY <1>13 DEF Close
<1>14. CASE Upsert(p)
  BY <1>14 DEF Upsert
<1>15. CASE Scan(p)
  BY <1>15 DEF Scan
<1>16. CASE Unlink(p)
  BY <1>16 DEF Unlink
<1>17. CASE RemoveDir(p)
  BY <1>17 DEF RemoveDir
<1>18. CASE DeleteRow(p)
  BY <1>18 DEF DeleteRow
<1>19. CASE Stop(p)
  BY <1>19 DEF Stop
<1> QED
  BY <1>1, <1>2, <1>3, <1>4, <1>5, <1>6, <1>7, <1>8, <1>9, <1>10,
     <1>11, <1>12, <1>13, <1>14, <1>15, <1>16, <1>17, <1>18, <1>19 DEF Step

(* A process comes to the fixtures of the run it has just created. *)
LEMMA UncopiedStep ==
  ASSUME TypeOK, NEW p \in Procs, Coherent(p), Step(p), Uncopied(p)'
  PROVE  \/ Uncopied(p) /\ own'[p] = own[p] /\ file' = file
         \/ own'[p] = created + 1 /\ file' = file
<1> USE AfterFile DEF TypeOK, Uncopied, Goto, Files, disk, ran, local
<1>1. CASE StartRun(p)
  BY <1>1 DEF StartRun
<1>2. CASE StartOn(p)
  BY <1>2 DEF StartOn
<1>3. CASE Resolve(p)
  BY <1>3 DEF Resolve
<1>4. CASE CheckRun(p)
  BY <1>4 DEF CheckRun
<1>5. CASE ReadRun(p)
  BY <1>5 DEF ReadRun, ReadOr
<1>6. CASE ResolveAgain(p)
  BY <1>6 DEF ResolveAgain
<1>7. CASE ReadManifest(p)
  BY <1>7 DEF ReadManifest, ReadOr
<1>8. CASE ReadSuite(p)
  BY <1>8 DEF ReadSuite, ReadOr
<1>9. CASE Rerun(p)
  BY <1>9 DEF Rerun
<1>10. CASE RerunFails(p)
  BY <1>10 DEF RerunFails
<1>11. CASE SkipFixtures(p)
  BY <1>11 DEF SkipFixtures
<1>12. CASE Open(p)
  BY <1>12 DEF Open
<1>13. CASE Close(p)
  BY <1>13 DEF Close
<1>14. CASE Upsert(p)
  BY <1>14 DEF Upsert
<1>15. CASE Scan(p)
  BY <1>15 DEF Scan
<1>16. CASE Unlink(p)
  BY <1>16 DEF Unlink
<1>17. CASE RemoveDir(p)
  BY <1>17 DEF RemoveDir
<1>18. CASE DeleteRow(p)
  BY <1>18 DEF DeleteRow
<1>19. CASE Stop(p)
  BY <1>19 DEF Stop
<1> QED
  BY <1>1, <1>2, <1>3, <1>4, <1>5, <1>6, <1>7, <1>8, <1>9, <1>10,
     <1>11, <1>12, <1>13, <1>14, <1>15, <1>16, <1>17, <1>18, <1>19 DEF Step

(* The fixtures of a run go by a clean of it, and come by its saver. *)
LEMMA FixtureFileStep ==
  ASSUME TypeOK, NEW p \in Procs, Coherent(p), Step(p), NEW r \in Runs
  PROVE  \/ file'[r]["fixtures"] = file[r]["fixtures"]
         \/ r = target[p] /\ pc[p] = "unlink" /\ file'[r]["fixtures"] = "absent"
         \/ /\ r = own[p] /\ Uncopied(p)
            /\ file'[r]["fixtures"] = "torn"
            /\ savedFixture'[r] = FixtureVersion(p)
         \/ /\ r = own[p] /\ pc[p] = "fixtures"
            /\ file[r]["fixtures"] = "torn" /\ file'[r]["fixtures"] = "whole"
<1> USE DEF TypeOK, Uncopied, Files, disk
<1>1. CASE StartRun(p)
  BY <1>1 DEF StartRun
<1>2. CASE StartOn(p)
  BY <1>2 DEF StartOn
<1>3. CASE Resolve(p)
  BY <1>3 DEF Resolve
<1>4. CASE CheckRun(p)
  BY <1>4 DEF CheckRun
<1>5. CASE ReadRun(p)
  BY <1>5 DEF ReadRun, ReadOr
<1>6. CASE ResolveAgain(p)
  BY <1>6 DEF ResolveAgain
<1>7. CASE ReadManifest(p)
  BY <1>7 DEF ReadManifest, ReadOr
<1>8. CASE ReadSuite(p)
  BY <1>8 DEF ReadSuite, ReadOr
<1>9. CASE Rerun(p)
  BY <1>9 DEF Rerun
<1>10. CASE RerunFails(p)
  BY <1>10 DEF RerunFails
<1>11. CASE SkipFixtures(p)
  BY <1>11 DEF SkipFixtures
<1>12. CASE Open(p)
  BY <1>12 DEF Open
<1>13. CASE Close(p)
  BY <1>13 DEF Close
<1>14. CASE Upsert(p)
  BY <1>14 DEF Upsert
<1>15. CASE Scan(p)
  BY <1>15 DEF Scan
<1>16. CASE Unlink(p)
  BY <1>16 DEF Unlink
<1>17. CASE RemoveDir(p)
  BY <1>17 DEF RemoveDir
<1>18. CASE DeleteRow(p)
  BY <1>18 DEF DeleteRow
<1>19. CASE Stop(p)
  BY <1>19 DEF Stop
<1> QED
  BY <1>1, <1>2, <1>3, <1>4, <1>5, <1>6, <1>7, <1>8, <1>9, <1>10,
     <1>11, <1>12, <1>13, <1>14, <1>15, <1>16, <1>17, <1>18, <1>19 DEF Step

(* A saver that is past the fixtures has copied them, or there were none.   *)
LEMMA CopiedSelf ==
  ASSUME TypeOK, NEW p \in Procs, Coherent(p), Saved(p), Copied(p), Reproducing(p),
         Step(p), Cleaned \ {None} \subseteq Cleaned',
         own'[p] # None, own'[p] \notin Cleaned',
         pc'[p] \in {"manifest", "run", "results", "suite", "upsert", "done"}
  PROVE  \/ file'[own'[p]]["fixtures"] = "whole"
         \/ command'[p] = "reproduce" /\ target'[p] \in Cleaned'
<1>c. own'[p] = own[p] => own[p] \notin Cleaned
  OBVIOUS
<1>t. command[p] = "reproduce" /\ own[p] # None => target[p] # None
  BY DEF Coherent
<1> USE <1>c, <1>t, AfterFile DEF TypeOK, Coherent, Saved, Copied, Goto, Files, disk, ran, local
<1>1. CASE StartRun(p)
  BY <1>1 DEF StartRun
<1>2. CASE StartOn(p)
  BY <1>2 DEF StartOn
<1>3. CASE Resolve(p)
  BY <1>3 DEF Resolve
<1>4. CASE CheckRun(p)
  BY <1>4 DEF CheckRun
<1>5. CASE ReadRun(p)
  BY <1>5 DEF ReadRun, ReadOr
<1>6. CASE ResolveAgain(p)
  BY <1>6 DEF ResolveAgain
<1>7. CASE ReadManifest(p)
  BY <1>7 DEF ReadManifest, ReadOr
<1>8. CASE ReadSuite(p)
  BY <1>8 DEF ReadSuite, ReadOr
<1>9. CASE Rerun(p)
  BY <1>9 DEF Rerun
<1>10. CASE RerunFails(p)
  BY <1>10 DEF RerunFails
<1>11. CASE SkipFixtures(p)
  BY <1>11 DEF SkipFixtures, FixtureGone, Reproducing
<1>12. CASE Open(p)
  BY <1>12 DEF Open
<1>13. CASE Close(p)
  BY <1>13 DEF Close
<1>14. CASE Upsert(p)
  BY <1>14 DEF Upsert
<1>15. CASE Scan(p)
  BY <1>15 DEF Scan
<1>16. CASE Unlink(p)
  BY <1>16 DEF Unlink
<1>17. CASE RemoveDir(p)
  BY <1>17 DEF RemoveDir
<1>18. CASE DeleteRow(p)
  BY <1>18 DEF DeleteRow
<1>19. CASE Stop(p)
  BY <1>19 DEF Stop
<1> QED
  BY <1>1, <1>2, <1>3, <1>4, <1>5, <1>6, <1>7, <1>8, <1>9, <1>10,
     <1>11, <1>12, <1>13, <1>14, <1>15, <1>16, <1>17, <1>18, <1>19 DEF Step

(* What is remembered about the fixtures survives every step. *)
LEMMA FixtureStep ==
  ASSUME StoreInv, StoreInv', FixtureInv, [Next]_vars
  PROVE  FixtureInv'
<1>1. CASE UNCHANGED vars \/ EditFixture
  BY <1>1 DEF vars, EditFixture, disk, ran, local, FixtureInv, Reproducing, Copied,
              Uncopied, Cleaned
<1>2. CASE \E p \in Procs : Step(p)
  <2> PICK p \in Procs : Step(p)
    BY <1>2
  <2>t. /\ TypeOK /\ Coherent(p) /\ Allocated /\ created \in Nat
        /\ \A q \in Procs : Coherent(q) /\ Coherent(q)' /\ own[q] \in Nat /\ own[q] <= created
        /\ \A q, s \in Procs : own[q] = own[s] /\ own[q] # None => q = s
    <3>1. TypeOK /\ Allocated /\ \A q \in Procs : Coherent(q) /\ Coherent(q)'
      BY DEF StoreInv
    <3>2. created \in Nat /\ \A q \in Procs : own[q] \in Nat
      BY <3>1, MaxRunsAssumption DEF TypeOK, Runs, None
    <3> QED BY <3>1, <3>2 DEF Allocated, OwnRuns
  <2>n. /\ None \notin Runs
        /\ created < MaxRuns => created + 1 \in Runs
        /\ \A r \in Runs : r > created => file[r]["fixtures"] = "absent"
    BY <2>t, MaxRunsAssumption DEF Runs, None, Allocated, Files
  <2>c. Cleaned \ {None} \subseteq Cleaned'
    BY <2>t, CleanedGrows
  <2>u. pc[p] = "unlink" => target[p] \in Cleaned'
    <3> SUFFICES ASSUME pc[p] = "unlink" PROVE target[p] \in Cleaned'
      OBVIOUS
    <3>1. command[p] = "clean" /\ target[p] # None
      BY <2>t DEF Coherent
    <3> QED BY <3>1, <2>t, CleanStays DEF Cleaned
  <2>1. ASSUME NEW q \in Procs
        PROVE  Reproducing(q)'
    <3> SUFFICES ASSUME command'[q] = "reproduce", own'[q] # None
                 PROVE  /\ target'[q] <= created'
                        /\ usedFixture'[own'[q]] = savedFixture'[target'[q]]
                        /\ file'[own'[q]]["fixtures"] # "absent" =>
                             savedFixture'[own'[q]] = usedFixture'[own'[q]]
                        /\ file'[target'[q]]["fixtures"] = "whole" \/ target'[q] \in Cleaned'
                        /\ \A s \in Procs : Uncopied(s)' => own'[s] # target'[q]
      BY DEF Reproducing
    <3>0. target'[q] \in Runs /\ own'[q] \in Runs
      BY DEF StoreInv, Coherent, TypeOK
    <3>1. CASE own[q] # None
      <4>1. command[q] = "reproduce" /\ own'[q] = own[q] /\ target'[q] = target[q]
        BY <2>t, <3>1, ReproductionStays, OthersStep
      <4>2. /\ own[q] \in Runs /\ target[q] \in Runs
            /\ target[q] <= created /\ own[q] <= created
            /\ usedFixture[own[q]] = savedFixture[target[q]]
            /\ file[own[q]]["fixtures"] # "absent" =>
                 savedFixture[own[q]] = usedFixture[own[q]]
            /\ file[target[q]]["fixtures"] = "whole" \/ target[q] \in Cleaned
            /\ \A s \in Procs : Uncopied(s) => own[s] # target[q]
        BY <2>t, <3>0, <3>1, <4>1 DEF FixtureInv, Reproducing
      <4>3. usedFixture'[own[q]] = usedFixture[own[q]] /\ target[q] <= created'
        <5>1. own[q] # created + 1
          BY <2>t, <4>2
        <5>2. target[q] <= created + 1
          BY <2>t, <4>2 DEF Runs
        <5> QED BY <2>t, <2>n, <4>2, <5>1, <5>2, VersionStep DEF TypeOK
      <4>4. savedFixture'[target[q]] = savedFixture[target[q]]
        BY <2>t, <4>2, VersionStep DEF TypeOK
      <4>5. file'[own[q]]["fixtures"] # "absent" =>
              savedFixture'[own[q]] = usedFixture[own[q]]
        <5>1. CASE savedFixture' = savedFixture
          <6>1. CASE file'[own[q]]["fixtures"] = file[own[q]]["fixtures"]
            BY <4>2, <5>1, <6>1
          <6>2. CASE own[q] = own[p] /\ Uncopied(p) /\ savedFixture'[own[q]] = FixtureVersion(p)
            <7>1. q = p
              BY <2>t, <3>1, <6>2
            <7> QED BY <4>1, <4>2, <6>2, <7>1 DEF FixtureVersion
          <6>3. CASE file[own[q]]["fixtures"] = "torn"
            BY <4>2, <5>1, <6>3
          <6> QED BY <2>t, <4>2, <6>1, <6>2, <6>3, FixtureFileStep
        <5>2. CASE /\ Uncopied(p)
                   /\ savedFixture' = [savedFixture EXCEPT ![own[p]] = FixtureVersion(p)]
          <6>1. CASE q = p
            <7>1. FixtureVersion(p) = savedFixture[target[p]]
              BY <4>1, <6>1 DEF FixtureVersion
            <7> QED BY <2>t, <4>1, <4>2, <5>2, <6>1, <7>1 DEF TypeOK
          <6>2. CASE q # p
            <7>1. own[q] # own[p]
              BY <2>t, <3>1, <6>2
            <7>2. savedFixture'[own[q]] = savedFixture[own[q]]
              BY <2>t, <4>2, <5>2, <7>1 DEF TypeOK
            <7>3. \/ file'[own[q]]["fixtures"] = file[own[q]]["fixtures"]
                  \/ file'[own[q]]["fixtures"] = "absent"
              BY <2>t, <4>2, <7>1, FixtureFileStep
            <7> QED BY <4>2, <7>2, <7>3
          <6> QED BY <6>1, <6>2
        <5> QED BY <2>t, <5>1, <5>2, VersionStep
      <4>6. file'[target[q]]["fixtures"] = "whole" \/ target[q] \in Cleaned'
        <5>1. target[q] # None
          BY <2>n, <4>2
        <5>2. CASE target[q] \in Cleaned
          BY <2>c, <5>1, <5>2
        <5>3. CASE file[target[q]]["fixtures"] = "whole"
          <6>1. ~(target[q] = own[p] /\ Uncopied(p))
            BY <4>2
          <6> QED BY <2>t, <2>u, <4>2, <5>3, <6>1, FixtureFileStep
        <5> QED BY <4>2, <5>2, <5>3
      <4>7. ASSUME NEW s \in Procs, Uncopied(s)'
            PROVE  own'[s] # target[q]
        <5>1. CASE s = p
          <6>1. own'[p] = created + 1 \/ (Uncopied(p) /\ own'[p] = own[p])
            BY <2>t, <4>7, <5>1, UncopiedStep
          <6>2. created + 1 # target[q]
            BY <2>t, <4>2
          <6> QED BY <4>2, <5>1, <6>1, <6>2
        <5>2. CASE s # p
          <6>1. Uncopied(s) /\ own'[s] = own[s]
            BY <2>t, <4>7, <5>2, OthersStep DEF Uncopied
          <6> QED BY <4>2, <6>1
        <5> QED BY <5>1, <5>2
      <4> QED BY <4>1, <4>2, <4>3, <4>4, <4>5, <4>6, <4>7
    <3>2. CASE own[q] = None
      <4>1. q = p
        BY <2>t, <3>2, OthersStep
      <4>2. own' # own
        BY <3>2
      <4>3. /\ created < MaxRuns /\ created' = created + 1
            /\ own'[p] = created + 1 /\ file' = file /\ target' = target
            /\ savedFixture' = savedFixture
            /\ file[target[p]]["fixtures"] = "whole"
            /\ usedFixture' = [usedFixture EXCEPT ![created + 1] = savedFixture[target[p]]]
        BY <2>t, <4>1, <4>2, VersionStep DEF TypeOK
      <4>4. target[p] \in Runs /\ target[p] <= created
        <5>1. target[p] \in Runs
          BY <3>0, <4>1, <4>3
        <5> QED BY <2>t, <2>n, <4>3, <5>1 DEF Runs
      <4>5. usedFixture'[created + 1] = savedFixture[target[p]]
        BY <2>n, <2>t, <4>3 DEF TypeOK
      <4>6. file[created + 1]["fixtures"] = "absent"
        BY <2>n, <2>t, <4>3
      <4>7. ASSUME NEW s \in Procs, Uncopied(s)'
            PROVE  own'[s] # target[p]
        <5>1. CASE s = p
          BY <2>t, <4>3, <4>4, <5>1
        <5>2. CASE s # p
          <6>1. Uncopied(s) /\ own'[s] = own[s]
            BY <2>t, <4>7, <5>2, OthersStep DEF Uncopied
          <6>2. file[own[s]]["fixtures"] = "absent"
            BY <6>1 DEF FixtureInv, Copied
          <6> QED BY <4>3, <6>1, <6>2
        <5> QED BY <5>1, <5>2
      <4>8. target[p] <= created + 1
        BY <2>t, <4>4 DEF Runs
      <4> QED BY <4>1, <4>3, <4>4, <4>5, <4>6, <4>7, <4>8
    <3> QED BY <3>1, <3>2
  <2>2. ASSUME NEW q \in Procs
        PROVE  Copied(q)'
    <3>1. ASSUME Uncopied(q)' PROVE file'[own'[q]]["fixtures"] = "absent"
      <4>0. own'[q] \in Runs
        BY <3>1 DEF StoreInv, Coherent, TypeOK, Uncopied, Files
      <4>1. CASE q = p
        <5>1. CASE Uncopied(p) /\ own'[p] = own[p] /\ file' = file
          BY <4>1, <5>1 DEF FixtureInv, Copied
        <5>2. CASE own'[p] = created + 1 /\ file' = file
          BY <2>t, <2>n, <4>0, <4>1, <5>2
        <5> QED BY <2>t, <3>1, <4>1, <5>1, <5>2, UncopiedStep
      <4>2. CASE q # p
        <5>1. Uncopied(q) /\ own'[q] = own[q]
          BY <2>t, <3>1, <4>2, OthersStep DEF Uncopied
        <5>2. file[own[q]]["fixtures"] = "absent" /\ own[q] # own[p]
          BY <2>t, <2>n, <4>0, <4>2, <5>1 DEF FixtureInv, Copied
        <5> QED BY <2>t, <4>0, <5>1, <5>2, FixtureFileStep
      <4> QED BY <4>1, <4>2
    <3>2. ASSUME own'[q] # None, own'[q] \notin Cleaned',
                 pc'[q] \in {"manifest", "run", "results", "suite", "upsert", "done"}
          PROVE  \/ file'[own'[q]]["fixtures"] = "whole"
                 \/ command'[q] = "reproduce" /\ target'[q] \in Cleaned'
      <4>0. own'[q] \in Runs
        BY <3>2 DEF StoreInv, TypeOK
      <4>1. CASE q # p
        <5>1. /\ own'[q] = own[q] /\ command'[q] = command[q] /\ target'[q] = target[q]
              /\ pc'[q] = pc[q]
          BY <2>t, <4>1, OthersStep
        <5>2. own[q] \notin Cleaned
          BY <2>c, <3>2, <5>1
        <5>3. \/ file[own[q]]["fixtures"] = "whole"
              \/ command[q] = "reproduce" /\ target[q] \in Cleaned
          BY <3>2, <5>1, <5>2 DEF FixtureInv, Copied
        <5>4. command[q] = "reproduce" => target[q] # None
          BY <2>t, <3>2, <5>1 DEF Coherent
        <5>5. own[q] # own[p]
          BY <2>t, <3>2, <4>1, <5>1
        <5>6. file[own[q]]["fixtures"] = "whole" => file'[own[q]]["fixtures"] = "whole"
          BY <2>t, <2>u, <3>2, <4>0, <5>1, <5>5, FixtureFileStep
        <5> QED BY <2>c, <5>1, <5>3, <5>4, <5>6
      <4>2. CASE q = p
        BY <2>t, <2>c, <2>u, <3>2, <4>0, <4>2, CopiedSelf DEF FixtureInv, StoreInv
      <4> QED BY <4>1, <4>2
    <3> QED BY <3>1, <3>2 DEF Copied
  <2> QED BY <2>1, <2>2 DEF FixtureInv
<1> QED BY <1>1, <1>2 DEF Next

(* A run with a row has its fixtures beside it unless they were to come     *)
(* from a run that was cleaned, and a reproduction keeps the ones it ran    *)
(* on, for any number of processes, runs and edits of the suite's fixtures. *)
THEOREM FixturesStayWithTheirRun == Spec => []FixturesAreKept
<1>1. Init => FixtureInv
  BY DEF Init, FixtureInv, Reproducing, Copied, Uncopied, None
<1>2. StoreInv /\ StoreInv' /\ FixtureInv /\ [Next]_vars => FixtureInv'
  BY FixtureStep
<1>3. StoreInv /\ FixtureInv => FixturesAreKept
  <2> SUFFICES ASSUME StoreInv, FixtureInv PROVE FixturesAreKept
    OBVIOUS
  <2>1. ASSUME NEW r \in index \ Cleaned
        PROVE  SourceCleaned(r) \/ file[r]["fixtures"] = "whole"
    <3>1. PICK p \in Procs : own[p] = r /\ pc[p] = "done"
      BY DEF StoreInv, Indexed, SaverDone
    <3>2. r # None
      BY DEF StoreInv, TypeOK, Runs, None
    <3> QED BY <3>1, <3>2 DEF FixtureInv, Copied, SourceCleaned
  <2> QED BY <2>1 DEF FixturesAreKept, IndexedRunHasFixtures,
                      ReproductionKeepsFixtures, FixtureInv, Reproducing
<1> QED BY <1>1, <1>2, <1>3, StoreInvariant, PTL DEF Spec
=============================================================================
