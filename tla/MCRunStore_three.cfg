\* Three processes and two runs: two savers and a clean, a saver, a clean and
\* a reader, a run, its reproduction and a clean of either, while the fixture
\* file is edited.  The commands end and the processes stop, so deadlock is not checked.
SPECIFICATION Spec
CONSTANTS
  p1 = p1  p2 = p2  p3 = p3
  Procs <- Three
  MaxRuns = 2
  MaxEdits = 1
SYMMETRY AnyOrderOfThree
CHECK_DEADLOCK FALSE
INVARIANTS
  IndexedRunIsWhole
  CleanedLatestIsGone
  FixturesAreKept
PROPERTIES
  StoredRunsAreImmutable
  ImplementsCatalog
