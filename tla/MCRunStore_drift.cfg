\* A reproduction of "latest" while another run is saved.
SPECIFICATION Spec
CONSTANTS
  p1 = p1  p2 = p2  p3 = p3
  Procs <- Three
  MaxRuns = 2
  MaxEdits = 0
SYMMETRY AnyOrderOfThree
CHECK_DEADLOCK FALSE
INVARIANT
  DriftIsOfTheSameRun
