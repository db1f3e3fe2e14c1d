SPECIFICATION Spec
\* A test that has passed stops.
CHECK_DEADLOCK FALSE
CONSTANTS
  Absent = Absent
INVARIANTS
  EveryTestPasses
