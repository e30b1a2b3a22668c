SPECIFICATION Spec
SYMMETRY ProcSymmetry
CONSTANTS
  p1 = p1  p2 = p2  p3 = p3  a = a  b = b  hole = hole  absent = absent
  Procs = {p1, p2}
  Bytes = {a, b}
  Payloads <- LongAndShort
  Hole = hole
  Absent = absent
  Locked = TRUE
  MaxStarts = 6
CHECK_DEADLOCK FALSE
INVARIANTS
  NeverPartial
  RemovedForGood
PROPERTIES
  OkMeansMine
  ImplementsAtomicFile
