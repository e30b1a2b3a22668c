SPECIFICATION SpoolSpec
SYMMETRY UploaderSymmetry
CONSTANTS
  w1 = w1  w2 = w2  u1 = u1  u2 = u2  nobody = nobody
  Writers = {w1, w2}
  Uploaders = {u1, u2}
  MaxEvents = 5
  Together = {1, 2}
  Cap = 3
  BatchSize = 2
  ScopeEvents = {1, 2, 4}
  Poison = {2}
  Foreign = {5}
  Torn = TRUE
  Nobody = nobody
CHECK_DEADLOCK FALSE
INVARIANTS
  AcceptedSurvives
  OnlyPoisonRefused
  NeverTakenTwice
PROPERTY FlushClears
