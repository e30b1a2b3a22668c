SPECIFICATION DeviceFairSpec
CONSTANTS
  absent = absent  never = never
  Lifetimes <- LifetimesOfOne
  Intervals <- IntervalsOfOne
  NoInterval = absent
  DefaultInterval = 2
  SlowDownBy = 2
  Latency = 1
  Lateness = 1
  MaxClock = 60
  Never = never
CHECK_DEADLOCK FALSE
INVARIANT ExpiredMeansExpired
PROPERTIES
  PollsArePatient
  SignInEnds
