SPECIFICATION Spec
CONSTANTS
  NumProjects = 2
  BatchSize = 2
  OutputPaths = {"root", "web"}
  NoText = 0
  Runs <- MCRuns
  Answers <- MCAnswers
INVARIANTS
  BatchesAreSound
  OrderDoesNotMatter
PROPERTIES
  ImplementsProgress
  RunEnds
CHECK_DEADLOCK FALSE
