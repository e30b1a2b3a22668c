SPECIFICATION JudgingSpec
CONSTANTS
  c1 = c1  c2 = c2  a1 = a1  a2 = a2  h1 = h1  none = none
  NumRules = 3
  MaxRulesJudged = 2
  Artifacts = {a1, a2}
  Applies <- AllApply
  Heads = {h1}
  NoValue = none
  Calls = {c1}
  Requests <- PlanDiffUntracked
  OverrideSets <- OverrideTwo
  MaxRounds = 1
  Overlap = TRUE
  MaxStarts = 3
CHECK_DEADLOCK FALSE
PROPERTY OverrideHonoured
