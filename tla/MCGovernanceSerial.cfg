SPECIFICATION Spec
VIEW SerialView
CONSTANTS
  c1 = c1  c2 = c2  a1 = a1  a2 = a2  h1 = h1  none = none
  NumRules = 3
  MaxRulesJudged = 2
  Artifacts = {a1, a2}
  Applies <- AllApply
  Heads = {h1}
  NoValue = none
  Calls = {c1}
  Requests <- PlanPlanDiff
  OverrideSets <- OverrideFirst
  MaxRounds = 1
  Overlap = FALSE
  MaxStarts = 4
CHECK_DEADLOCK FALSE
INVARIANTS
  NoRuleStarves
PROPERTIES
  OverrideHonoured
  BudgetedDeny
  AtomicSession
