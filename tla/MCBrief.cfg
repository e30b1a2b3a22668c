SPECIFICATION Spec
CONSTANTS
  p1 = p1  p2 = p2  nobody = nobody  others = others  nothing = nothing
  Procs = {p1, p2}
  Agents = {"main"}
  Decisions = {"x", "y"}
  Folders = {"s", "d"}
  Streams = {"added", "used", "breached"}
  Files = {"api", "docs"}
  FolderOf <- MCFolderOf
  Governs <- MCGoverns
  Limit = 2
  Long = {"y"}
  Rounds <- MCRounds
  Earlier <- MCEarlier
  RuleSets <- MCRuleSets
  Nothing = nothing
  Nobody = nobody
  Others = others
  Record = "record"
  MaxStarts = 3
INVARIANTS
  LedgerKeeps
  ReportedOnce
  SummaryTellsNews
  WithheldWasStated
  StatedOnce
PROPERTY HooksEnd
CHECK_DEADLOCK FALSE
