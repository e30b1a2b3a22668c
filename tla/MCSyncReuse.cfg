\* One repository and two formats; two syncs.
CONSTANTS
  s1 = s1
  r1 = r1
  claude = claude
  agents = agents
  root = root
  nested = nested
  agentsRoot = agentsRoot
  a1 = a1
  a2 = a2
  t1 = t1
  t2 = t2
  Similar <- MCSimilar
  Size <- MCSize
  CharLimit = 6
  MaxManaged = 4
  Syncs = {s1}
  Repos = {r1}
  Formats = {claude, agents}
  RootFile <- MCRootFile
  Paths = {root, agentsRoot}
  FormatOf <- MCFormatOf
  TargetFiles <- RootOnly
  Adrs = {a1, a2}
  Inline = {a1, a2}
  Offers <- MCOffers
  Answers <- TwoFormatAnswers
  Raw <- MCRaw
  Bulky = {}
  Options <- MCOptions
  Texts = {t1}
  NoFile = NoFile
  Nothing = Nothing
  Nobody = Nobody
  MaxSyncs = 2
SPECIFICATION Spec
PROPERTY OwnFormatReused
CHECK_DEADLOCK FALSE
