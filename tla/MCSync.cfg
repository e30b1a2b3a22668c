\* One repository, one format with a nested file, up to two syncs.
CONSTANTS
  s1 = s1
  r1 = r1
  claude = claude
  agents = agents
  root = root
  nested = nested
  agentsRoot = agentsRoot
  a1 = a1
  a2 = a2
  t1 = t1
  t2 = t2
  Similar <- MCSimilar
  Size <- MCSize
  CharLimit = 4
  MaxManaged = 4
  Syncs = {s1}
  Repos = {r1}
  Formats = {claude}
  RootFile <- MCRootFile
  Paths = {root, nested}
  FormatOf <- MCFormatOf
  TargetFiles <- MCTargetFiles
  Adrs = {a1, a2}
  Inline = {a1, a2}
  Offers <- MCOffers
  Answers <- MCAnswers
  Raw <- MCRaw
  Bulky = {}
  Options <- MCOptions
  Texts = {t1}
  NoFile = NoFile
  Nothing = Nothing
  Nobody = Nobody
  MaxSyncs = 2
SPECIFICATION Spec
INVARIANTS
  UserTextSurvives
  FileSaysWhatWasAgreed
CHECK_DEADLOCK FALSE
