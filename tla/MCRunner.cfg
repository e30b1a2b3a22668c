SPECIFICATION FairSpec
CONSTANTS
  limit = limit  balance = balance  tool = tool  silent = silent
  Messages = {limit, balance, tool}
  Limits = {limit}
  Credit = {balance}
  Exempt = {tool}
  RepeatAt = 2
  Silent = silent
  MaxLines = 4
CHECK_DEADLOCK FALSE
INVARIANTS
  BlameIsDeserved
  ResultStands
  LoopIsNamed
PROPERTY RunEnds
