SPECIFICATION FairSpec
CONSTANTS
  r1 = r1
  t1 = t1
  d1 = d1
  c1 = c1
  c2 = c2
  Presets = {1, 2}
  Items = {r1}
  Derived = {}
  Template <- NoTemplate
  Type <- OneRule
  Clients = {c1, c2}
  Edits <- RuleEdits
  Ops <- WalkAndErase
  Env = {}
  NoFile = NoFile
  MayFail = {}
PROPERTIES RequestsFinish
CHECK_DEADLOCK FALSE
