SPECIFICATION Spec
CONSTANTS
  r1 = r1
  t1 = t1
  d1 = d1
  c1 = c1
  c2 = c2
  Presets = {1, 2}
  Items = {r1}
  Derived = {}
  Template <- NoTemplate
  Type <- OneRule
  Clients = {c1}
  Edits <- RuleEdits
  Ops <- EditAndSwitch
  Env = {"Crash", "User"}
  NoFile = NoFile
  MayFail = {"Items", "Disk"}
INVARIANTS TypeOK OwnedRemembersOriginal UnownedIsOriginal
CHECK_DEADLOCK FALSE
