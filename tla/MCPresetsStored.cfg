SPECIFICATION Spec
CONSTANTS
  r1 = r1
  t1 = t1
  d1 = d1
  c1 = c1
  c2 = c2
  Presets = {1, 2}
  Items = {r1, t1}
  Derived = {d1}
  Template <- MCTemplate
  Type <- RuleAndTemplate
  Clients = {c1}
  Edits <- MCEdits
  Ops <- NoDeletion
  Env = {"Crash"}
  NoFile = NoFile
  MayFail = {}
INVARIANTS StoredAtRest OwnerIsActive
PROPERTIES UnforcedLeavesOthers
CHECK_DEADLOCK FALSE
