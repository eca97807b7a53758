SPECIFICATION Spec
SYMMETRY Symmetric
INVARIANTS ConnectionInStep SameLibraries
CONSTANTS
  l1 = l1
  l2 = l2
  u = u
  v = v
  Libs = {l1, l2}
  Values = {u, v}
  Builds = {TRUE, FALSE}
  MaxChanges = 5
  MaxLost = 2
