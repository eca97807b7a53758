SPECIFICATION Spec
INVARIANTS ViewerInStep ListsInStep NoOrphanedScopes
CONSTANTS
  p1 = p1
  p2 = p2
  h1 = h1
  h2 = h2
  s1 = s1
  s2 = s2
  u = u
  v = v
  untested = untested
  Procs = {p1, p2}
  Values = {u, v}
  Groups = {"sign"}
  Handles = {h1}
  Sockets = {s1}
  FirstSign = {untested}
  Untested = untested
  Builds = {TRUE, FALSE}
  MaxChanges = 4
  MaxLost = 1
  MaxReloads = 1
SYMMETRY Symmetric
