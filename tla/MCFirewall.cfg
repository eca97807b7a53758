SPECIFICATION Spec
CONSTANTS
    good = good
    rogue = rogue
    moved = moved
    app = app
    other = other
    Guids = {1, 2, 3, 4}
    Random = {3, 4}
    Kinds = {good, rogue, moved}
    Progs = {app, other}
    Prog <- MCProg
    Allows = {good, rogue}
    Agreed = {good}
    Settings <- Mixed
    Starts <- MCStarts
    MaxRules = 8
    MaxOutside = 2
INVARIANTS ApprovedWasAgreed MirrorsWindows GuardHolds AgreedKept
CHECK_DEADLOCK FALSE
PROPERTY AnswersOnlyOthers
