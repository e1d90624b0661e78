SPECIFICATION Spec
CONSTANTS
    ff = ff
    gx = gx
    gp = gp
    gs = gs
    Facts <- MCFacts
    Goals <- MCGoals
    Clauses <- SccBelow
    User = User
    None = None
    FalseMod = 16
    MaxClauses = 2
    MaxUpdates = 2
    MaxAborts = 1
    MaxNode = 2
    Inside = FALSE
INVARIANT NoDanglingTraversal
CHECK_DEADLOCK FALSE
