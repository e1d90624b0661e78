SPECIFICATION Spec
CONSTANTS
    ff = ff
    gx = gx
    gp = gp
    gs = gs
    Facts <- MCFacts
    Goals <- MCGoals
    Clauses <- SccBelow
    User = User
    None = None
    FalseMod = 16
    MaxClauses = 2
    MaxUpdates = 2
    MaxAborts = 1
    MaxNode = 2
    Inside = TRUE
INVARIANT TypeOK
INVARIANT EdgesMatch
INVARIANT CountsInvalidSources
PROPERTY ImplementsViews
PROPERTY QueryEnds
CHECK_DEADLOCK FALSE
