SPECIFICATION PassSpec
CONSTANTS
    Width = 4
    Value <- Word
    MinInt <- Lowest
    Apply <- Compute
    Inputs <- Small
    Traps <- Undefined
    Answers <- Few
    Levels = {0, 1}
    MaxIterations = 3
    Statements <- Written
    MaxStatements = 3
    Fuel = 60
    MaxVars = 8
    MaxLoops = 2
    MaxStreamGens = 2
    Features = {}
CHECK_DEADLOCK FALSE
INVARIANTS
    TypeOK
    WellFormed
    FormKept
    SameRun
PROPERTIES
    MovesOn
    BackendsAgree
