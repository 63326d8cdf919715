CONSTANTS
    x = x
    y = y
    None = None
    Nodes = {x, y}
    MaxDeps = 2
    MaxHeight <- MCMaxHeight
    MaxBlocks = 4
    MaxLife <- MCMaxLife
    MaxPending = 1
SPECIFICATION Spec
CHECK_DEADLOCK FALSE
INVARIANTS TypeOK NoForks Recoverable NeverIll HeightsExact
