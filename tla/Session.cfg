SPECIFICATION MCSpec
CONSTANTS
    N = 3
    Weight <- MCWeight
    RoundCandidates = 1
    MaxRoundAttempts = 1
    None = None
    Atts = {4, 5}
    MaxRounds = 1
CHECK_DEADLOCK FALSE
INVARIANTS Agreement ChecksHold CommittedApproved MergeCommutes
PROPERTIES Reproducible ImplementsVoting
