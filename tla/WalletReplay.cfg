SPECIFICATION Spec
CONSTANTS
    PoolCommands = {p1, p2}
    Transfers = {t1, t2}
    NoCommand = NoCommand
    FixedAddress = fixed
    Amounts = {1, 3}
    PoolGrams = 1
    Values = {2, 3}
    Fees = {1, 2}
    AcceptFee = 1
    FwdFee = 1
    Timeout = 1
    Forever = 100
    MaxSeqno = 3
    MaxTime = 2
    MaxBalance = 5
SYMMETRY MCSymmetry
INVARIANTS TypeOK OneCommandPerSeqno PaidOnce
