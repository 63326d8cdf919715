SPECIFICATION Spec
CONSTANTS
    Keys = {1, 2}
    a1 = a1
    a2 = a2
    Addrs = {a1, a2}
    Stakers <- MCStakers
    ElectFor = 3
    BeginBefore = 3
    EndBefore = 2
    StakeHeld = 1
    MaxValidators = 2
    MinValidators = 2
    MinStake = 2
    MaxStake = 5
    MinTotalStake = 2
    MaxStakeFactor = 6
    FactorOne = 2
    Share = 4
    WeightOne = 16
    BonusShare = 2
    Grace = 1
    ConfirmValue = 1
    NoElect = NoElect
    NoVset = NoVset
    Values = {4}
    Factors = {2}
    Fees = {4}
    Confirms = {TRUE}
    VsetValue = 1
    Genesis <- MCGenesis
    MaxGap = 2
    MaxTime = 11
    MaxDelay = 3
    MaxBalance = 17
INVARIANT
    StakesKept
