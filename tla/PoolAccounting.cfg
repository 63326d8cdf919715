SPECIFICATION Spec
CONSTANTS
    o = o
    u = u
    w = w
    n1 = n1
    n2 = n2
    Users = {o, u, w}
    InitialOwner = o
    NoOwner = NoOwner
    InitialConfig <- MCConfig
    Nominators = {n1}
    Genuine = {}
    InitStatus <- AllActive
    WalletIdx <- MCWalletIdx
    InitialRate = 6
    FeeLow = 2
    FeeHigh = 4
    MinAmountLow = 1
    FwdFee = 1
    Gas = {3}
    Deposits = {17}
    CallValues = {3}
    Reports = {}
    ConfigOrders = {}
    MaxPeriod = 3
    MaxSubscriptions = 4
    MaxBalance = 54
INVARIANTS
    TypeOK
    RedemptionRateKnown
    SubscriptionStates
    DepositsCoverSubscriptions
    UnitsCoverSubscriptions
PROPERTIES
    ImplementsLedger
