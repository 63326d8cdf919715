SPECIFICATION Spec
CONSTANTS
    o = o
    u = u
    w = w
    n1 = n1
    n2 = n2
    Users = {o, u}
    InitialOwner = o
    NoOwner = NoOwner
    InitialConfig <- MCConfig
    Nominators = {n1, n2}
    Genuine = {n1}
    InitStatus <- AllActive
    WalletIdx <- MCWalletIdx
    InitialRate = 7
    FeeLow = 3
    FeeHigh = 4
    MinAmountLow = 1
    FwdFee = 1
    Gas = {3}
    Deposits = {17}
    CallValues = {2, 3}
    Reports = {7}
    ConfigOrders <- MCConfigOrders
    MaxPeriod = 2
    MaxSubscriptions = 3
    MaxBalance = 38
INVARIANTS
    ForeignStaysForeign
PROPERTIES
    ClosedPeriodsFrozen
    NotDriedOut
    OwnershipTakesTwoSteps
