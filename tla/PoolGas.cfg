SPECIFICATION Spec
CONSTANTS
    o = o
    u = u
    w = w
    n1 = n1
    n2 = n2
    Users = {o, u}
    InitialOwner = o
    NoOwner = NoOwner
    InitialConfig <- MCGasConfig
    Nominators = {n1}
    Genuine = {}
    InitStatus <- AllActive
    WalletIdx <- MCWalletIdx
    InitialRate = 4
    FeeLow = 2
    FeeHigh = 4
    MinAmountLow = 1
    FwdFee = 1
    Gas = {0, 8}
    Deposits = {12}
    CallValues = {4}
    Reports = {}
    ConfigOrders = {}
    MaxPeriod = 2
    MaxSubscriptions = 3
    MaxBalance = 28
PROPERTIES
    PaymentsAreRedemptions
