SPECIFICATION LiveSpec
CONSTANTS
    Requests = {r1}
    Workers = {w1}
    Quotas = {0, 1, 3}
    Amounts <- AnyAmount
    Deltas <- AnyDelta
    Actuals = {0, 3}
    InitUserQuota = 4
    InitTokenQuota = 4
    SubTotal = 2
    Plans <- AllPlans
    Playground = {TRUE, FALSE}
    Unlimited = {TRUE, FALSE}
    TrustQuota = 2
    MaxFaults = 1
    MaxStalls = 1
    StallAnywhere = FALSE
    LossyOps = {"recovery"}
    Crashes = {r1}
INVARIANTS
    OutcomeMatchesCharge
    SessionMatchesRow
    WalletLedger
PROPERTIES
    DurableSpec
    EveryRowCloses
