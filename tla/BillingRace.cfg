SPECIFICATION SceneSpec
CONSTANTS
    Requests = {r1, r2}
    Workers = {w1, w2}
    Quotas = {0, 1, 2}
    Amounts <- AnyAmount
    Deltas <- AnyDelta
    Actuals = {0, 3}
    InitUserQuota = 3
    InitTokenQuota = 4
    SubTotal = 2
    Plans <- AllPlans
    Playground = {TRUE, FALSE}
    Unlimited = {TRUE, FALSE}
    TrustQuota = 2
    MaxFaults = 1
    MaxStalls = 1
    StallAnywhere = TRUE
    LossyOps = {"recovery"}
    Crashes = {r1, r2}
INVARIANTS
    SettlementIsCommitted
    SharedFundsHold
PROPERTIES
    ChargesAtMostOnce
