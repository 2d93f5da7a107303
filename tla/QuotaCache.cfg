SPECIFICATION LiveSpec
CONSTANTS
    u = u
    t = t
    p1 = p1
    p2 = p2
    Users = {u}
    Tokens = {t}
    Procs = {p1, p2}
    Nobody = Nobody
    NoHash = NoHash
    StripeMaps <- AnyStripes
    InitQuota = 1
    BatchModes = {TRUE, FALSE}
    FenceTTL = 3
    MaxGap = 1
    MaxOps = 2
    MaxFaults = 1
    MaxCrashes = 1
INVARIANTS LedgerConserved CommitSeesEveryDelta TokenSnapshotsFresh
PROPERTIES QuotaProgress
CHECK_DEADLOCK FALSE
