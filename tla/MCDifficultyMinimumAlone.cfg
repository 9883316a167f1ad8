SPECIFICATION DifficultySpec
CONSTANTS
    k1 = k1
    Keys = {k1}
    NoKey = NoKey
    Targets = {site}
    BadRule = BadRule
    Categories = {"vpn"}
    DBOpens = TRUE
    Workers = {w1}
    NoPlugin = NoPlugin
    RawConfigs <- MinimumAlone
    Overrides <- NoHeader
    Thresholds <- ScaledThresholds
    MaxCounter = 2
INVARIANT OfferedAtLeastMinimum
