SPECIFICATION FairDifficultySpec
CONSTANTS
    k1 = k1
    Keys = {k1}
    NoKey = NoKey
    Targets = {site}
    BadRule = BadRule
    Categories = {"vpn"}
    DBOpens = TRUE
    Workers = {w1, w2}
    NoPlugin = NoPlugin
    RawConfigs <- Rollout
    Overrides <- HeaderValues
    Thresholds <- ScaledThresholds
    MaxCounter = 5
INVARIANTS DifficultyTypeOK OfferedInBounds BumpAtMostSix
PROPERTIES OwnPressureOnly PressurePasses
