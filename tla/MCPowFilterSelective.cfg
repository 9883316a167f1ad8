SPECIFICATION Spec
CONSTANTS
    k1 = k1
    k2 = k2
    a = a
    b = b
    c1 = c1
    c2 = c2
    site = site
    open = open
    Keys = {k1, k2}
    NoKey = NoKey
    Targets = {site, open}
    BadRule = BadRule
    Categories = {"vpn", "hosting"}
    DBOpens = TRUE
    IPs = {a, b}
    NoIP = NoIP
    Conns = {c1, c2}
    NoConn = NoConn
    Origins <- BehindProxy
    NoVerdict = NoVerdict
    IPVerdict <- Verdicts
    ChallengeLifetime = 1
    ClearanceLifetime = 1
    NoToken = NoToken
    Workers = {w1}
    NoPlugin = NoPlugin
    RawConfigs <- Selective
    Overrides <- HeaderValues
    Thresholds <- ScaledThresholds
    MaxCounter = 1
    Streams = {s1}
    NoStream = NoStream
    NoSolution = NoSolution
    MaxTime = 0
    MaxChallenges = 2
    MaxClearances = 2
INVARIANTS IssuedInBounds EarnedAccess
