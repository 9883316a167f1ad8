SPECIFICATION Spec
CONSTANTS
    k1 = k1
    ip1 = ip1
    Keys = {k1}
    NoKey = NoKey
    Targets = {site}
    BadRule = BadRule
    Categories = {"vpn"}
    DBOpens = TRUE
    IPs = {ip1}
    NoIP = NoIP
    Conns = {c1}
    NoConn = NoConn
    Origins <- NoOrigins
    NoVerdict = NoVerdict
    IPVerdict <- NoVerdicts
    ChallengeLifetime = 1
    ClearanceLifetime = 2
    NoToken = NoToken
    NoSolution = NoSolution
    Tabs = {t1}
    Salts = {1, 2, 3, 4}
    HomeIP = ip1
    Site = site
    Deployment <- Renewing
    HonoursMaxAge = TRUE
    MaxTime = 7
    NoCookie = NoCookie
    NoChallenge = NoChallenge
    NoAnswer = NoAnswer
PROPERTY ActivityKeepsAccess
