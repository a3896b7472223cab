SPECIFICATION FairSpec
CONSTANTS
    m1 = m1
    m2 = m2
    u1 = u1
    Managers = {m1}
    Unguarded = {u1}
    Poll = Poll
    Ha = Ha
    None = None
    Kinds = {"site", "device"}
    Preferences = {"auto", "gateway"}
    SiteKeys = {"gateways"}
    GatewayKey = "gateways"
    NoGateway = {1}
    MaxVersion = 1
    MaxEdits = 1
    MaxFailures = 1
PROPERTIES
    Converges
    SessionsEnd
