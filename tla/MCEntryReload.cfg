SPECIFICATION Spec
CONSTANTS
    m1 = m1
    m2 = m2
    u1 = u1
    Managers = {m1, m2}
    Unguarded = {u1}
    Poll = Poll
    Ha = Ha
    None = None
    Kinds = {"site", "settings", "quiet"}
    Preferences = {"auto"}
    SiteKeys = {"gateways"}
    GatewayKey = "gateways"
    NoGateway = {1}
    MaxVersion = 1
    MaxEdits = 2
    MaxFailures = 1
SYMMETRY Symmetry
VIEW View
INVARIANTS
    TypeOK
    StaleIsExplained
    ExpectingUnderLock
