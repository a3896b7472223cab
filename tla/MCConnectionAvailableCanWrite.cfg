SPECIFICATION Spec
CONSTANTS
    c1 = c1
    c2 = c2
    c3 = c3
    s1 = s1
    s2 = s2
    s3 = s3
    s4 = s4
    Clients = {c1, c2, c3}
    Sockets = {s1, s2, s3, s4}
    None = None
    Preferences = {"auto", "gateway", "ble"}
    MaxFailures = 3
INVARIANT AvailableCanWrite
