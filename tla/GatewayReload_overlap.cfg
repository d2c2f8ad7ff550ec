\* The admin page and POST /admin/reload at once, two requests of up to
\* two images each, up to two reloads, well-formed proxies.
SPECIFICATION FairSpec
CONSTANTS
    c1 = c1
    c2 = c2
    c3 = c3
    c4 = c4
    p1 = p1
    p2 = p2
    pBad = pBad
    none = none
    q1 = q1
    q2 = q2
    NoProxy = none
    ContainerEnv = none
    BootClient = 0
    Nothing = Nothing
    Reloaders = {"ui", "endpoint"}
    Configs = {c1, c2}
    Proxies = {p1, p2}
    ProxyOf <- TwoProxies
    BadProxies = {}
    Unmergeable = {}
    ClientIds = {0, 1, 2}
    Requests = {q1, q2}
    MaxImages = 2
INVARIANTS
    TypeOK
    OneGeneration
    ClosedOnlyInWindow
PROPERTIES
    NoSilentLeak
    RequestsAnswered
    ClientReopens
    PinnedRequests
CHECK_DEADLOCK FALSE
