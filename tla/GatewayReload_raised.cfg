\* The admin page saves a proxy that the new HTTP client refuses.
SPECIFICATION Spec
CONSTANTS
    c1 = c1
    c2 = c2
    c3 = c3
    c4 = c4
    p1 = p1
    p2 = p2
    pBad = pBad
    none = none
    q1 = q1
    q2 = q2
    NoProxy = none
    ContainerEnv = none
    BootClient = 0
    Nothing = Nothing
    Reloaders = {"ui"}
    Configs = {c1, c2, c3, c4}
    Proxies = {p1, p2, pBad}
    ProxyOf <- MixedProxies
    BadProxies = {pBad}
    Unmergeable = {c4}
    ClientIds = {0, 1, 2}
    Requests = {q1}
    MaxImages = 1
INVARIANTS
    UsableBetweenReloads
CHECK_DEADLOCK FALSE
