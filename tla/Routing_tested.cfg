\* Every form of the two stages, tests, saves and restarts in any order.
SPECIFICATION Spec
CONSTANTS
    u1 = u1
    u2 = u2
    uNative = uNative
    k1 = k1
    k2 = k2
    m1 = m1
    m2 = m2
    ocr = ocr
    vlm = vlm
    code = code
    vision = vision
    text = text
    native = native
    none = none
    Stages = {ocr, vlm, code}
    KServeName <- OneKServeName
    Backends = {vision, text}
    Native = native
    Text = text
    RemoteVision = RemoteVision
    Vlm = vlm
    CodeFormula = code
    Urls = {u1, u2, uNative}
    Keys = {k1, k2}
    Models = {m1, m2, ocr, vlm, code}
    Empty = none
    DefaultEndpoint <- StageEndpoint
    DefaultMode <- StageModes
    Defaults <- DefaultFile
    Environs <- TwoEnvirons
    Forms <- SomeForms
    Absent = Absent
INVARIANTS
    ProbedIsSent
    TestedResolves
    SavedRouteUsed
    FormulasReachStage
