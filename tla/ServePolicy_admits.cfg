\* Every endpoint, every target allowlist with and without artifact storage.
SPECIFICATION Spec
CONSTANTS
    Null = Null
    NoKey = NoKey
    Deployments <- MCDeployments
    Options <- MCOptions
    SourceLists <- MCSourceLists
    Headers <- MCHeaders
    PresetsKnown = {"auto", "easyocr"}
    Modes = {"placeholder", "referenced", "embedded"}
INVARIANTS
    AcceptedIsServable
    OmittedTargetServed
