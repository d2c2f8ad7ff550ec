\* Two presses on the buttons of one page, two tasks.
SPECIFICATION FairSpec
CONSTANTS
    t1 = t1
    t2 = t2
    anyone = anyone
    p1 = p1
    c1 = c1
    c2 = c2
    NoTask = NoTask
    Tasks = {t1, t2}
    Tenants = {anyone}
    OwnerOf <- OneOwner
    Endings = {"success", "failure"}
    Runs = {c1, c2}
    Pages = {p1}
    PageOf <- OnePage
    MaxFetches = 3
    SingleUse = TRUE
INVARIANTS
    WaitsForItsOwn
    GivesUpForAReason
PROPERTIES
    RunsEnd
CHECK_DEADLOCK FALSE
