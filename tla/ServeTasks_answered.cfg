\* Two requests of any kind and tenant on two tasks.
SPECIFICATION FairSpec
CONSTANTS
    t1 = t1
    t2 = t2
    red = red
    blue = blue
    q1 = q1
    q2 = q2
    Tasks = {t1, t2}
    Tenants = {red, blue}
    OwnerOf <- TwoOwners
    Endings = {"success", "failure"}
    Requests = {q1, q2}
    MaxSleeps = 1
    SingleUse = TRUE
INVARIANTS
    OwnerOnlyAnswers
    NoResultIsTrue
PROPERTIES
    EveryRequestAnswered
    FetchedIsReleased
CHECK_DEADLOCK FALSE
