\* Two clients on one task.
SPECIFICATION FairSpec
CONSTANTS
    t1 = t1
    red = red
    blue = blue
    asker = asker
    silent = silent
    Nobody = Nobody
    Tasks = {t1}
    Tenants = {red, blue}
    OwnerOf <- RedTask
    Endings = {"success"}
    Sockets = {asker, silent}
    Chatty = {asker}
INVARIANTS
    TypeOK
    OwnerOnly
    WaitingIsReachable
    NoDeadSubscriber
PROPERTIES
    AskersAreClosed
    ListenersAreClosed
CHECK_DEADLOCK FALSE
