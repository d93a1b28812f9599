\* The same server, which is destroyed without stop() and join().
CONSTANTS
    c1 = c1
    c2 = c2
    Client <- MCClient
    Interface <- MCInterface
    Asks <- MCAsks
    MaxCalls <- MCMaxCalls
    MaxReplies = 2
    OwnerMay = {"destroy_running"}
SPECIFICATION Spec
INVARIANT NoDanglingAccess
CHECK_DEADLOCK FALSE
