\* Two clients, with two calls and a long one, while three interfaces are added:
\* the first two find the storage full, the third does not.
CONSTANTS
    c1 = c1
    c2 = c2
    Client <- MCClient
    Interface <- MCInterface
    Asks <- MCAsks
    MaxCalls <- MCMaxCalls
    MaxReplies = 2
    OwnerMay = {}
SPECIFICATION Spec
INVARIANT TypeOK
INVARIANT NoDanglingAccess
INVARIANT OwnReplies
INVARIANT KnownInterfaces
INVARIANT SocketFile
INVARIANT NoCallStranded
PROPERTY CallReturns

\* The server is destroyed in the end, or was never constructed.
CHECK_DEADLOCK FALSE
