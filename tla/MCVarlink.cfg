\* Three calls, at most one of them with the more flag and at most one oneway,
\* and up to one reply with continues.
CONSTANTS
    Request <- MCRequest
    MaxRequests = 3
    MaxReplies = 1
    MaxCancels = 1
    CallbackMay = {}
SPECIFICATION Spec
CONSTRAINT MixedCalls
INVARIANT TypeOK
INVARIANT ReplyMatchesCall
INVARIANT RepliesComplete
INVARIANT SentInCallOrder
INVARIANT ClientOwnsWire
INVARIANT NoPipelining
INVARIANT DeliveredInOrder
INVARIANT NoMutualWait
PROPERTY ImplementsRemoteCalls
\* Every call has ended and no more are made.
CHECK_DEADLOCK FALSE
