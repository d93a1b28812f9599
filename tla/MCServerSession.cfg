\* Three requests of any kind, sent at any time, up to one reply with continues
\* to each before the final one; callbacks may throw on a oneway call,
\* and throw a system_error of their own.
CONSTANTS
    Request <- MCRequest
    MaxRequests = 3
    MaxReplies = 1
    CallbackMay = {"oneway_throws", "system_error"}
SPECIFICATION Spec
INVARIANT TypeOK
INVARIANT HalfDuplex
INVARIANT RepliesInOrder
INVARIANT NoRequestForgotten
PROPERTY EveryRequestAnswered
PROPERTY PeerCloseEndsSession
\* The session ends once its peer has closed.
CHECK_DEADLOCK FALSE
