\* Two calls: liveness, with either end going away at any moment.
CONSTANTS
    Request <- MCRequest
    MaxRequests = 2
    MaxReplies = 1
    MaxCancels = 1
    CallbackMay = {}
SPECIFICATION Spec
PROPERTY EveryCallEnds
\* Every call has ended and no more are made.
CHECK_DEADLOCK FALSE
