\* As MCVarlink, two calls: the message of the second while a thread is still
\* inside the write strand.
CONSTANTS
    Request <- MCRequest
    MaxRequests = 2
    MaxReplies = 1
    MaxCancels = 0
    CallbackMay = {}
SPECIFICATION Spec
INVARIANT MessageOutlivesReference
CHECK_DEADLOCK FALSE
