\* As MCVarlink, with callbacks that may throw on a oneway call.
CONSTANTS
    Request <- MCRequest
    MaxRequests = 2
    MaxReplies = 1
    MaxCancels = 0
    CallbackMay = {"oneway_throws"}
SPECIFICATION Spec
INVARIANT ReplyMatchesCall
CHECK_DEADLOCK FALSE
