\* The reply to one request fails to be written while another waits in readbuf.
CONSTANTS
    Request <- MCRequest
    MaxRequests = 3
    MaxReplies = 1
    CallbackMay = {}
SPECIFICATION Spec
INVARIANT NoTerminate
CHECK_DEADLOCK FALSE
