\* A text of three bytes needs a frame of four, one more than the buffer has.
CONSTANTS
    Byte = {"a", "b"}
    NUL = "0"
    Message <- MCLongJson
    Json <- MCLongJson
    Cap = 3
    MaxMessages = 2
    MaxCancels = 0
SPECIFICATION Spec
PROPERTY EveryMessageReceived
