\* Every frame fits, and the buffer holds several short frames or parts of
\* two: four messages, one cancel().
CONSTANTS
    Byte = {"a", "b"}
    NUL = "0"
    Message <- MCMessage
    Json <- MCJson
    Cap = 4
    MaxMessages = 4
    MaxCancels = 1
SPECIFICATION Spec
INVARIANT TypeOK
INVARIANT BytesConserved
INVARIANT EofAfterLastMessage
PROPERTY ImplementsChannel
PROPERTY EveryMessageReceived
PROPERTY CloseIsSeen
