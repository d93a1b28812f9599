\* All types of up to three prefixes and values of up to two levels.
CONSTANTS
    Types <- MCTypes
    Declared <- MCDeclared
    Calls <- MCCalls
    Frames <- MCFrames
    Read <- ReadInterface
    Valid <- Validate
SPECIFICATION Spec
INVARIANT DescriptionRoundTrip
INVARIANT PlainTypesExact
INVARIANT DistinctTypesAccepted
INVARIANT LeavesTyped
INVARIANT CallArrives
INVARIANT OnlyLoneNamesRejected
\* One call is validated.
CHECK_DEADLOCK FALSE
