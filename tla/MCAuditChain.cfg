SPECIFICATION Spec
CONSTANTS
    Payloads <- MCPayloads
    Events <- MCEvents
    Null = null
    Bar = "|"
    Free = free
    Ids = {1, 2, 3}
    MaxClock = 2
    MaxAnchors = 2
INVARIANTS
    LinksGoBack
    VerifyIffOrdered
    EditsAreReported
    AnchorsNamePrefix
CHECK_DEADLOCK FALSE
