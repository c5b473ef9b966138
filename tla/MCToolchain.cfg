SPECIFICATION Spec
CONSTANTS
    Starts <- AllStarts
    Lines <- AllLines
    Runtime <- CcRuntime
CHECK_DEADLOCK FALSE
INVARIANTS
    TypeOK
    Decodes
    RoundTrip
    Reached
