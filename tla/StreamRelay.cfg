SPECIFICATION RelaySpec
CONSTANT MaxFrames = 3
CHECK_DEADLOCK FALSE
INVARIANTS
    CompleteStreamMetered
    ErrorMeansBroken
PROPERTIES
    StreamFinalized
    ReaderEndsUnlessAbandoned
