SPECIFICATION FairSpec
CONSTANTS
    Lengths <- MCLengths
    PollLimit = 3
    TtyBuffer = 17
INVARIANTS
    LoaderTypeOK
    OkMeansLoaded
    OkLeavesOnlyHello
    ErrorHasACause
PROPERTY LoadReturns
CHECK_DEADLOCK FALSE
