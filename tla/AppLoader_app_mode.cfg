SPECIFICATION FairSpec
CONSTANTS
    Lengths = {255}
    PollLimit = 3
    TtyBuffer = 17
PROPERTY AppModeIsAnError
CHECK_DEADLOCK FALSE
