SPECIFICATION FairSpec
CONSTANTS
    a1 = a1  a2 = a2  k1 = k1  k2 = k2
    right = right  wrong = wrong  short = short
    r1 = r1  r2 = r2
    NoKey = NoKey  NoPass = NoPass  NoRand = NoRand
    Apps <- MCApps
    Keys <- MCKeys
    BakedKey <- MCBakedKey
    Pass <- MCPass
    PassLen <- MCPassLen
    Enrolled <- MCEnrolled
    Rand <- MCRandOne
PROPERTIES
    GateReleasesBoot
    UnplugReleasesBoot
CHECK_DEADLOCK FALSE
