SPECIFICATION FairSpec
CONSTANTS
    a1 = a1  a2 = a2  k1 = k1  k2 = k2
    luks = luks  fresh = fresh  short = short
    r1 = r1
    NoKey = NoKey  NoPass = NoPass  NoRand = NoRand  Empty = Empty
    Apps <- MCApps
    Keys <- MCKeys
    BakedKey <- MCBakedKey
    Pass <- MCPass
    PassLen <- MCPassLen
    Enrolled <- MCEnrolled
    Rand <- MCRand
    Slots <- MCSlots
    Headers <- MCHeaders
INVARIANTS
    EnrollTypeOK
    FramingInSync
    NoMutualWait
    ReportsAreTrue
PROPERTIES
    RefinesEnrollment
    EnrollmentEnds
CHECK_DEADLOCK FALSE
