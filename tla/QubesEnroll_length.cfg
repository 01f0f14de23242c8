SPECIFICATION Spec
CONSTANTS
    a1 = a1  a2 = a2  k1 = k1  k2 = k2
    luks = luks  fresh = fresh  short = short  long = long
    r1 = r1
    NoKey = NoKey  NoPass = NoPass  NoRand = NoRand  Empty = Empty  NoSlot = NoSlot
    Apps <- MCApps
    Keys <- MCKeys
    BakedKey <- MCBakedKey
    Pass <- MCPass
    PassLen <- MCPassLen
    Enrolled <- MCEnrolled
    Rand <- MCRand
    Slots <- MCSlots
    Headers <- MCHeaders
    SlotArgs <- MCSlotArgs
INVARIANTS
    WhatWasTypedArrives
CHECK_DEADLOCK FALSE
