SPECIFICATION FairSpec
CONSTANTS
    NoSlot = NoSlot  Empty = Empty  Passphrase = Passphrase
    NoFile = NoFile  Broken = Broken
    MaxRuns = 3  MaxUpdates = 1  MaxFaults = 2
    Slots <- MCSlots
    SlotArgs <- MCSlotArgs
INVARIANTS
    ProvisioningTypeOK
    CompletedRunHolds
    Recoverable
PROPERTIES
    RerunCompletes
    KillLeavesAWayIn
CHECK_DEADLOCK FALSE
