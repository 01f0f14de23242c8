SPECIFICATION Spec
CONSTANTS
    NoSlot = NoSlot  Empty = Empty  Passphrase = Passphrase
    NoFile = NoFile  Broken = Broken
    MaxRuns = 3  MaxUpdates = 1  MaxFaults = 2
    Slots <- MCSlots
    SlotArgs <- MCSlotArgs
INVARIANTS
    SlotCheckedFirst
CHECK_DEADLOCK FALSE
