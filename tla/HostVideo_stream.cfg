SPECIFICATION FairVideoSpec
CONSTANTS
    Slots <- ThreeSlots
    Machines <- FiveMachines
    RegisteredTextureCount = 3
    KeyframeInterval = 2
    MaxSequence = 2
    CompletionCapacity = 1
    MaxContent = 3
    MaxSource = 3
    MaxRequests = 2
    MaxFaults = 1
    MaxStarts = 1
CHECK_DEADLOCK FALSE
INVARIANTS SlotExchange WireIsFaithful
PROPERTIES StreamOrdered StopReturns
