SPECIFICATION FairSpec
CONSTANTS
    Vendors = {"nvidia", "intel"}
    MaxEpoch = 3
    MaxChannels = 2
    MaxFaults = 3
    MaxSilence = 1
    StableFrames = 1
    MaxBackoff = 2
    LinkLost = 1
CHECK_DEADLOCK FALSE
INVARIANTS ThreadsInStep FailedPathNotReselected
PROPERTIES RecoveryEnds StreamComesBack
