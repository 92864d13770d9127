SPECIFICATION Spec
CONSTANTS
    Tickets <- MCTickets
    Skews <- MCSkews
    Grace = 1
    MaxTtl = 3
    MaxEpoch = 6
    MaxChannels = 2
    MaxBackSteps = 1
CHECK_DEADLOCK FALSE
INVARIANTS OneChainServes
PROPERTIES EndedLeaseStaysEnded
