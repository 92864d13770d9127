CONSTANTS
    Phones = {p1}
    Ent = ent
    HostKey = hostkey
    None = none
    MaxRev = 2
    MaxFaults = 2
    MaxGen = 5
    Nonces = {1, 2, 3, 4, 5, 6, 7, 8}
    Requests = {1, 2, 3}
SPECIFICATION PairingSpec
CHECK_DEADLOCK FALSE
INVARIANTS PairStands
PROPERTIES StoreMovesForward ChannelComesBack
