CONSTANTS
    Tickets = {1, 2, 3}
    MaxGen = 3
    MaxFaults = 2
SPECIFICATION OutputSpec
CHECK_DEADLOCK FALSE
INVARIANTS OutputHeldOrReady
PROPERTIES OffersAreFresh OutputComesBack
