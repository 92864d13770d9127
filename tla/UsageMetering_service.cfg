SPECIFICATION Spec
CONSTANTS
    Requests = {r1, r2}
    HbIds = {h1}
    Pairs = {p1, p2}
    Cards <- AnyCard
    TTL = 2
    Window = 1
    Grace = 1
    ChallengeTTL = 1
    Lag = 1
    MaxTime = 4
    MaxRv = 3
    None = None
SYMMETRY RequestSymmetry
CONSTRAINT LongOrChanged
CHECK_DEADLOCK FALSE
INVARIANTS TicketsPaidOnce LedgerBalances IndInv
PROPERTIES CancelIsFinal ImplementsMeter
