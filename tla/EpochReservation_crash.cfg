SPECIFICATION Spec
CONSTANTS
    Procs = {p1, p2}
    NoProc = NoProc
    TmpNames = {t1}
    TmpOf <- SharedTmp
    MaxEpoch = 3
    MaxSeq = 1
INVARIANTS IndInv
PROPERTIES AllocatorSpec
