SPECIFICATION Spec
CONSTANTS
    MaxEpoch = 2
    MaxSeq = 1
    Kinds = {"idr", "p", "repeated_idr", "repeat"}
    Bodies = {"a"}
    MaxStarts = 2
    MaxInflight = 1
CHECK_DEADLOCK FALSE
INVARIANTS ReceiverInv
PROPERTIES ReferenceChain EpochSwitch
