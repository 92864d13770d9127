--------------------------- MODULE MCUsageMetering ---------------------------
EXTENDS UsageMetering, TLC

\* A card with one full and one short lease left, and a permanent one.
Metered   == [kind |-> "metered", seconds |-> 3]
Permanent == [kind |-> "permanent", seconds |-> 0]

AnyCard == {Metered, Permanent}

\* The bound of the clock depends on what the administration has done: MaxTime
\* while nothing changed, LaterTime afterwards. A permanent card charges nothing,
\* so PermanentTime is enough to see its lease renewed and expired.
LaterTime == 1
PermanentTime == 3
LongOrChanged ==
    /\ ent.rv > 1 => clock <= LaterTime
    /\ IsPermanent(ent) => clock <= PermanentTime

RequestSymmetry == Permutations(Requests)
=============================================================================
