\* A task beside the recovery of two sessions, one at a time, at a gate with two
\* slots.
CONSTANTS
    t1 = t1  j1 = j1  j2 = j2
    Tasks = {t1}
    MaxSteps = 2
    MaxRepair = 1
    MaxIter = 2
    Parts = 2
    Jobs = {j1, j2}
    JobSlots = 1
    Chunks = 4
    EmbedSlots = 3
    Slots = 2
    Callers <- AllCallers
SPECIFICATION FairSpec
INVARIANTS TypeOK GateKept CallsBounded
PROPERTIES PromiseKept PromiseMet
