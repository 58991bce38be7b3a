\* Two batches in two threads of one process.
CONSTANTS
    telegram = telegram  max = max
    b1 = b1  b2 = b2  b3 = b3  d1 = d1
    Nobody = Nobody
    Procs = {telegram}
    Jobs = {b1, b2}
    ProcOf <- OneProcess
    Size <- TwoEach
    Serial = {}
SPECIFICATION Spec
CHECK_DEADLOCK FALSE
INVARIANTS BatchWhole
