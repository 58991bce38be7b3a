\* Two processes that write in turn: batches of one and two texts and a delete,
\* with an error of any statement and a stop at any moment.
CONSTANTS
    telegram = telegram  max = max
    b1 = b1  b2 = b2  b3 = b3  d1 = d1
    Nobody = Nobody
    Procs = {telegram, max}
    Jobs = {b1, b2, b3, d1}
    ProcOf <- ProcOfJob
    Size <- SizeOfJob
    Serial = {telegram, max}
SPECIFICATION Spec
CHECK_DEADLOCK FALSE
INVARIANTS TypeOK StoreIsSound
PROPERTIES PromiseKept
