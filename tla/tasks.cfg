\* Two tasks of a MAX user whose limit is one, a cancellation at any time, and a
\* Telegram process that runs the tasks too; both may stop anywhere.
CONSTANTS
    telegram = telegram  max = max  ann = ann  bob = bob
    t1 = t1  t2 = t2  c1 = c1
    Procs = {telegram, max}
    SerialProcs = {max}
    Tasks = {t1, t2}
    Cancels = {c1}
    Users = {ann, bob}
    UserOf <- OneUser
    ProcOf <- InMax
    Via <- WithCommand
    ByOf <- ByOwner
    AtOf <- AtMax
    TargetOf <- OfFirst
    MaxJobs = 1
    Nobody = Nobody
SPECIFICATION FairSpec
CHECK_DEADLOCK FALSE
INVARIANTS TypeOK TableIsScheduled LimitKept
PROPERTIES BookKept BookEnds CancelledFallsSilent
