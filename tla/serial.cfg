\* One MAX user, handled one update at a time, who writes from two chats and uses
\* /new and /reset while the recovery task works on two sessions at once.
CONSTANTS
    telegram = telegram  max = max  console = console
    ann = ann  m1 = m1  m2 = m2  n1 = n1  n2 = n2
    Users = {ann}
    Msgs = {m1, m2}
    News = {n1}
    Procs = {max}
    Recoverers = {max}
    SerialProcs = {max}
    Misfiled = {}
    Owner <- OneOwner
    ProcOf <- OnMax
    ChatOf <- Chats
    Chars <- Lengths
    MinChars = 2
    LogMax = 3
    Slots = 2
    MaxCrashes = 0
    MaxResets = 1
SPECIFICATION FairSpec
INVARIANTS RecoveryAccounts
PROPERTIES DebtIsPaid NewReturns
CHECK_DEADLOCK FALSE
