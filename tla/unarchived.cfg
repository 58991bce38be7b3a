\* A Telegram message is answered while /new archives its session.
CONSTANTS
    telegram = telegram  max = max  console = console
    ann = ann  m1 = m1  m2 = m2  n1 = n1  n2 = n2
    Users = {ann}
    Msgs = {m1, m2}
    News = {n1}
    Procs = {telegram}
    Recoverers = {}
    SerialProcs = {}
    Misfiled = {}
    Owner <- OneOwner
    ProcOf <- OnTelegram
    ChatOf <- Chats
    Chars <- Lengths
    MinChars = 2
    LogMax = 9
    Slots = 1
    MaxCrashes = 0
    MaxResets = 0
SPECIFICATION Spec
CHECK_DEADLOCK FALSE
INVARIANT JournalUntilArchived
