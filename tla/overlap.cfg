\* One Telegram user: a message and two /new that may all overlap, a full log,
\* one restart, and two processes that both recover the journal.
CONSTANTS
    telegram = telegram  max = max  console = console
    ann = ann  m1 = m1  m2 = m2  n1 = n1  n2 = n2
    Users = {ann}
    Msgs = {m1}
    News = {n1, n2}
    Procs = {telegram, max}
    Recoverers = {telegram, max}
    SerialProcs = {}
    Misfiled = {}
    Owner <- OneOwner
    ProcOf <- OnTelegram
    ChatOf <- Chats
    Chars <- Lengths
    MinChars = 2
    LogMax = 1
    Slots = 1
    MaxCrashes = 1
    MaxResets = 0
SPECIFICATION Spec
SYMMETRY NewSymmetry
INVARIANTS TypeOK ArchivedRowsAreKept BatchesAreOneSession SessionLogComplete
CHECK_DEADLOCK FALSE
