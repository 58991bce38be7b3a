\* Four messages of a user of MAX, or of Telegram, a window of four entries that is
\* compacted from three on, and a /new, a /reset or a restart.
CONSTANTS
    m1 = m1  m2 = m2  m3 = m3  m4 = m4
    Turns = {m1, m2, m3, m4}
    MaxMessages = 4
    Threshold = 3
    ClosesAllowed = 1
    ChannelsHere = {"max", "telegram"}
SPECIFICATION Spec
SYMMETRY AnyTurn
CHECK_DEADLOCK FALSE
INVARIANTS TypeOK WindowIsSession WindowInOrder BootstrapsFirstTurn
