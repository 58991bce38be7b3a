\* Three updates of MAX, one of Telegram or two lines of the console, replies of
\* one or two parts, two restarts.
CONSTANTS
    Loads <- OneChannel
    MaxSent = 3
    MaxParts = 2
    MaxRestarts = 2
SPECIFICATION FairSpec
CHECK_DEADLOCK FALSE
INVARIANTS TypeOK MaxLosesNothing RepeatsNeedRestart ReplyReadsInOrder
PROPERTIES MessagesAreServed
