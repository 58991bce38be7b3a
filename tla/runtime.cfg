\* Two instances of one channel, two users, three messages; a start of each.
CONSTANTS
    old = old  new = new  h1 = h1  h2 = h2  h3 = h3  ann = ann  bob = bob
    Procs = {old, new}
    Handlers = {h1, h2, h3}
    HomeOf <- Homes
    Users = {ann, bob}
    UserOf <- Senders
    Parts <- OnePart
    MaxBoots = 1
    ThreadsEnd = TRUE
SPECIFICATION FairSpec
CHECK_DEADLOCK FALSE
INVARIANTS TypeOK UsersAgree ClosedLast
PROPERTIES StopEnds
