\* A photo of one user, two attachments of one name, one tool call,
\* /new and /reset at any time and one restart.
CONSTANTS
    ann = ann  bob = bob
    photo = photo  mail1 = mail1  mail2 = mail2
    p1 = p1  p3 = p3
    c1 = c1
    Nobody = Nobody  None = None  Absent = Absent  Partial = Partial
    Users = {ann, bob}
    Uploads = {photo}
    Fetches = {mail1, mail2}
    Calls = {c1}
    Paths = {p1, p3}
    OwnerOf <- Files
    PathOf <- Places
    DirOf <- Dirs
    Images = {p1}
    MaxRestarts = 1
SPECIFICATION Spec
CHECK_DEADLOCK FALSE
INVARIANTS TypeOK ReadsWhatWasNamed JournaledNamesResolve
PROPERTIES FilesGoByOwner
