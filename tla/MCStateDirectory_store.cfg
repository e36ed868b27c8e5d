SPECIFICATION DirectorySpec
CONSTANTS
    p1 = p1  p2 = p2
    c1 = c1  c2 = c2  c3 = c3
    bc = bc
    i1 = i1  i2 = i2
    Procs = {p1, p2}
    Contents = {c1, c2, c3}
    Suffixes = {bc}
    Handle <- SharedPrefix
    MaxTampered = 1
    Ids = {i1, i2}
    Current = "2"
    Databases <- MCDatabases
    Torn = Torn  NoFile = NoFile  NoProc = NoProc
    NoDatabase = NoDatabase  NoVersion = NoVersion  NoId = NoId
SYMMETRY Symmetry
INVARIANTS
    Backed
    VerifiedAnswers
    RefusedForAReason
    OneInvestigation
    NeverHalfMade
PROPERTIES
    StoredFilesAreImmutable
