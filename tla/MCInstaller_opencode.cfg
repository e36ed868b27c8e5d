SPECIFICATION Spec
CONSTANTS
    b1 = b1  b2 = b2  v1 = v1  v2 = v2  d1 = d1  d2 = d2
    Procs = {p1}
    Hosts = {"opencode"}
    Dirs = {d1, d2}
    Bundles = {b1, b2}
    Versions = {v1, v2}
    VersionOf <- MCVersionOf
    Commands <- MCCommands
    Absent = Absent  Torn = Torn  Remnant = Remnant  Foreign = Foreign
    NoEntry = NoEntry  NoProc = NoProc
INVARIANTS
    RegisteredBinariesExist
    SuccessIsHealthy
    SuccessIsRegistered
    DoctorVouches
PROPERTIES
    EntriesKeptUnlessForced
