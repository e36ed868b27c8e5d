SPECIFICATION Spec
CONSTANTS
    b1 = b1  b2 = b2  v1 = v1  v2 = v2  d1 = d1  d2 = d2
    Procs = {p1, p2}
    Hosts = {"codex"}
    Dirs = {d1}
    Bundles = {b1}
    Versions = {v1}
    VersionOf <- MCVersionOf
    Commands <- MCRivals
    Absent = Absent  Torn = Torn  Remnant = Remnant  Foreign = Foreign
    NoEntry = NoEntry  NoProc = NoProc
PROPERTIES
    ForeignSkillKept
SYMMETRY Symmetry
