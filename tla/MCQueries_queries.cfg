SPECIFICATION QuerySpec
CONSTANTS
    arg = arg  call = call  phi = phi  store = store  ret1 = ret1  ret2 = ret2
    null = null  f = f  g = g
    Nodes <- MCNodes
    Graphs <- MCGraphs
    Rewritable <- MCGraphs
    Targets = {arg}
    Directions = {"backward"}
    NodeBudgets = {0}
    DepthBudgets = {0}
    MaxReplacements = 2
    Ordinals <- MCOrdinals
    Opcode <- MCOpcode
    Callees <- MCCallees
    Located = {ret1, call}
    Null = null
    All = All
    Requests <- MCRequests
INVARIANTS
    CompleteUnlessTruncated
    CutsAreReported
    EvidenceCovers
