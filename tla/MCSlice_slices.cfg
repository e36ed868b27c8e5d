SPECIFICATION FairSpec
CONSTANTS
    t = t  a = a  b = b  c = c  d = d
    Nodes = {t, a, b, c, d}
    Graphs <- SmallOrTwoWays
    Rewritable <- Generations
    Targets = {t}
    Directions = {"backward", "forward"}
    NodeBudgets = {0, 1, 2, 3, 4, 5, 6}
    DepthBudgets = {0, 1, 2, 3, 4}
    MaxReplacements = 2
INVARIANTS
    UntruncatedIsComplete
    BoundariesAreLeftOut
    DepthBudgetIsARadius
    WithinBudget
    AnswerIsConnected
    RelationsJoinNodes
PROPERTY
    Termination
