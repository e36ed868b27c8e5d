SPECIFICATION Spec
CONSTANTS
    old = old  new = new
    Modules <- MCModules
    Versions = {old, new}
    Emits <- MCEmits
    NoFunc = NoFunc
    Exit = Exit
INVARIANTS
    SnapshotIsTheBody
    GuardsAreExact
    UnguardedIsUnconditional
PROPERTY
    OthersUntouched
