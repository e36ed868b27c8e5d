SPECIFICATION Spec
CONSTANTS
    old = old  new = new
    Modules <- Confused
    Versions = {old, new}
    Emits <- MCEmits
    NoFunc = NoFunc
    Exit = Exit
INVARIANT
    SnapshotIsTheBody
