SPECIFICATION Spec
CONSTANTS
    Count = 2
    Junk = Junk
    NoFile = NoFile
    Packages <- TwoPackages
    Batches = {b1, b2}
    MaxEdits = 1
    MaxCycles = 3
    MaxChanges = 1
SYMMETRY AnyBatch
INVARIANTS ArtifactExact AllOrNothing IndexListsRows RowsTruthful PublishedWhole BlockedWithCause
PROPERTIES NeverOlder
CHECK_DEADLOCK FALSE
