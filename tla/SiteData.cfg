SPECIFICATION Spec
CONSTANTS
    Count = 3
    Contents = {base, new}
    Base = base
    Gone = gone
    MaxEdits = 2
INVARIANTS ArchiveExact AllOrNothing
PROPERTIES TransferRefined
