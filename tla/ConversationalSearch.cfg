SPECIFICATION FairSpec
CONSTANTS
    Queries = {q1, q2}
    Blank = Blank
    MaxEvents = 6
INVARIANTS WaitsForOne ResultsBelong RowsDrawn
PROPERTIES ComesToRest
CHECK_DEADLOCK FALSE
