SPECIFICATION FairSpec
CONSTANTS
    Calls = {c1, c2, c3}
    Workers = {w1, w2}
    NoOne = NoOne
INVARIANTS SlotsCounted NoUseAfterClose
PROPERTIES PoolRefined EverybodyReturns
CHECK_DEADLOCK FALSE
