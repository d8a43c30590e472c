\* Every form in turn: two Saves, two openings, one change by somebody else.
CONSTANTS
    MaxSends = 2
    MaxOpens = 2
    MaxOthers = 1
SPECIFICATION Spec
INVARIANTS SavedIsShown LastWordWins PartialIsTold
PROPERTY ClosedByItsOwn
CHECK_DEADLOCK FALSE
