\* A comment with two files; two deletions at a time; a sweep that looks up one
\* path in a query; two faults.
CONSTANTS
    note = note
    onTicket = {}
    File = {f1, f2}
    Comment = {note}
    ParentOf <- Parents
    Request = {r1, r2}
    Sweep = {w1}
    MIN_AGE = 1
    CHUNK = 1
    MaxFaults = 2
SPECIFICATION FairSpec
INVARIANTS RowHasFile
PROPERTIES OrphansGo
CHECK_DEADLOCK FALSE
