\* Three tickets, a page of one row in both lists; one click to another URL and one
\* change or fault beside Back, Load more and late answers.
CONSTANTS
    LastTicket = 3
    LIMIT = 1
    PAGE_SIZE = 1
    FirstTickets = {{1, 3}}
    MaxMoves = 1
    MaxEvents = 1
SPECIFICATION Spec
INVARIANTS UrlsMakeSense ShownIsCurrent FeedHasNoGaps
CHECK_DEADLOCK FALSE
