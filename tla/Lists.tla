-------------------------------- MODULE Lists --------------------------------
(***************************************************************************)
(* The two lists of tickets in a tab, from the rows of the server to the   *)
(* screen: the ticket list (TicketsPage.tsx), which shows one page of what *)
(* its URL asks for, and the activity feed (ActivityPage.tsx), which grows *)
(* by "Load more" and asks for each page after the last ticket of the one  *)
(* before.  Both are kept by the query cache of the tab (TanStack Query),  *)
(* one entry for each key, and the doorbell of useLiveUpdates.ts makes it  *)
(* fetch again.                                                            *)
(*                                                                         *)
(* The tickets that the reader may see are numbers in the order of the     *)
(* feed, (created_at, id).  created_at is the time at which a transaction  *)
(* began, so a ticket may appear below one that is shown.  The filters are *)
(* not evaluated: the answer to a list request is what was asked and the   *)
(* tickets there were; the pager counts as if the filters selected all.    *)
(* Left out: that a tab which gets the focus fetches what is stale again,  *)
(* and that an entry nobody looks at is forgotten after five minutes.      *)
(***************************************************************************)
EXTENDS TicketUrls, Sequences, FiniteSetsExt, SequencesExt

CONSTANTS
    LastTicket,     \* tickets 1 .. LastTicket may be raised
    LIMIT,          \* tickets in a page of the feed
    PAGE_SIZE,      \* tickets in a page of the list
    FirstTickets,   \* the sets of tickets to start from
    MaxMoves,       \* bound on clicks that lead to another URL
    MaxEvents       \* bound on changes of the tickets and faults together

ASSUME SizesAssumption ==
    /\ {LastTicket, LIMIT, PAGE_SIZE} \subseteq Nat \ {0}
    /\ FirstTickets \subseteq SUBSET (1 .. LastTicket)

VARIABLES
    visible,    \* the tickets that the reader may see
    bell,       \* a change of them has not been rung in the tab yet
    staff,      \* the reader holds ticket.work
    at,         \* the page that is open, "tickets" or "activity"
    url,        \* its parameters
    before,     \* the key whose rows the list keeps on the screen meanwhile
    cache,      \* the entries of the query cache, by their keys
    moves,      \* how many clicks have led to another URL
    events      \* how many changes and faults there have been

vars == <<visible, bell, staff, at, url, before, cache, moves, events>>

Ticket  == 1 .. LastTicket
Top     == LastTicket + 1       \* no cursor: from the newest
None    == 0                    \* no next page

FeedKey == [k \in Key |-> "feed"]
NoKey   == [k \in Key |-> "none"]

\* The key of the page that is open, and what it asks for.
Shown   == IF at = "activity" THEN FeedKey ELSE QueryKey(url)
Request == IF at = "activity" THEN FeedKey ELSE Asks(url)

-----------------------------------------------------------------------------
(* The server. *)

FeedRows(rest) == {t \in rest : Cardinality({s \in rest : s > t}) < LIMIT}

FeedPage_Inclusive(cursor) ==       \* slip: the row of the cursor comes again
    LET rest == {t \in visible : t <= cursor}
        rows == FeedRows(rest)
    IN  [asked |-> FeedKey, rows |-> rows,
         next |-> IF rest = rows THEN None ELSE Min(rows)]

FeedPage(cursor) ==
    LET rest == {t \in visible : t < cursor}
        rows == FeedRows(rest)
    IN  [asked |-> FeedKey, rows |-> rows,
         next |-> IF rest = rows THEN None ELSE Min(rows)]

Answer(asked, cursor) ==
    IF asked = FeedKey THEN FeedPage(cursor)
    ELSE [asked |-> asked, rows |-> visible, next |-> None]

-----------------------------------------------------------------------------
(* The query cache.  An entry holds the pages of its last answer (a list   *)
(* answer is one page).  Observers: `steady' is the tickets that have been *)
(* there ever since the first of the pages was read; `missed' says that a  *)
(* doorbell rang while a fetch was on its way that was not begun again, or *)
(* that a change rang nobody, so that the answer passes for current.       *)

NoFetch == [asked |-> NoKey, wanted |-> 0, pages |-> << >>, steady |-> {},
            more |-> FALSE, missed |-> FALSE]

New == [pages |-> << >>, steady |-> {}, stale |-> FALSE, failed |-> FALSE,
        missed |-> FALSE, fetch |-> NoFetch]

Entry(k) == IF k \in DOMAIN cache THEN cache[k] ELSE New

Put(c, k, e) == [x \in DOMAIN c \cup {k} |-> IF x = k THEN e ELSE c[x]]

Fetching(e) == e.fetch # NoFetch

Cursor(pages) == IF pages = << >> THEN Top ELSE Last(pages).next

\* The answer has all pages that were wanted, or all there are.
Complete(f) == Len(f.pages) = f.wanted \/ Cursor(f.pages) = None

\* Fetch all pages again, from the first.
Refetch(e, asked) ==
    [e EXCEPT !.fetch = [NoFetch EXCEPT !.asked = asked,
                                        !.wanted = IF e.pages = << >> THEN 1 ELSE Len(e.pages)]]

\* An entry comes on the screen; `aged' says that its answer is older than
\* staleTime.  A fetch on its way is joined.
Mounted(e, asked, aged) ==
    IF ~Fetching(e) /\ (e.pages = << >> \/ e.stale \/ aged) THEN Refetch(e, asked) ELSE e

\* invalidateQueries: what is not on the screen is fetched when it is; what is
\* is fetched again, but the first fetch of an entry is not interrupted.
Invalidated(e, shown, asked) ==
    IF shown /\ (e.pages # << >> \/ ~Fetching(e))
    THEN Refetch([e EXCEPT !.stale = TRUE], asked)
    ELSE [e EXCEPT !.stale = TRUE, !.fetch.missed = Fetching(e)]

\* fetchNextPage interrupts a fetch of all pages.
More(e) ==
    [e EXCEPT !.fetch = [asked |-> FeedKey, wanted |-> Len(e.pages) + 1, pages |-> e.pages,
                         steady |-> e.steady, more |-> TRUE,
                         missed |-> e.missed \/ e.stale \/ Fetching(e)]]

Answered(e) ==
    [pages |-> e.fetch.pages, steady |-> e.fetch.steady, stale |-> FALSE,
     failed |-> FALSE, missed |-> e.fetch.missed, fetch |-> NoFetch]

Failed(e) == [e EXCEPT !.stale = TRUE, !.failed = TRUE, !.fetch = NoFetch]

-----------------------------------------------------------------------------
(* The screen. *)

\* The rows of the list: of its key, or dimmed those of the key before.
OnScreen ==
    LET e == Entry(Shown)
    IN  IF e.failed THEN << >>
        ELSE IF e.pages # << >> THEN e.pages
        ELSE IF before # NoKey THEN Entry(before).pages ELSE << >>

\* The pages of the answer on the screen; a page without rows has no pager.
Pages ==
    IF at = "activity" \/ OnScreen = << >> THEN 0
    ELSE LET total == Cardinality(OnScreen[1].rows)
         IN  IF total <= (PageNumber(OnScreen[1].asked) - 1) * PAGE_SIZE THEN 0
             ELSE (total + PAGE_SIZE - 1) \div PAGE_SIZE

Happens == events < MaxEvents /\ events' = events + 1 /\ UNCHANGED moves

-----------------------------------------------------------------------------
(* The reader. *)

\* The page `place' opens at the URL `next'.
Go(place, next) ==
    /\ <<place, next>> # <<at, url>>
    /\ at' = place
    /\ url' = next
    /\ before' = IF "activity" \in {at, place} THEN NoKey
                 ELSE IF Entry(Shown).pages # << >> THEN Shown ELSE before
    /\ \E aged \in BOOLEAN :
          cache' = IF Shown' = Shown THEN cache
                   ELSE Put(cache, Shown', Mounted(Entry(Shown'), Request', aged))
    /\ UNCHANGED <<visible, bell, staff, events>>

\* A control of the list.
Click ==
    /\ moves < MaxMoves /\ moves' = moves + 1
    /\ at = "tickets"
    /\ \E next \in Controls(url, staff, Pages) : Go("tickets", next)

\* The menu, a card of the dashboard or the search field above every page.
Follow ==
    /\ moves < MaxMoves /\ moves' = moves + 1
    /\ \/ Go("activity", Bare)
       \/ \E next \in Links(staff) \cup HeaderSearches : Go("tickets", next)

\* The buttons Back and Forward of the browser.
Travel ==
    /\ \E k \in DOMAIN cache :
          IF k = FeedKey THEN Go("activity", Bare) ELSE Go("tickets", k)
    /\ UNCHANGED moves

LoadMore ==
    /\ at = "activity"
    /\ Entry(FeedKey).pages # << >>
    /\ Cursor(Entry(FeedKey).pages) # None
    /\ ~Entry(FeedKey).fetch.more
    /\ cache' = [cache EXCEPT ![FeedKey] = More(@)]
    /\ UNCHANGED <<visible, bell, staff, at, url, before, moves, events>>

-----------------------------------------------------------------------------
(* The network and the server. *)

\* The server answers the next request of a fetch.
Read(k) ==
    LET f == cache[k].fetch
        first == f.pages = << >>
    IN  /\ Fetching(cache[k])
        /\ ~(f.pages # << >> /\ Complete(f))
        /\ Accepts(f.asked)
        /\ cache' = [cache EXCEPT ![k].fetch.pages = Append(@, Answer(f.asked, Cursor(f.pages))),
                                  ![k].fetch.steady = IF first /\ k = FeedKey THEN visible ELSE @]
        /\ UNCHANGED <<visible, bell, staff, at, url, before, moves, events>>

Arrive(k) ==
    /\ Fetching(cache[k])
    /\ cache[k].fetch.pages # << >> /\ Complete(cache[k].fetch)
    /\ cache' = [cache EXCEPT ![k] = Answered(@)]
    /\ UNCHANGED <<visible, bell, staff, at, url, before, moves, events>>

Refuse(k) ==
    /\ Fetching(cache[k])
    /\ ~Accepts(cache[k].fetch.asked)
    /\ cache' = [cache EXCEPT ![k] = Failed(@)]
    /\ UNCHANGED <<visible, bell, staff, at, url, before, moves, events>>

\* The request fails, and so do its retries.
Fail(k) ==
    /\ Happens
    /\ Fetching(cache[k])
    /\ cache' = [cache EXCEPT ![k] = Failed(@)]
    /\ UNCHANGED <<visible, bell, staff, at, url, before>>

\* The ticket t comes into the reader's sight or leaves it.
Shift(t) ==
    /\ Happens
    /\ visible' = IF t \in visible THEN visible \ {t} ELSE visible \cup {t}
    /\ UNCHANGED <<staff, at, url, before>>

Without(e, t) == [e EXCEPT !.steady = @ \ {t}, !.fetch.steady = @ \ {t}]

\* Somebody raises a ticket, deletes it, or changes what it is.
Change(t) ==
    /\ Shift(t)
    /\ bell' = TRUE
    /\ cache' = [k \in DOMAIN cache |-> Without(cache[k], t)]

\* What was read before a change that rings nobody passes for current.
Unrung(e) == [e EXCEPT !.missed = TRUE, !.fetch.missed = @ \/ e.fetch.pages # << >>]

\* The reader joins or leaves a team, which emits no event, or loses a ticket
\* outside their teams, whose event does not go to their rooms.
ChangeUnrung(t) ==
    /\ Shift(t)
    /\ bell' = bell
    /\ cache' = [k \in DOMAIN cache |-> Unrung(Without(cache[k], t))]

Ring ==
    /\ bell
    /\ bell' = FALSE
    /\ cache' = [k \in DOMAIN cache |->
                    Invalidated(cache[k], k = Shown, Request)]
    /\ UNCHANGED <<visible, staff, at, url, before, moves, events>>

-----------------------------------------------------------------------------
\* A tab starts at the feed, the list, or a search that somebody shared.
SharedLink == With([q |-> "vpn", sort |-> "relevance"])

Init ==
    /\ visible \in FirstTickets
    /\ bell = FALSE
    /\ staff \in BOOLEAN
    /\ at \in {"activity", "tickets"} /\ before = NoKey
    /\ url \in {Bare} \cup IF at = "activity" THEN {} ELSE {SharedLink}
    /\ cache = Put(<< >>, Shown, Refetch(New, Request))
    /\ moves = 0 /\ events = 0

Next ==
    \/ Click \/ Follow \/ Travel \/ LoadMore
    \/ \E k \in DOMAIN cache : Read(k) \/ Arrive(k) \/ Refuse(k) \/ Fail(k)
    \/ \E t \in Ticket : Change(t) \/ ChangeUnrung(t)
    \/ Ring

Spec == Init /\ [][Next]_vars

-----------------------------------------------------------------------------
(* Properties. *)

\* What the reader typed is what the server refuses: a search text that is too short
\* or too long, or two dates in the wrong order.
Mistyped(u) == u["q"] \in {"x", "essay"} \/ Crossed(u)

\* Every filter lives in the URL, and whatever controls lead to it, through any
\* sequence of clicks: what the page then asks is refused only for what the reader
\* typed, never for what a button, a select or a link made of it; exactly one view
\* is drawn as pressed ("only one is active at a time", TicketsPage.tsx:81); and a
\* figure of the dashboard counts the list that its card leads to, except for
\* "Active tickets", which leads to the list of all.
UrlsMakeSense ==
    /\ at = "tickets" =>
          \A next \in {url} \cup Controls(url, staff, Pages) :
             /\ Accepts(next) \/ Mistyped(next)
             /\ Cardinality(Pressed(next, staff)) = 1
    /\ \A c \in DOMAIN CardLinks[staff] \ {"active"} :
          CountQueries[staff][c] = {CardLinks[staff][c]}

\* Nothing is under way that would change the page that is open.
AtRest == ~bell /\ ~Fetching(Entry(Shown)) /\ ~Entry(Shown).failed

\* Rows that are not dimmed answer the URL above them, however late answers come
\* in; and once every doorbell has rung and been answered they are what the
\* server would answer now, on each page that the feed has grown to.  (Except
\* for a bell that rang during a first fetch, or during a fetch for which
\* "Load more" or another page left, and for a change that rings nobody: until
\* the next fetch those rows pass for current.)
ShownIsCurrent ==
    LET e == Entry(Shown)
    IN  /\ at = "tickets" /\ e.pages # << >> => e.pages[1].asked = Asks(url)
        /\ AtRest /\ ~e.missed =>
              \A i \in 1 .. Len(e.pages) :
                 e.pages[i] = Answer(e.pages[i].asked, Cursor(SubSeq(e.pages, 1, i - 1)))

\* The feed shows no ticket twice and skips none: its tickets are newest first
\* across the pages, and every ticket that has been there since the first page
\* was read, down to the last one shown or, below "You have reached the
\* beginning", to the first ever, is among them.
FeedHasNoGaps ==
    LET e     == Entry(FeedKey)
        rows  == UNION {e.pages[i].rows : i \in 1 .. Len(e.pages)}
    IN  /\ \A i, j \in 1 .. Len(e.pages) :
              i < j => \A s \in e.pages[i].rows, t \in e.pages[j].rows : s > t
        /\ e.pages # << >> =>
              \A t \in e.steady : t \in rows \/ t < Cursor(e.pages)
=============================================================================
