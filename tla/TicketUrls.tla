----------------------------- MODULE TicketUrls ------------------------------
(***************************************************************************)
(* The addresses of the ticket list.  Every filter of the list lives in    *)
(* the query of its URL, and every control of TicketsPage.tsx, the cards   *)
(* of DashboardPage.tsx and the search field of AppLayout.tsx lead to a    *)
(* URL, which the page turns into one request to GET /tickets.             *)
(*                                                                         *)
(* Left out: the priority, team and category selects and the order, which  *)
(* are treated like the status.                                            *)
(***************************************************************************)
EXTENDS Integers, FiniteSets, TLC

\* The keys that the views exclude each other by.
ViewKey == {"assignee_id", "requester_id", "unassigned", "sla_breached", "resolved"}
Key     == ViewKey \cup {"status", "created_after", "created_before", "q", "sort", "page"}

\* The parameters of a URL; "" for one that is not there.  The reader is "me".  A
\* search text has one character ("x"), some ("vpn") or more than 100 ("essay").
\* The dates are two days: the one "from" means its beginning, "until" its end.
Bare == [k \in Key |-> ""]

PageNumber(url) ==
    CHOOSE n \in 1 .. 9 : url["page"] \in {ToString(n)} \cup (IF n = 1 THEN {""} ELSE {})

\* What the server is asked for, and what the answer is cached under.
Asks(url) == [url EXCEPT !["page"] = ToString(PageNumber(url))]

QueryKey_NoPage(url) == [url EXCEPT !["page"] = "1"]    \* slip: the page left out

QueryKey(url) == Asks(url)

-----------------------------------------------------------------------------
(* The page.                                                               *)

Changed(url, changes) ==
    [k \in Key |-> IF k \in DOMAIN changes THEN changes[k]
                   ELSE IF k = "page" THEN "" ELSE url[k]]

Update_KeepSort(url, changes) == Changed(url, changes)      \* slip: without the last step

\* "Best match" needs a search text; it is dropped with the text.
Update(url, changes) ==
    LET next == Changed(url, changes)
    IN  IF next["q"] = "" /\ next["sort"] = "relevance"
        THEN [next EXCEPT !["sort"] = ""] ELSE next

Only(k, value) == [x \in ViewKey |-> IF x = k THEN value ELSE ""]

\* The buttons above the list, and what each of them sets.
Views(staff) ==
    {"All", "Raised", "Breached", "Resolved"}
        \cup IF staff THEN {"Mine", "Unassigned"} ELSE {}

ViewSets ==
    [All        |-> Only("none", ""),
     Raised     |-> Only("requester_id", "me"),
     Breached   |-> Only("sla_breached", "true"),
     Resolved   |-> Only("resolved", "true"),
     Mine       |-> Only("assignee_id", "me"),
     Unassigned |-> Only("unassigned", "true")]

\* The buttons that are drawn as pressed.
Pressed(url, staff) ==
    {name \in Views(staff) :
        LET set == ViewSets[name]
        IN  IF name = "All" THEN \A k \in ViewKey : url[k] = ""
            ELSE \A k \in ViewKey : set[k] # "" => url[k] = set[k]}

\* The search box sends a trimmed text, but not a single character.
Searches(url) ==
    {Update(url, [q |-> q, sort |-> IF q = "" THEN url["sort"] ELSE "relevance"]) :
        q \in {"", "vpn", "essay"}}

\* The two date fields, each set on its own.
Dates(url) ==
    {Update(url, [created_after |-> day]) : day \in {"", "mon", "tue"}}
        \cup {Update(url, [created_before |-> day]) : day \in {"", "mon", "tue"}}

Selects(url) ==
    {Update(url, [status |-> s]) : s \in {"", "open"}}
        \cup {Update(url, [sort |-> s]) :
                s \in {"created_at", "sla_due_at"}
                        \cup (IF url["q"] = "" THEN {} ELSE {"relevance"})}

\* `pages' is the number of pages of the answer on the screen, 0 if it has no rows.
Pager(url, pages) ==
    {Update(url, [page |-> ToString(p)]) :
        p \in {n \in {PageNumber(url) - 1} : n >= 1 /\ pages > 0}
                \cup {n \in {PageNumber(url) + 1} : n <= pages}}

Controls(url, staff, pages) ==
    {Update(url, ViewSets[name]) : name \in Views(staff)}
        \cup Searches(url) \cup Selects(url) \cup Dates(url) \cup Pager(url, pages)
        \cup {Update(url, [q |-> ""]) : q \in {url["q"]} \ {""}}    \* Clear search
        \cup {Bare}                         \* Clear all filters, Reset view

-----------------------------------------------------------------------------
(* The links to the list from elsewhere. *)

With(changes) == Changed(Bare, changes)

\* What the figures of the dashboard count: the sum over these requests ...
CountQueries == [staff \in BOOLEAN |->
    [active    |-> {With([status |-> s]) : s \in {"open", "in_progress", "waiting"}},
     breached  |-> {With([sla_breached |-> "true"])},
     mine      |-> {IF staff THEN With([assignee_id |-> "me", status |-> "in_progress"])
                             ELSE With([requester_id |-> "me", status |-> "open"])},
     unclaimed |-> {With([unassigned |-> "true", status |-> "open"])},
     resolved  |-> {With([resolved |-> "true"])},
     closed    |-> {With([status |-> "closed"])}]]

\* ... and the lists that their cards lead to: "Active tickets" to all tickets.
CardLinks == [staff \in BOOLEAN |->
    IF staff
    THEN [active    |-> Bare,
          breached  |-> With([sla_breached |-> "true"]),
          mine      |-> With([assignee_id |-> "me", status |-> "in_progress"]),
          unclaimed |-> With([unassigned |-> "true", status |-> "open"]),
          resolved  |-> With([resolved |-> "true"]),
          closed    |-> With([status |-> "closed"])]
    ELSE [active    |-> Bare,
          breached  |-> With([sla_breached |-> "true"]),
          mine      |-> With([requester_id |-> "me", status |-> "open"]),
          resolved  |-> With([resolved |-> "true"]),
          closed    |-> With([status |-> "closed"])]]

\* The links to all tickets and, below the table, to what the table is cut from.
Links(staff) ==
    {Bare} \cup {CardLinks[staff][c] : c \in DOMAIN CardLinks[staff]}
        \cup {IF staff THEN With([status |-> "open", sort |-> "sla_due_at"])
                       ELSE With([requester_id |-> "me"])}

\* The search field above every page takes any text but an empty one.
HeaderSearches == {With([q |-> q, sort |-> "relevance"]) : q \in {"x", "vpn", "essay"}}

-----------------------------------------------------------------------------
(* The server. *)

\* The days of the two dates are in the wrong order.
Crossed(url) == url["created_after"] = "tue" /\ url["created_before"] = "mon"

\* TicketFilters: the length of q, the order of the dates, and relevance only
\* with a text.
Accepts(url) ==
    /\ url["q"] \notin {"x", "essay"}
    /\ ~Crossed(url)
    /\ url["sort"] = "relevance" => url["q"] # ""
=============================================================================
