---------------------------- MODULE ListsProofs -----------------------------
(***************************************************************************)
(* Theorems of TicketUrls and Lists, for any number of tickets, any sizes  *)
(* of the pages, and any number of clicks, changes and faults.             *)
(***************************************************************************)
EXTENDS Lists, FiniteSetTheorems, TLAPS

-----------------------------------------------------------------------------
(* The addresses.                                                          *)

\* A URL that the reader can be at.
Sense(u, work) ==
    /\ u = [k \in Key |-> u[k]]
    /\ u["q"] \in {"", "x", "vpn", "essay"}
    /\ u["sort"] = "relevance" => u["q"] # ""
    /\ \E name \in Views(work) : \A k \in ViewKey : u[k] = ViewSets[name][k]

ViewName == {"All", "Raised", "Breached", "Resolved", "Mine", "Unassigned"}

\* The one key that a view sets.
MarkOf == [Raised |-> "requester_id", Breached |-> "sla_breached", Resolved |-> "resolved",
         Mine |-> "assignee_id", Unassigned |-> "unassigned"]

LEMMA ViewsMark ==
  /\ \A name \in ViewName \ {"All"} :
        /\ MarkOf[name] \in ViewKey
        /\ \A k \in ViewKey : ViewSets[name][k] # "" <=> k = MarkOf[name]
        /\ \A other \in ViewName \ {"All"} : MarkOf[other] = MarkOf[name] => other = name
  /\ \A k \in ViewKey : ViewSets["All"][k] = ""
  /\ \A name \in ViewName : DOMAIN ViewSets[name] = ViewKey
<1>1. MarkOf["Raised"] = "requester_id" /\ MarkOf["Breached"] = "sla_breached"
      /\ MarkOf["Resolved"] = "resolved" /\ MarkOf["Mine"] = "assignee_id"
      /\ MarkOf["Unassigned"] = "unassigned"
  BY DEF MarkOf
<1>2. /\ ViewSets["All"] = Only("none", "")
      /\ ViewSets["Raised"] = Only("requester_id", "me")
      /\ ViewSets["Breached"] = Only("sla_breached", "true")
      /\ ViewSets["Resolved"] = Only("resolved", "true")
      /\ ViewSets["Mine"] = Only("assignee_id", "me")
      /\ ViewSets["Unassigned"] = Only("unassigned", "true")
  BY DEF ViewSets
<1>4. {MarkOf[name] : name \in ViewName \ {"All"}} \subseteq ViewKey
  BY <1>1 DEF ViewName, ViewKey
<1>5. ASSUME NEW name \in ViewName \ {"All"}, NEW k \in ViewKey
      PROVE  ViewSets[name][k] # "" <=> k = MarkOf[name]
  <2>1. PICK v \in {"me", "true"} : ViewSets[name] = Only(MarkOf[name], v)
    BY <1>1, <1>2 DEF ViewName
  <2>. QED
    BY <2>1 DEF Only
<1>6. \A name, other \in ViewName \ {"All"} : MarkOf[other] = MarkOf[name] => other = name
  BY <1>1 DEF ViewName
<1>7. \A k \in ViewKey : ViewSets["All"][k] = ""
  <2>1. \A k \in ViewKey : Only("none", "")[k] = ""
    BY DEF Only
  <2>. QED
    BY <2>1 DEF ViewSets
<1>8. ASSUME NEW name \in ViewName
      PROVE  DOMAIN ViewSets[name] = ViewKey
  <2>1. PICK m \in ViewKey \cup {"none"}, v \in {"", "me", "true"} : ViewSets[name] = Only(m, v)
    BY <1>2 DEF ViewName, ViewKey
  <2>. QED
    BY <2>1 DEF Only
<1>. QED
  BY <1>4, <1>5, <1>6, <1>7, <1>8

LEMMA OneViewPressed ==
  ASSUME NEW work \in BOOLEAN, NEW u, Sense(u, work)
  PROVE  Cardinality(Pressed(u, work)) = 1
<1>1. PICK name \in Views(work) : \A k \in ViewKey : u[k] = ViewSets[name][k]
  BY DEF Sense
<1>2. Views(work) \subseteq ViewName
  BY DEF Views, ViewName
<1>3. ASSUME NEW n \in Views(work)
      PROVE  n \in Pressed(u, work) <=> n = name
  <2>1. CASE n = "All"
    <3>1. n \in Pressed(u, work) <=> \A k \in ViewKey : u[k] = ""
      BY <2>1 DEF Pressed
    <3>2. name # "All" => u[MarkOf[name]] # "" /\ MarkOf[name] \in ViewKey
      BY <1>1, <1>2, ViewsMark
    <3>. QED
      BY <1>1, <2>1, <3>1, <3>2, ViewsMark
  <2>2. CASE n # "All"
    <3>1. n = name => n \in Pressed(u, work)
      BY <1>1, <2>2 DEF Pressed
    <3>2. n \in Pressed(u, work) => u[MarkOf[n]] # ""
      <4>1. MarkOf[n] \in ViewKey /\ ViewSets[n][MarkOf[n]] # ""
        BY <1>2, <2>2, ViewsMark
      <4>. QED
        BY <2>2, <4>1 DEF Pressed
    <3>3. u[MarkOf[n]] # "" => n = name
      <4>1. MarkOf[n] \in ViewKey
        BY <1>2, <2>2, ViewsMark
      <4>2. u[MarkOf[n]] = ViewSets[name][MarkOf[n]]
        BY <1>1, <4>1
      <4>3. ViewSets[name][MarkOf[n]] # "" => name # "All"
        BY <4>1, ViewsMark
      <4>4. ViewSets[name][MarkOf[n]] # "" => MarkOf[n] = MarkOf[name]
        BY <1>2, <4>1, <4>3, ViewsMark
      <4>. QED
        BY <1>2, <2>2, <4>2, <4>3, <4>4, ViewsMark
    <3>. QED
      BY <3>1, <3>2, <3>3
  <2>. QED
    BY <2>1, <2>2
<1>4. Pressed(u, work) = {name}
  BY <1>3 DEF Pressed
<1>. QED
  BY <1>4, FS_Singleton

LEMMA CardsCount ==
  ASSUME NEW work \in BOOLEAN
  PROVE  \A c \in DOMAIN CardLinks[work] \ {"active"} :
            CountQueries[work][c] = {CardLinks[work][c]}
BY DEF CardLinks, CountQueries

LEMMA UpdateSense ==
  ASSUME NEW work \in BOOLEAN, NEW u, Sense(u, work), NEW changes,
         "q" \in DOMAIN changes => changes["q"] \in {"", "x", "vpn", "essay"},
         \/ DOMAIN changes \cap ViewKey = {}
         \/ \E name \in Views(work) : 
              ViewKey \subseteq DOMAIN changes /\ \A k \in ViewKey : changes[k] = ViewSets[name][k]
  PROVE  Sense(Update(u, changes), work)
BY DEF Sense, Update, Changed, Key, ViewKey

LEMMA BareSense ==
  ASSUME NEW work \in BOOLEAN
  PROVE  Sense(Bare, work)
<1>1. "All" \in Views(work) /\ \A k \in ViewKey : Bare[k] = ViewSets["All"][k]
  BY ViewsMark DEF Views, Bare, Key
<1>. QED
  BY <1>1 DEF Sense, Bare, Key

LEMMA ControlsSense ==
  ASSUME NEW work \in BOOLEAN, NEW u, Sense(u, work), NEW pages,
         NEW next \in Controls(u, work, pages)
  PROVE  Sense(next, work)
<1>1. ASSUME NEW name \in Views(work), next = Update(u, ViewSets[name])
      PROVE  Sense(next, work)
  <2>1. DOMAIN ViewSets[name] = ViewKey
    BY ViewsMark DEF Views, ViewName
  <2>. QED
    BY <1>1, <2>1, UpdateSense DEF ViewKey
<1>2. CASE next \in Searches(u)
  <2>1. PICK q \in {"", "vpn", "essay"} :
           next = Update(u, [q |-> q, sort |-> IF q = "" THEN u["sort"] ELSE "relevance"])
    BY <1>2 DEF Searches
  <2>2. CASE q = ""
    <3>1. next = Update(u, [q |-> "", sort |-> u["sort"]])
      BY <2>1, <2>2
    <3>. QED
      BY <3>1, UpdateSense DEF ViewKey
  <2>3. CASE q = "vpn"
    <3>1. next = Update(u, [q |-> "vpn", sort |-> "relevance"])
      BY <2>1, <2>3
    <3>. QED
      BY <3>1, UpdateSense DEF ViewKey
  <2>4. CASE q = "essay"
    <3>1. next = Update(u, [q |-> "essay", sort |-> "relevance"])
      BY <2>1, <2>4
    <3>. QED
      BY <3>1, UpdateSense DEF ViewKey
  <2>. QED
    BY <2>1, <2>2, <2>3, <2>4
<1>3. CASE next \in Selects(u)
  <2>1. CASE \E s \in {"", "open"} : next = Update(u, [status |-> s])
    BY <2>1, UpdateSense DEF ViewKey
  <2>2. ASSUME NEW s \in {"created_at", "sla_due_at"}
                             \cup (IF u["q"] = "" THEN {} ELSE {"relevance"}),
               next = Update(u, [sort |-> s])
        PROVE  Sense(next, work)
    BY <2>2, UpdateSense DEF ViewKey
  <2>. QED
    BY <1>3, <2>1, <2>2 DEF Selects
<1>4. CASE next \in Pager(u, pages)
  <2>1. PICK p : next = Update(u, [page |-> p])
    BY <1>4 DEF Pager
  <2>. QED
    BY <2>1, UpdateSense DEF ViewKey
<1>5. CASE next = Update(u, [q |-> ""])
  BY <1>5, UpdateSense DEF ViewKey
<1>6. CASE next = Bare
  BY <1>6, BareSense
<1>7. CASE next \in Dates(u)
  <2>1. ASSUME NEW day, next = Update(u, [created_after |-> day])
        PROVE  Sense(next, work)
    BY <2>1, UpdateSense DEF ViewKey
  <2>2. ASSUME NEW day, next = Update(u, [created_before |-> day])
        PROVE  Sense(next, work)
    BY <2>2, UpdateSense DEF ViewKey
  <2>. QED
    BY <1>7, <2>1, <2>2 DEF Dates
<1>. QED
  BY <1>1, <1>2, <1>3, <1>4, <1>5, <1>6, <1>7 DEF Controls

\* A link sets the keys of one view at most.
LEMMA LinkSense ==
  ASSUME NEW work \in BOOLEAN, NEW next, next = [k \in Key |-> next[k]],
         NEW name \in Views(work), \A k \in ViewKey : next[k] = ViewSets[name][k],
         next["q"] \in {"", "x", "vpn", "essay"},
         next["sort"] = "relevance" => next["q"] # ""
  PROVE  Sense(next, work)
BY DEF Sense

LEMMA LinksSense ==
  ASSUME NEW work \in BOOLEAN, NEW next \in Links(work) \cup HeaderSearches
  PROVE  Sense(next, work)
<1>1. \A changes : With(changes) = [k \in Key |-> With(changes)[k]]
  BY DEF With, Changed
<1>2. /\ ViewSets["Raised"]["requester_id"] = "me" /\ \A k \in ViewKey : k # "requester_id" => ViewSets["Raised"][k] = ""
      /\ ViewSets["Breached"]["sla_breached"] = "true" /\ \A k \in ViewKey : k # "sla_breached" => ViewSets["Breached"][k] = ""
      /\ ViewSets["Resolved"]["resolved"] = "true" /\ \A k \in ViewKey : k # "resolved" => ViewSets["Resolved"][k] = ""
      /\ ViewSets["Mine"]["assignee_id"] = "me" /\ \A k \in ViewKey : k # "assignee_id" => ViewSets["Mine"][k] = ""
      /\ ViewSets["Unassigned"]["unassigned"] = "true" /\ \A k \in ViewKey : k # "unassigned" => ViewSets["Unassigned"][k] = ""
  BY DEF ViewSets, Only, ViewKey
<1>3. {"All", "Raised", "Breached", "Resolved"} \subseteq Views(work)
      /\ (work => {"Mine", "Unassigned"} \subseteq Views(work))
  BY DEF Views
<1>4. CASE next = With([sla_breached |-> "true"])
  <2>1. next["sla_breached"] = "true" /\ \A k \in Key : k \notin {"sla_breached", "status"} => next[k] = ""
    BY <1>4 DEF With, Changed, Bare, Key, ViewKey
  <2>2. \A k \in ViewKey : next[k] = ViewSets["Breached"][k]
    BY <1>2, <2>1 DEF Key, ViewKey
  <2>3. next["q"] = "" /\ next["sort"] = ""
    BY <2>1 DEF Key, ViewKey
  <2>. QED
    BY <1>1, <1>3, <1>4, <2>2, <2>3, LinkSense
<1>5. CASE next = With([resolved |-> "true"])
  <2>1. next["resolved"] = "true" /\ \A k \in Key : k \notin {"resolved", "status"} => next[k] = ""
    BY <1>5 DEF With, Changed, Bare, Key, ViewKey
  <2>2. \A k \in ViewKey : next[k] = ViewSets["Resolved"][k]
    BY <1>2, <2>1 DEF Key, ViewKey
  <2>3. next["q"] = "" /\ next["sort"] = ""
    BY <2>1 DEF Key, ViewKey
  <2>. QED
    BY <1>1, <1>3, <1>5, <2>2, <2>3, LinkSense
<1>6. CASE \/ next = With([status |-> "closed"])
           \/ next = With([status |-> "open", sort |-> "sla_due_at"])
  <2>1. /\ \A k \in Key : k \notin {"status", "sort"} => next[k] = ""
        /\ next["sort"] \in {"", "sla_due_at"}
    BY <1>6 DEF With, Changed, Bare, Key
  <2>2. \A k \in ViewKey : next[k] = ViewSets["All"][k]
    BY <2>1, ViewsMark DEF Key, ViewKey
  <2>3. next["q"] = "" /\ next["sort"] # "relevance"
    BY <2>1 DEF Key, ViewKey
  <2>. QED
    BY <1>1, <1>3, <1>6, <2>2, <2>3, LinkSense
<1>7. CASE next = With([requester_id |-> "me", status |-> "open"])
  <2>1. next["requester_id"] = "me" /\ \A k \in Key : k \notin {"requester_id", "status"} => next[k] = ""
    BY <1>7 DEF With, Changed, Bare, Key, ViewKey
  <2>2. \A k \in ViewKey : next[k] = ViewSets["Raised"][k]
    BY <1>2, <2>1 DEF Key, ViewKey
  <2>3. next["q"] = "" /\ next["sort"] = ""
    BY <2>1 DEF Key, ViewKey
  <2>. QED
    BY <1>1, <1>3, <1>7, <2>2, <2>3, LinkSense
<1>8. CASE work /\ next = With([assignee_id |-> "me", status |-> "in_progress"])
  <2>1. next["assignee_id"] = "me" /\ \A k \in Key : k \notin {"assignee_id", "status"} => next[k] = ""
    BY <1>8 DEF With, Changed, Bare, Key, ViewKey
  <2>2. \A k \in ViewKey : next[k] = ViewSets["Mine"][k]
    BY <1>2, <2>1 DEF Key, ViewKey
  <2>3. next["q"] = "" /\ next["sort"] = ""
    BY <2>1 DEF Key, ViewKey
  <2>. QED
    BY <1>1, <1>3, <1>8, <2>2, <2>3, LinkSense
<1>9. CASE work /\ next = With([unassigned |-> "true", status |-> "open"])
  <2>1. next["unassigned"] = "true" /\ \A k \in Key : k \notin {"unassigned", "status"} => next[k] = ""
    BY <1>9 DEF With, Changed, Bare, Key, ViewKey
  <2>2. \A k \in ViewKey : next[k] = ViewSets["Unassigned"][k]
    BY <1>2, <2>1 DEF Key, ViewKey
  <2>3. next["q"] = "" /\ next["sort"] = ""
    BY <2>1 DEF Key, ViewKey
  <2>. QED
    BY <1>1, <1>3, <1>9, <2>2, <2>3, LinkSense
<1>13. CASE next = With([requester_id |-> "me"])
  <2>1. next["requester_id"] = "me" /\ \A k \in Key : k \notin {"requester_id", "status"} => next[k] = ""
    BY <1>13 DEF With, Changed, Bare, Key, ViewKey
  <2>2. \A k \in ViewKey : next[k] = ViewSets["Raised"][k]
    BY <1>2, <2>1 DEF Key, ViewKey
  <2>3. next["q"] = "" /\ next["sort"] = ""
    BY <2>1 DEF Key, ViewKey
  <2>. QED
    BY <1>1, <1>3, <1>13, <2>2, <2>3, LinkSense
<1>10. CASE next \in HeaderSearches
  <2>1. PICK q \in {"x", "vpn", "essay"} : next = With([q |-> q, sort |-> "relevance"])
    BY <1>10 DEF HeaderSearches
  <2>2. \A k \in ViewKey : next[k] = ""
    BY <2>1 DEF With, Changed, Bare, Key, ViewKey
  <2>3. next["q"] = q
    BY <2>1 DEF With, Changed, Bare, Key
  <2>4. next = [k \in Key |-> next[k]]
    BY <1>1, <2>1
  <2>5. \A k \in ViewKey : next[k] = ViewSets["All"][k]
    BY <2>2, ViewsMark
  <2>6. next["q"] \in {"", "x", "vpn", "essay"} /\ next["q"] # ""
    BY <2>3
  <2>. QED
    BY <1>3, <2>4, <2>5, <2>6, LinkSense
<1>11. CASE next = Bare
  BY <1>11, BareSense
<1>12. CASE next \in {CardLinks[work][c] : c \in DOMAIN CardLinks[work]}
  <2>. PICK c \in DOMAIN CardLinks[work] : next = CardLinks[work][c]
    BY <1>12
  <2>1. CASE work
    <3>1. DOMAIN CardLinks[work] = {"active", "breached", "mine", "unclaimed", "resolved", "closed"}
      BY <2>1 DEF CardLinks
    <3>2. /\ CardLinks[work]["active"] = Bare
          /\ CardLinks[work]["breached"] = With([sla_breached |-> "true"])
          /\ CardLinks[work]["mine"] = With([assignee_id |-> "me", status |-> "in_progress"])
          /\ CardLinks[work]["unclaimed"] = With([unassigned |-> "true", status |-> "open"])
          /\ CardLinks[work]["resolved"] = With([resolved |-> "true"])
          /\ CardLinks[work]["closed"] = With([status |-> "closed"])
      BY <2>1 DEF CardLinks
    <3>. QED
      BY <1>4, <1>5, <1>6, <1>8, <1>9, <1>11, <2>1, <3>1, <3>2
  <2>2. CASE ~work
    <3>1. DOMAIN CardLinks[work] = {"active", "breached", "mine", "resolved", "closed"}
      BY <2>2 DEF CardLinks
    <3>2. /\ CardLinks[work]["active"] = Bare
          /\ CardLinks[work]["breached"] = With([sla_breached |-> "true"])
          /\ CardLinks[work]["mine"] = With([requester_id |-> "me", status |-> "open"])
          /\ CardLinks[work]["resolved"] = With([resolved |-> "true"])
          /\ CardLinks[work]["closed"] = With([status |-> "closed"])
      BY <2>2 DEF CardLinks
    <3>. QED
      BY <1>4, <1>5, <1>6, <1>7, <1>11, <3>1, <3>2
  <2>. QED
    BY <2>1, <2>2
<1>. QED
  BY <1>6, <1>10, <1>11, <1>12, <1>13 DEF Links

\* What the page asks for is an address of it too.
LEMMA AsksSense ==
  ASSUME NEW work, NEW u, Sense(u, work)
  PROVE  Sense(Asks(u), work)
BY DEF Sense, Asks, Key, ViewKey

-----------------------------------------------------------------------------
(* The least of some numbers.                                               *)

LEMMA LeastNumber ==
  ASSUME NEW S, S \subseteq Nat, S # {}
  PROVE  \E m \in S : \A s \in S : m <= s
<1>. DEFINE R == {ss \in Nat \X Nat : ss[1] < ss[2]}
<1>1. IsWellFoundedOn(R, Nat)
  BY NatLessThanWellFounded DEF OpToRel
<1>2. \A m, s \in Nat : <<s, m>> \notin R => m <= s
  OBVIOUS
<1>. HIDE DEF R
<1>3. \E m \in S : \A s \in S : ~ (<<s, m>> \in R)
  BY <1>1, WFMin, Zenon
<1>. QED
  BY <1>2, <1>3

LEMMA LeastIsMin ==
  ASSUME NEW S, S \subseteq Nat, S # {}
  PROVE  Min(S) \in S /\ \A s \in S : Min(S) <= s
BY LeastNumber DEF Min

-----------------------------------------------------------------------------
(* A page of the feed. *)

LEMMA Sizes ==
  /\ LastTicket \in Nat \ {0} /\ LIMIT \in Nat \ {0} /\ PAGE_SIZE \in Nat \ {0}
  /\ Top = LastTicket + 1 /\ None = 0 /\ Ticket \subseteq Nat
BY SizesAssumption DEF Top, None, Ticket

LEMMA TicketsFinite ==
  ASSUME NEW S, S \subseteq Ticket
  PROVE  IsFiniteSet(S) /\ Cardinality(S) \in Nat
<1>1. IsFiniteSet(Ticket)
  BY Sizes, FS_Interval DEF Ticket
<1>2. IsFiniteSet(S)
  BY <1>1, FS_Subset
<1>. QED
  BY <1>2, FS_CardinalityType

LEMMA RowsAreNewest ==
  ASSUME NEW rest, rest \subseteq Ticket, NEW t \in rest \ FeedRows(rest), NEW u \in FeedRows(rest)
  PROVE  t < u
<1>. DEFINE Above(x) == {s \in rest : s > x}
<1>1. t \in Nat /\ u \in Nat /\ u \in rest
  BY Sizes DEF FeedRows
<1>2. Cardinality(Above(u)) < LIMIT /\ ~(Cardinality(Above(t)) < LIMIT)
  BY DEF FeedRows
<1>3. ASSUME t >= u
      PROVE  Cardinality(Above(t)) <= Cardinality(Above(u))
  <2>1. Above(t) \subseteq Above(u)
    <3>1. \A s \in rest : s \in Nat /\ (s > t => s > u)
      BY <1>1, <1>3, Sizes
    <3>. QED
      BY <3>1
  <2>2. IsFiniteSet(Above(u))
    BY TicketsFinite
  <2>. HIDE DEF Above
  <2>. QED
    BY <2>1, <2>2, FS_Subset
<1>4. Cardinality(Above(t)) \in Nat /\ Cardinality(Above(u)) \in Nat
  BY TicketsFinite
<1>. HIDE DEF Above
<1>. QED
  BY <1>1, <1>2, <1>3, <1>4, Sizes

LEMMA SomeRows ==
  ASSUME NEW rest, rest \subseteq Ticket, rest # {}
  PROVE  FeedRows(rest) # {}
<1>. DEFINE T == {n \in Nat : LastTicket - n \in rest}
<1>1. T # {}
  <2>1. PICK t \in rest : TRUE
    OBVIOUS
  <2>2. LastTicket - t \in T
    BY Sizes DEF Ticket
  <2>. QED
    BY <2>2
<1>2. PICK n \in T : \A s \in T : n <= s
  BY <1>1, LeastNumber
<1>3. ASSUME NEW s \in rest
      PROVE  s <= LastTicket - n
  <2>1. s \in Nat /\ s <= LastTicket /\ LastTicket \in Nat
    BY Sizes DEF Ticket
  <2>2. LastTicket - s \in Nat /\ LastTicket - (LastTicket - s) = s
    BY <2>1
  <2>3. n <= LastTicket - s
    BY <1>2, <2>2
  <2>4. n \in Nat
    BY <1>2
  <2>. QED
    BY <2>1, <2>3, <2>4
<1>4. {s \in rest : s > LastTicket - n} = {}
  <2>1. \A s \in rest : s \in Nat /\ s <= LastTicket - n
    BY <1>3, Sizes
  <2>2. LastTicket \in Nat /\ n \in Nat
    BY <1>2, Sizes
  <2>. QED
    BY <2>1, <2>2
<1>5. Cardinality({s \in rest : s > LastTicket - n}) = 0
  BY <1>4, FS_EmptySet
<1>6. LastTicket - n \in FeedRows(rest)
  BY <1>2, <1>5, Sizes DEF FeedRows
<1>. QED
  BY <1>6

PageOf(k) == [asked : {k}, rows : SUBSET Ticket, next : 0 .. LastTicket]

\* A page has the newest of what is left, and its cursor parts them from the rest.
LEMMA FeedPageGives ==
  ASSUME visible \subseteq Ticket, NEW cursor \in 0 .. Top
  PROVE  LET page == FeedPage(cursor)
         IN  /\ page \in PageOf(FeedKey)
             /\ \A t \in page.rows : t < cursor /\ t >= page.next
             /\ page.next <= cursor
             /\ \A t \in visible : t < cursor => t \in page.rows \/ t < page.next
<1>. DEFINE rest == {t \in visible : t < cursor}
            rows == FeedRows(rest)
            next == IF rest = rows THEN None ELSE Min(rows)
<1>0. FeedPage(cursor) = [asked |-> FeedKey, rows |-> rows, next |-> next]
  BY DEF FeedPage
<1>1. rows \subseteq rest /\ rest \subseteq Ticket
  BY DEF FeedRows
<1>2. CASE rest = rows
  <2>1. next = 0
    BY <1>2, Sizes
  <2>. QED
    BY <1>0, <1>1, <1>2, <2>1, Sizes DEF PageOf, Ticket
<1>3. CASE rest # rows
  <2>1. rest # {}
    BY <1>1, <1>3
  <2>2. rows # {}
    BY <1>1, <2>1, SomeRows
  <2>3. Min(rows) \in rows /\ \A t \in rows : Min(rows) <= t
    BY <1>1, <2>2, LeastIsMin, Sizes
  <2>4. \A t \in rest \ rows : t < Min(rows)
    BY <1>1, <2>3, RowsAreNewest
  <2>. QED
    BY <1>0, <1>1, <1>3, <2>3, <2>4, Sizes DEF PageOf, Ticket
<1>. QED
  BY <1>2, <1>3

LEMMA CursorGives ==
  ASSUME NEW k, NEW P \in Seq(PageOf(k))
  PROVE  /\ Cursor(P) \in 0 .. Top
         /\ P = << >> => Cursor(P) = Top
         /\ P # << >> => Len(P) \in Nat \ {0} /\ Cursor(P) = P[Len(P)].next
<1>1. CASE P = << >>
  BY <1>1, Sizes DEF Cursor
<1>2. CASE P # << >>
  <2>1. Len(P) \in Nat \ {0} /\ P[Len(P)] \in PageOf(k)
    BY <1>2
  <2>2. Cursor(P) = P[Len(P)].next
    BY <1>2, <2>1 DEF Cursor, Last
  <2>. QED
    BY <1>2, <2>1, <2>2, Sizes DEF PageOf
<1>. QED
  BY <1>1, <1>2

\* The tickets of the pages are newest first, none is below the cursor, and of the
\* tickets that have been there all along none is left out above it.
Chain(P, there) ==
    /\ \A i, j \in 1 .. Len(P) : i < j => \A s \in P[i].rows, t \in P[j].rows : s > t
    /\ \A i \in 1 .. Len(P) : \A s \in P[i].rows : s >= Cursor(P)
    /\ P # << >> => \A t \in there : (\E i \in 1 .. Len(P) : t \in P[i].rows) \/ t < Cursor(P)

LEMMA EmptyChain ==
  ASSUME NEW there
  PROVE  Chain(<< >>, there)
BY DEF Chain

LEMMA SubChain ==
  ASSUME NEW P, NEW there, NEW fewer, Chain(P, there), fewer \subseteq there
  PROVE  Chain(P, fewer)
BY DEF Chain

LEMMA ChainGrows ==
  ASSUME visible \subseteq Ticket, NEW P \in Seq(PageOf(FeedKey)), NEW there, there \subseteq visible,
         Chain(P, there)
  PROVE  Chain(Append(P, FeedPage(Cursor(P))), IF P = << >> THEN visible ELSE there)
<1>. DEFINE page == FeedPage(Cursor(P))
            Q == Append(P, page)
            n == Len(P)
            steady == IF P = << >> THEN visible ELSE there
<1>1. /\ page \in PageOf(FeedKey)
      /\ \A t \in page.rows : t < Cursor(P) /\ t >= page.next
      /\ page.next <= Cursor(P)
      /\ \A t \in visible : t < Cursor(P) => t \in page.rows \/ t < page.next
  BY CursorGives, FeedPageGives
<1>. HIDE DEF page
<1>2. page.rows \subseteq Nat /\ page.next \in Nat
  <2>1. page.rows \subseteq Ticket /\ page.next \in 0 .. LastTicket
    BY <1>1 DEF PageOf
  <2>2. page.rows \subseteq Nat
    BY <2>1, Sizes
  <2>3. page.next \in Nat
    BY <2>1
  <2>. QED
    BY <2>2, <2>3
<1>3. Cursor(P) \in Nat
  BY CursorGives, Sizes
<1>4. /\ Q \in Seq(PageOf(FeedKey)) /\ n \in Nat /\ Len(Q) = n + 1 /\ Q # << >>
      /\ \A i \in 1 .. n : Q[i] = P[i]
      /\ Q[n + 1] = page
  BY <1>1
<1>5. Cursor(Q) = page.next
  BY <1>4, CursorGives
<1>6. \A i \in 1 .. n : P[i].rows \subseteq Nat
  <2>1. \A i \in 1 .. n : P[i] \in PageOf(FeedKey)
    OBVIOUS
  <2>. QED
    BY <2>1, Sizes DEF PageOf
<1>. HIDE DEF Q, n
<1>7. ASSUME NEW i \in 1 .. Len(Q), NEW j \in 1 .. Len(Q), i < j,
             NEW s \in Q[i].rows, NEW t \in Q[j].rows
      PROVE  s > t
  <2>1. CASE j <= n
    <3>1. i \in 1 .. n /\ j \in 1 .. n /\ s \in P[i].rows /\ t \in P[j].rows
      BY <1>4, <1>7, <2>1
    <3>. QED
      BY <1>7, <3>1 DEF Chain, n
  <2>2. CASE j = n + 1
    <3>1. i \in 1 .. n /\ s \in P[i].rows /\ t \in page.rows
      BY <1>4, <1>7, <2>2
    <3>2. s >= Cursor(P) /\ s \in Nat
      BY <1>6, <3>1 DEF Chain, n
    <3>. QED
      BY <1>1, <1>2, <1>3, <3>1, <3>2
  <2>. QED
    BY <1>4, <1>7, <2>1, <2>2
<1>8. ASSUME NEW i \in 1 .. Len(Q), NEW s \in Q[i].rows
      PROVE  s >= Cursor(Q)
  <2>1. CASE i \in 1 .. n
    <3>1. s \in P[i].rows /\ s \in Nat
      BY <1>4, <1>6, <1>8, <2>1
    <3>2. s >= Cursor(P)
      BY <2>1, <3>1 DEF Chain, n
    <3>3. page.next <= Cursor(P)
      BY <1>1, <1>2, <1>3
    <3>. QED
      BY <1>2, <1>3, <1>5, <3>1, <3>2, <3>3
  <2>2. CASE i = n + 1
    BY <1>1, <1>4, <1>5, <1>8, <2>2
  <2>. QED
    BY <1>4, <2>1, <2>2
<1>9. ASSUME NEW t \in steady
      PROVE  (\E i \in 1 .. Len(Q) : t \in Q[i].rows) \/ t < Cursor(Q)
  <2>1. t \in visible /\ t \in Nat
    BY <1>9, Sizes
  <2>2. CASE t < Cursor(P)
    <3>1. t \in page.rows \/ t < page.next
      BY <1>1, <2>1, <2>2
    <3>. QED
      BY <1>4, <1>5, <3>1
  <2>3. CASE ~(t < Cursor(P))
    <3>1. P # << >>
      BY <2>1, <2>3, CursorGives, Sizes DEF Ticket
    <3>2. PICK i \in 1 .. n : t \in P[i].rows
      BY <1>9, <2>3, <3>1 DEF Chain, n
    <3>. QED
      BY <1>4, <3>2
  <2>. QED
    BY <2>2, <2>3
<1>10. Chain(Q, steady)
  BY <1>7, <1>8, <1>9 DEF Chain
<1>. QED
  BY <1>10 DEF Q, page

-----------------------------------------------------------------------------
(* What the server would answer now.                                       *)

Current(P) ==
    \A i \in 1 .. Len(P) : P[i] = Answer(P[i].asked, Cursor(SubSeq(P, 1, i - 1)))

LEMMA AnswerFrame ==
  ASSUME visible' = visible, NEW a, NEW c
  PROVE  Answer(a, c)' = Answer(a, c)
BY DEF Answer, FeedPage

LEMMA CurrentFrame ==
  ASSUME visible' = visible, NEW P
  PROVE  Current(P)' <=> Current(P)
BY AnswerFrame DEF Current

LEMMA AnswerGives ==
  ASSUME visible \subseteq Ticket, NEW k, NEW c \in 0 .. Top
  PROVE  Answer(k, c) \in PageOf(k) /\ Answer(k, c).asked = k
<1>1. CASE k = FeedKey
  BY <1>1, FeedPageGives DEF Answer, PageOf
<1>2. CASE k # FeedKey
  BY <1>2, Sizes DEF Answer, PageOf
<1>. QED
  BY <1>1, <1>2

LEMMA CurrentGrows ==
  ASSUME visible \subseteq Ticket, NEW k, NEW P \in Seq(PageOf(k)), Current(P)
  PROVE  Current(Append(P, Answer(k, Cursor(P))))
<1>. DEFINE page == Answer(k, Cursor(P))
            Q == Append(P, page)
            n == Len(P)
<1>1. page \in PageOf(k) /\ page.asked = k
  BY CursorGives, AnswerGives
<1>. HIDE DEF page
<1>2. n \in Nat /\ Len(Q) = n + 1 /\ Q[n + 1] = page /\ \A i \in 1 .. n : Q[i] = P[i]
  BY <1>1
<1>3. \A i \in 1 .. n + 1 : SubSeq(Q, 1, i - 1) = SubSeq(P, 1, i - 1)
  BY <1>1
<1>4. SubSeq(P, 1, n) = P
  OBVIOUS
<1>. HIDE DEF Q, n
<1>5. ASSUME NEW i \in 1 .. Len(Q)
      PROVE  Q[i] = Answer(Q[i].asked, Cursor(SubSeq(Q, 1, i - 1)))
  <2>1. CASE i = n + 1
    <3>1. SubSeq(Q, 1, i - 1) = P
      BY <1>2, <1>3, <1>4, <2>1
    <3>. QED
      BY <1>1, <1>2, <2>1, <3>1 DEF page
  <2>2. CASE i \in 1 .. n
    BY <1>2, <1>3, <2>2 DEF Current, n
  <2>. QED
    BY <1>2, <2>1, <2>2
<1>. QED
  BY <1>5 DEF Current, Q, page

-----------------------------------------------------------------------------
\* What an entry of the cache, and a fetch under way to it, are made of.
FlightOf(k) == [asked : {k}, wanted : Nat \ {0}, pages : Seq(PageOf(k)),
                steady : SUBSET Ticket, more : BOOLEAN, missed : BOOLEAN]

EntryOf(k) == [pages : Seq(PageOf(k)), steady : SUBSET Ticket, stale : BOOLEAN,
               failed : BOOLEAN, missed : BOOLEAN, fetch : FlightOf(k) \cup {NoFetch}]

\* When the doorbell has rung, pages that nobody has marked are current, and so are those
\* that a fetch has gathered after it.
Fresh(e, rung) ==
    /\ rung /\ ~e.stale /\ ~e.missed /\ ~Fetching(e) => Current(e.pages)
    /\ rung /\ Fetching(e) /\ ~e.fetch.missed => Current(e.fetch.pages)

\* The pages of the feed join without gaps, those it shows and those under way.
Linked(e) ==
    /\ e.steady \subseteq visible /\ e.fetch.steady \subseteq visible
    /\ Chain(e.pages, e.steady)
    /\ Chain(e.fetch.pages, e.fetch.steady)

\* What every step keeps of the entry of k.
Sound(k, e, rung) ==
    /\ e \in EntryOf(k)
    /\ Fresh(e, rung)
    /\ k = FeedKey => Linked(e)

LEMMA NoFetchGives ==
  /\ NoFetch.pages = << >> /\ NoFetch.steady = {} /\ NoFetch.wanted = 0
  /\ NoFetch.more = FALSE /\ NoFetch.missed = FALSE
BY DEF NoFetch

LEMMA FlightIsFetch ==
  ASSUME NEW k, NEW f \in FlightOf(k)
  PROVE  f # NoFetch
BY NoFetchGives DEF FlightOf

LEMMA NewGives ==
  ASSUME NEW k
  PROVE  /\ New \in EntryOf(k) /\ New.fetch = NoFetch /\ New.pages = << >> /\ New.steady = {}
         /\ New.stale = FALSE /\ New.failed = FALSE /\ New.missed = FALSE
<1>1. NoFetch \in {NoFetch} /\ << >> \in Seq(PageOf(k))
  OBVIOUS
<1>. HIDE DEF NoFetch
<1>. QED
  BY <1>1 DEF New, EntryOf

LEMMA RefetchGives ==
  ASSUME NEW k, NEW e \in EntryOf(k)
  PROVE  /\ Refetch(e, k) \in EntryOf(k)
         /\ Fetching(Refetch(e, k))
         /\ Refetch(e, k).fetch.pages = << >> /\ Refetch(e, k).fetch.steady = {}
         /\ Refetch(e, k).pages = e.pages /\ Refetch(e, k).steady = e.steady
<1>. DEFINE w == IF e.pages = << >> THEN 1 ELSE Len(e.pages)
            f == [NoFetch EXCEPT !.asked = k, !.wanted = w]
<1>1. w \in Nat \ {0}
  BY DEF EntryOf
<1>2. f \in FlightOf(k) /\ f.pages = << >> /\ f.steady = {}
  <2>. HIDE DEF w
  <2>1. << >> \in Seq(PageOf(k))
    OBVIOUS
  <2>2. NoFetch \in [asked : {NoKey}, wanted : Nat, pages : Seq(PageOf(k)),
                     steady : SUBSET Ticket, more : BOOLEAN, missed : BOOLEAN]
    BY <2>1 DEF NoFetch
  <2>. QED
    BY <1>1, <2>2, NoFetchGives DEF FlightOf
<1>3. Refetch(e, k) = [e EXCEPT !.fetch = f]
  BY DEF Refetch
<1>. HIDE DEF f
<1>. QED
  BY <1>2, <1>3, FlightIsFetch DEF EntryOf, Fetching

LEMMA RefetchSound ==
  ASSUME NEW k, NEW e, NEW rung, Sound(k, e, rung)
  PROVE  Sound(k, Refetch(e, k), rung) /\ Fetching(Refetch(e, k))
<1>1. e \in EntryOf(k)
  BY DEF Sound
<1>2. Current(<< >>)
  BY DEF Current
<1>3. Fresh(Refetch(e, k), rung)
  BY <1>1, <1>2, RefetchGives DEF Fresh
<1>4. k = FeedKey => Linked(Refetch(e, k))
  BY <1>1, RefetchGives, EmptyChain DEF Linked, Sound
<1>. QED
  BY <1>1, <1>3, <1>4, RefetchGives DEF Sound

LEMMA NewSound ==
  ASSUME NEW k, NEW rung
  PROVE  Sound(k, New, rung)
<1>1. Current(<< >>)
  BY DEF Current
<1>2. Fresh(New, rung)
  BY <1>1, NewGives DEF Fresh, Fetching
<1>3. Linked(New)
  BY NewGives, NoFetchGives, EmptyChain DEF Linked
<1>. QED
  BY <1>2, <1>3, NewGives DEF Sound

LEMMA MoreSound ==
  ASSUME NEW e, NEW rung, Sound(FeedKey, e, rung)
  PROVE  Sound(FeedKey, More(e), rung) /\ Fetching(More(e))
<1>. DEFINE m == e.missed \/ e.stale \/ Fetching(e)
            f == [asked |-> FeedKey, wanted |-> Len(e.pages) + 1, pages |-> e.pages,
                  steady |-> e.steady, more |-> TRUE, missed |-> m]
<1>0. m \in BOOLEAN /\ (~m => ~e.missed /\ ~e.stale /\ ~Fetching(e))
  OBVIOUS
<1>. HIDE DEF m
<1>1. e \in EntryOf(FeedKey)
  BY DEF Sound
<1>2. f \in FlightOf(FeedKey) /\ f.pages = e.pages /\ f.steady = e.steady
      /\ (~f.missed => ~e.missed /\ ~e.stale /\ ~Fetching(e))
  <2>1. e.pages \in Seq(PageOf(FeedKey)) /\ Len(e.pages) + 1 \in Nat \ {0}
        /\ e.steady \in SUBSET Ticket
    BY <1>1 DEF EntryOf
  <2>. QED
    BY <1>0, <2>1 DEF FlightOf
<1>3. More(e) = [e EXCEPT !.fetch = f]
  BY DEF More, m
<1>. HIDE DEF f
<1>4. /\ More(e) \in EntryOf(FeedKey) /\ More(e).fetch = f /\ Fetching(More(e))
      /\ More(e).pages = e.pages /\ More(e).steady = e.steady
  BY <1>1, <1>2, <1>3, FlightIsFetch DEF EntryOf, Fetching
<1>5. Fresh(More(e), rung)
  BY <1>2, <1>4 DEF Sound, Fresh
<1>6. Linked(More(e))
  BY <1>2, <1>4 DEF Sound, Linked
<1>. QED
  BY <1>4, <1>5, <1>6 DEF Sound

LEMMA AnsweredSound ==
  ASSUME NEW k, NEW e, NEW rung, Sound(k, e, rung), Fetching(e)
  PROVE  Sound(k, Answered(e), rung) /\ Answered(e).stale = FALSE
<1>1. e \in EntryOf(k) /\ e.fetch \in FlightOf(k)
  BY DEF Sound, EntryOf, Fetching
<1>2. /\ Answered(e).pages = e.fetch.pages /\ Answered(e).steady = e.fetch.steady
      /\ Answered(e).stale = FALSE /\ Answered(e).missed = e.fetch.missed
      /\ Answered(e).fetch = NoFetch
  BY DEF Answered
<1>3. Answered(e) \in EntryOf(k)
  <2>1. NoFetch \in FlightOf(k) \cup {NoFetch}
    OBVIOUS
  <2>. QED
    BY <1>1, <2>1 DEF EntryOf, FlightOf, Answered
<1>4. Fresh(Answered(e), rung)
  BY <1>2 DEF Sound, Fresh, Fetching
<1>5. k = FeedKey => Linked(Answered(e))
  BY <1>2, NoFetchGives, EmptyChain DEF Sound, Linked
<1>. QED
  BY <1>2, <1>3, <1>4, <1>5 DEF Sound

LEMMA FailedSound ==
  ASSUME NEW k, NEW e, NEW rung, Sound(k, e, rung)
  PROVE  Sound(k, Failed(e), rung) /\ Failed(e).failed = TRUE
<1>1. e \in EntryOf(k)
  BY DEF Sound
<1>2. /\ Failed(e) \in EntryOf(k) /\ Failed(e).fetch = NoFetch
      /\ Failed(e).pages = e.pages /\ Failed(e).steady = e.steady
      /\ Failed(e).stale = TRUE /\ Failed(e).failed = TRUE
  BY <1>1 DEF Failed, EntryOf
<1>3. Fresh(Failed(e), rung)
  BY <1>2 DEF Fresh, Fetching
<1>4. k = FeedKey => Linked(Failed(e))
  BY <1>2, NoFetchGives, EmptyChain DEF Sound, Linked
<1>. QED
  BY <1>2, <1>3, <1>4 DEF Sound

LEMMA NoFetchSame ==
  ASSUME NEW f, f = NoFetch, NEW t
  PROVE  /\ [f EXCEPT !.steady = @ \ {t}] = NoFetch
         /\ [f EXCEPT !.missed = FALSE] = NoFetch
<1>1. NoFetch \in [asked : {NoKey}, wanted : {0}, pages : {<< >>}, steady : {{}},
                   more : {FALSE}, missed : {FALSE}]
  BY DEF NoFetch
<1>2. NoFetch.steady \ {t} = {}
  BY NoFetchGives
<1>. QED
  BY <1>1, <1>2, NoFetchGives

LEMMA MountedSound ==
  ASSUME NEW k, NEW e, NEW rung, NEW aged \in BOOLEAN, Sound(k, e, rung)
  PROVE  /\ Sound(k, Mounted(e, k, aged), rung)
         /\ Mounted(e, k, aged).stale /\ ~Fetching(Mounted(e, k, aged)) => Mounted(e, k, aged).failed
BY RefetchSound DEF Mounted

LEMMA InvalidatedSound ==
  ASSUME NEW k, NEW e, NEW rung, NEW shown \in BOOLEAN, NEW asked, shown => asked = k,
         Sound(k, e, rung)
  PROVE  /\ Sound(k, Invalidated(e, shown, asked), TRUE)
         /\ shown => Fetching(Invalidated(e, shown, asked))
<1>. DEFINE s == [e EXCEPT !.stale = TRUE]
            n == Invalidated(e, shown, asked)
<1>1. e \in EntryOf(k)
  BY DEF Sound
<1>2. /\ s \in EntryOf(k) /\ s.pages = e.pages /\ s.steady = e.steady /\ s.fetch = e.fetch
      /\ s.stale = TRUE
  BY <1>1 DEF EntryOf
<1>. HIDE DEF s
<1>3. CASE shown /\ (e.pages # << >> \/ ~Fetching(e))
  <2>1. n = Refetch(s, k)
    BY <1>3 DEF Invalidated, s
  <2>2. /\ Refetch(s, k) \in EntryOf(k) /\ Fetching(Refetch(s, k))
        /\ Refetch(s, k).fetch.pages = << >> /\ Refetch(s, k).fetch.steady = {}
        /\ Refetch(s, k).pages = e.pages /\ Refetch(s, k).steady = e.steady
    BY <1>2, RefetchGives
  <2>3. Current(<< >>)
    BY DEF Current
  <2>4. Fresh(Refetch(s, k), TRUE)
    BY <2>2, <2>3 DEF Fresh
  <2>5. k = FeedKey => Linked(Refetch(s, k))
    BY <2>2, EmptyChain DEF Sound, Linked
  <2>. QED
    BY <2>1, <2>2, <2>4, <2>5 DEF Sound
<1>4. CASE ~(shown /\ (e.pages # << >> \/ ~Fetching(e)))
  <2>. DEFINE f == [e.fetch EXCEPT !.missed = Fetching(e)]
  <2>1. n = [s EXCEPT !.fetch = f]
    BY <1>1, <1>2, <1>4 DEF Invalidated, s, EntryOf
  <2>2. /\ f \in FlightOf(k) \cup {NoFetch} /\ f.pages = e.fetch.pages
        /\ f.steady = e.fetch.steady
        /\ f # NoFetch => f.missed
        /\ Fetching(e) => f # NoFetch
    <3>1. CASE e.fetch = NoFetch
      <4>1. f = NoFetch
        BY <3>1, NoFetchSame DEF Fetching
      <4>. QED
        BY <3>1, <4>1 DEF Fetching
    <3>2. CASE e.fetch \in FlightOf(k) /\ e.fetch # NoFetch
      <4>1. f = [e.fetch EXCEPT !.missed = TRUE]
        BY <3>2 DEF Fetching
      <4>2. f \in FlightOf(k) /\ f.missed /\ f.pages = e.fetch.pages /\ f.steady = e.fetch.steady
        BY <3>2, <4>1 DEF FlightOf
      <4>. QED
        BY <4>2, FlightIsFetch
    <3>. QED
      BY <1>1, <3>1, <3>2 DEF EntryOf
  <2>. HIDE DEF f
  <2>3. /\ n \in EntryOf(k) /\ n.fetch = f /\ n.pages = e.pages /\ n.steady = e.steady
        /\ n.stale
    BY <1>2, <2>1, <2>2 DEF EntryOf
  <2>. HIDE DEF n
  <2>4. Fresh(n, TRUE)
    BY <2>2, <2>3 DEF Fresh, Fetching
  <2>5. k = FeedKey => Linked(n)
    BY <2>2, <2>3 DEF Sound, Linked
  <2>6. shown => Fetching(n)
    BY <1>4, <2>2, <2>3 DEF Fetching
  <2>. QED
    BY <2>3, <2>4, <2>5, <2>6 DEF Sound, n
<1>. QED
  BY <1>3, <1>4

LEMMA ReadSound ==
  ASSUME visible \subseteq Ticket, NEW k, NEW e, NEW rung, Sound(k, e, rung), Fetching(e),
         NEW n,
         n = [e EXCEPT !.fetch.pages = Append(@, Answer(e.fetch.asked, Cursor(e.fetch.pages))),
                       !.fetch.steady = IF e.fetch.pages = << >> /\ k = FeedKey THEN visible ELSE @]
  PROVE  Sound(k, n, rung) /\ Fetching(n)
<1>. DEFINE f == e.fetch
            Q == Append(f.pages, Answer(k, Cursor(f.pages)))
            there == IF f.pages = << >> /\ k = FeedKey THEN visible ELSE f.steady
            g == [f EXCEPT !.pages = Q, !.steady = there]
<1>1. e \in EntryOf(k) /\ f \in FlightOf(k) /\ f.asked = k /\ f.pages \in Seq(PageOf(k))
      /\ f.steady \subseteq Ticket
  BY DEF Sound, EntryOf, Fetching, FlightOf
<1>2. Q \in Seq(PageOf(k))
  BY <1>1, CursorGives, AnswerGives
<1>3. there \in SUBSET Ticket
  BY <1>1
<1>4. k = FeedKey => Chain(Q, there) /\ there \subseteq visible
  <2>1. Answer(FeedKey, Cursor(f.pages)) = FeedPage(Cursor(f.pages))
    BY DEF Answer
  <2>. QED
    BY <1>1, <2>1, ChainGrows DEF Sound, Linked
<1>5. Current(f.pages) => Current(Q)
  BY <1>1, CurrentGrows
<1>6. n = [e EXCEPT !.fetch = g]
  BY <1>1
<1>. HIDE DEF Q, there
<1>7. g \in FlightOf(k) /\ g.pages = Q /\ g.steady = there /\ g.missed = f.missed
  BY <1>1, <1>2, <1>3 DEF FlightOf
<1>. HIDE DEF g
<1>8. /\ n \in EntryOf(k) /\ n.fetch = g /\ Fetching(n)
      /\ n.pages = e.pages /\ n.steady = e.steady
  BY <1>1, <1>6, <1>7, FlightIsFetch DEF EntryOf, Fetching
<1>9. Fresh(n, rung)
  BY <1>5, <1>7, <1>8 DEF Sound, Fresh
<1>10. k = FeedKey => Linked(n)
  BY <1>4, <1>7, <1>8 DEF Sound, Linked
<1>. QED
  BY <1>8, <1>9, <1>10 DEF Sound

\* An entry after the ticket t came or went.
LEMMA WithoutGives ==
  ASSUME NEW k, NEW e \in EntryOf(k), NEW t, NEW n, n = Without(e, t)
  PROVE  /\ n \in EntryOf(k) /\ n.pages = e.pages /\ n.steady = e.steady \ {t}
         /\ n.fetch.pages = e.fetch.pages /\ n.fetch.steady = e.fetch.steady \ {t}
         /\ n.stale = e.stale /\ n.failed = e.failed
         /\ Fetching(n) <=> Fetching(e)
<1>. DEFINE f == [e.fetch EXCEPT !.steady = @ \ {t}]
<1>2. f \in FlightOf(k) \cup {NoFetch} /\ f.pages = e.fetch.pages /\ f.steady = e.fetch.steady \ {t}
      /\ (f = NoFetch <=> e.fetch = NoFetch)
  <2>1. CASE e.fetch \in FlightOf(k)
    <3>1. f \in FlightOf(k) /\ f.pages = e.fetch.pages /\ f.steady = e.fetch.steady \ {t}
      BY <2>1 DEF FlightOf
    <3>. QED
      BY <2>1, <3>1, FlightIsFetch
  <2>2. CASE e.fetch = NoFetch
    BY <2>2, NoFetchGives, NoFetchSame
  <2>. QED
    BY <2>1, <2>2 DEF EntryOf
<1>3. n = [e EXCEPT !.steady = @ \ {t}, !.fetch = f]
  BY DEF EntryOf, Without
<1>. HIDE DEF f
<1>. QED
  BY <1>2, <1>3 DEF EntryOf, Fetching

\* A change that rings: until it does, nothing is said of what is current.
LEMMA ChangedSound ==
  ASSUME NEW k, NEW e, NEW t, NEW rung, Sound(k, e, rung), NEW n, NEW quiet, ~quiet,
         n = Without(e, t),
         visible \ {t} \subseteq visible'
  PROVE  Sound(k, n, quiet)'
<1>1. e \in EntryOf(k)
  BY DEF Sound
<1>2. k = FeedKey => Linked(n)'
  BY <1>1, WithoutGives, SubChain DEF Sound, Linked
<1>3. Fresh(n, quiet)'
  BY DEF Fresh
<1>. QED
  BY <1>1, <1>2, <1>3, WithoutGives DEF Sound

LEMMA UnrungGives ==
  ASSUME NEW k, NEW e \in EntryOf(k)
  PROVE  /\ Unrung(e) \in EntryOf(k) /\ Unrung(e).pages = e.pages /\ Unrung(e).steady = e.steady
         /\ Unrung(e).fetch.pages = e.fetch.pages /\ Unrung(e).fetch.steady = e.fetch.steady
         /\ Unrung(e).stale = e.stale /\ Unrung(e).failed = e.failed
         /\ Fetching(Unrung(e)) <=> Fetching(e)
         /\ Unrung(e).missed = TRUE
         /\ Unrung(e).fetch.missed \/ Unrung(e).fetch.pages = << >>
<1>. DEFINE late == e.fetch.missed \/ e.fetch.pages # << >>
            f == [e.fetch EXCEPT !.missed = late]
<1>1. /\ f \in FlightOf(k) \cup {NoFetch} /\ f.pages = e.fetch.pages /\ f.steady = e.fetch.steady
      /\ (f = NoFetch <=> e.fetch = NoFetch)
      /\ f.missed \/ f.pages = << >>
  <2>1. CASE e.fetch \in FlightOf(k)
    <3>1. late \in BOOLEAN
      BY <2>1 DEF FlightOf
    <3>2. late \/ e.fetch.pages = << >>
      OBVIOUS
    <3>. HIDE DEF late
    <3>3. f \in FlightOf(k) /\ f.pages = e.fetch.pages /\ f.steady = e.fetch.steady /\ f.missed = late
      BY <2>1, <3>1 DEF FlightOf
    <3>. QED
      BY <2>1, <3>2, <3>3, FlightIsFetch
  <2>2. CASE e.fetch = NoFetch
    <3>1. late = FALSE
      BY <2>2, NoFetchGives
    <3>2. f = NoFetch
      BY <2>2, <3>1, NoFetchSame
    <3>. QED
      BY <2>2, <3>2, NoFetchGives
  <2>. QED
    BY <2>1, <2>2 DEF EntryOf
<1>2. Unrung(e) = [e EXCEPT !.missed = TRUE, !.fetch = f]
  BY DEF EntryOf, Unrung
<1>. HIDE DEF f
<1>. QED
  BY <1>1, <1>2 DEF EntryOf, Fetching

\* A change that does not: what was read before it is marked as missed.
LEMMA UnrungSound ==
  ASSUME NEW k, NEW m, NEW rung, Sound(k, m, rung)', NEW quiet
  PROVE  Sound(k, Unrung(m), quiet)'
<1>1. m \in EntryOf(k)
  BY DEF Sound
<1>2. Unrung(m).missed = TRUE /\ (Unrung(m).fetch.missed \/ Unrung(m).fetch.pages = << >>)
  BY <1>1, UnrungGives
<1>3. k = FeedKey => Linked(Unrung(m))'
  BY <1>1, UnrungGives DEF Sound, Linked
<1>4. Current(<< >>)'
  BY DEF Current
<1>5. Fresh(Unrung(m), quiet)'
  BY <1>2, <1>4 DEF Fresh
<1>. QED
  BY <1>1, <1>3, <1>5, UnrungGives DEF Sound

-----------------------------------------------------------------------------
(* The cache as a whole.                                                   *)

\* Every entry is sound, and the page that is open has one.
CacheOK ==
    /\ visible \subseteq Ticket /\ bell \in BOOLEAN
    /\ cache = [k \in DOMAIN cache |-> cache[k]]
    /\ Shown \in DOMAIN cache
    /\ \A k \in DOMAIN cache : Sound(k, cache[k], ~bell)

\* The page that is open fetches what is stale, or has failed to.
Tended == cache[Shown].stale /\ ~Fetching(cache[Shown]) => cache[Shown].failed

ListInv == CacheOK /\ Tended

LEMMA AsksShown == Request = Shown
BY DEF Request, Shown, QueryKey

LEMMA AsksShownNext == Request' = Shown'
BY DEF Request, Shown, QueryKey

LEMMA SoundFrame ==
  ASSUME UNCHANGED visible, NEW k, NEW e, NEW rung, Sound(k, e, rung)
  PROVE  Sound(k, e, rung)'
BY CurrentFrame DEF Sound, Fresh, Linked

LEMMA EntrySound ==
  ASSUME CacheOK, NEW k
  PROVE  Sound(k, Entry(k), ~bell)
BY NewSound DEF CacheOK, Entry

\* A step that writes one entry of the cache.
LEMMA OneEntry ==
  ASSUME CacheOK, UNCHANGED <<visible, bell>>,
         NEW k, NEW e, Sound(k, e, ~bell), cache' = Put(cache, k, e),
         Shown' = k \/ (Shown' = Shown)
  PROVE  CacheOK'
<1>1. /\ DOMAIN cache' = DOMAIN cache \cup {k}
      /\ \A x \in DOMAIN cache' : cache'[x] = IF x = k THEN e ELSE cache[x]
      /\ cache' = [x \in DOMAIN cache' |-> cache'[x]]
  BY DEF Put
<1>2. ASSUME NEW x \in DOMAIN cache'
      PROVE  Sound(x, cache[x], ~bell)'
  <2>1. CASE x = k
    <3>1. Sound(k, e, ~bell)'
      BY SoundFrame DEF Sound, Fresh
    <3>. QED
      BY <1>1, <2>1, <3>1 DEF Sound, Fresh
  <2>2. CASE x # k
    <3>1. x \in DOMAIN cache /\ cache'[x] = cache[x]
      BY <1>1, <1>2, <2>2
    <3>. QED
      BY <3>1, CurrentFrame DEF CacheOK, Sound, Fresh, Linked
  <2>. QED
    BY <2>1, <2>2
<1>. QED
  BY <1>1, <1>2 DEF CacheOK

LEMMA PutIsExcept ==
  ASSUME NEW c, c = [x \in DOMAIN c |-> c[x]], NEW k \in DOMAIN c, NEW e
  PROVE  [c EXCEPT ![k] = e] = Put(c, k, e)
BY DEF Put

LEMMA InitList ==
  ASSUME Init
  PROVE  ListInv
<1>1. CacheOK /\ Fetching(cache[Shown])
  <2>. DEFINE e == Refetch(New, Shown)
  <2>1. Sound(Shown, e, ~bell) /\ Fetching(e)
    BY NewSound, RefetchSound
  <2>2. cache = Put(<< >>, Shown, e)
    BY AsksShown DEF Init
  <2>. HIDE DEF e
  <2>3. DOMAIN cache = {Shown} /\ cache[Shown] = e /\ cache = [k \in DOMAIN cache |-> cache[k]]
    BY <2>2 DEF Put
  <2>4. visible \subseteq Ticket /\ bell \in BOOLEAN
    BY SizesAssumption DEF Init, Ticket
  <2>. QED
    BY <2>1, <2>3, <2>4 DEF CacheOK
<1>. QED
  BY <1>1 DEF ListInv, Tended

LEMMA GoList ==
  ASSUME ListInv, NEW place, NEW next, Go(place, next)
  PROVE  ListInv'
<1>1. UNCHANGED <<visible, bell>> /\ CacheOK
  BY DEF Go, ListInv
<1>2. CASE Shown' = Shown
  <2>1. cache' = cache
    BY <1>2 DEF Go
  <2>2. CacheOK'
    <3>1. \A k \in DOMAIN cache : Sound(k, cache[k], ~bell)'
      BY <1>1, <2>1, CurrentFrame DEF CacheOK, Sound, Fresh, Linked
    <3>. QED
      BY <1>1, <1>2, <2>1, <3>1 DEF CacheOK
  <2>. QED
    BY <1>2, <2>1, <2>2 DEF ListInv, Tended
<1>3. CASE Shown' # Shown
  <2>1. PICK aged \in BOOLEAN :
           cache' = Put(cache, Shown', Mounted(Entry(Shown'), Shown', aged))
    BY <1>3, AsksShownNext DEF Go
  <2>. DEFINE k == Shown'
              e == Mounted(Entry(k), k, aged)
  <2>2. Sound(k, e, ~bell) /\ (e.stale /\ ~Fetching(e) => e.failed)
    BY <1>1, EntrySound, MountedSound
  <2>3. cache' = Put(cache, k, e)
    BY <2>1
  <2>. HIDE DEF e
  <2>4. CacheOK'
    BY <1>1, <2>2, <2>3, OneEntry
  <2>5. cache'[Shown'] = e
    BY <2>3 DEF Put
  <2>. QED
    BY <2>2, <2>4, <2>5 DEF ListInv, Tended
<1>. QED
  BY <1>2, <1>3

\* A step of one entry that leaves the page that is open.
LEMMA EntryStep ==
  ASSUME ListInv, UNCHANGED <<visible, bell, at, url>>,
         NEW k \in DOMAIN cache, NEW e, Sound(k, e, ~bell),
         cache' = [cache EXCEPT ![k] = e],
         e.stale /\ ~Fetching(e) => e.failed
  PROVE  ListInv'
<1>1. Shown' = Shown
  BY DEF Shown
<1>2. cache' = Put(cache, k, e)
  BY PutIsExcept DEF ListInv, CacheOK
<1>3. CacheOK'
  BY <1>1, <1>2, OneEntry DEF ListInv
<1>4. cache'[Shown'] \in {e, cache[Shown]}
  BY <1>1, <1>2 DEF Put, ListInv, CacheOK
<1>. QED
  BY <1>3, <1>4 DEF ListInv, Tended

LEMMA LoadMoreList ==
  ASSUME ListInv, LoadMore
  PROVE  ListInv'
<1>1. FeedKey \in DOMAIN cache /\ Entry(FeedKey) = cache[FeedKey]
  BY NewGives DEF LoadMore, Entry
<1>2. Sound(FeedKey, More(cache[FeedKey]), ~bell) /\ Fetching(More(cache[FeedKey]))
  BY <1>1, MoreSound DEF ListInv, CacheOK
<1>3. cache' = [cache EXCEPT ![FeedKey] = More(cache[FeedKey])]
  BY DEF LoadMore
<1>. QED
  BY <1>1, <1>2, <1>3, EntryStep DEF LoadMore

LEMMA ReadList ==
  ASSUME ListInv, NEW k \in DOMAIN cache, Read(k)
  PROVE  ListInv'
<1>. DEFINE e == cache[k]
            n == [e EXCEPT !.fetch.pages = Append(@, Answer(e.fetch.asked, Cursor(e.fetch.pages))),
                           !.fetch.steady = IF e.fetch.pages = << >> /\ k = FeedKey
                                            THEN visible ELSE @]
<1>1. Sound(k, n, ~bell) /\ Fetching(n)
  BY ReadSound DEF ListInv, CacheOK, Read
<1>2. cache' = [cache EXCEPT ![k] = n]
  BY DEF Read
<1>. HIDE DEF n
<1>. QED
  BY <1>1, <1>2, EntryStep DEF Read

LEMMA ArriveList ==
  ASSUME ListInv, NEW k \in DOMAIN cache, Arrive(k)
  PROVE  ListInv'
<1>1. Sound(k, Answered(cache[k]), ~bell) /\ Answered(cache[k]).stale = FALSE
  BY AnsweredSound DEF ListInv, CacheOK, Arrive
<1>. QED
  BY <1>1, EntryStep DEF Arrive

LEMMA FailList ==
  ASSUME ListInv, NEW k \in DOMAIN cache, Refuse(k) \/ Fail(k)
  PROVE  ListInv'
<1>1. Sound(k, Failed(cache[k]), ~bell) /\ Failed(cache[k]).failed
  BY FailedSound DEF ListInv, CacheOK
<1>. QED
  BY <1>1, EntryStep DEF Refuse, Fail

LEMMA ChangeList ==
  ASSUME ListInv, NEW t \in Ticket, Change(t)
  PROVE  ListInv'
<1>1. Shown' = Shown /\ bell' = TRUE /\ visible' \subseteq Ticket /\ visible \ {t} \subseteq visible'
      /\ DOMAIN cache' = DOMAIN cache /\ cache' = [k \in DOMAIN cache' |-> cache'[k]]
  BY DEF Change, Shift, Shown, ListInv, CacheOK
<1>2. ASSUME NEW k \in DOMAIN cache
      PROVE  /\ Sound(k, cache[k], ~bell)'
             /\ cache'[k].stale = cache[k].stale /\ cache'[k].failed = cache[k].failed
             /\ Fetching(cache'[k]) <=> Fetching(cache[k])
  <2>0. PICK e : e = cache[k]
    OBVIOUS
  <2>1. PICK n : n = Without(e, t)
    OBVIOUS
  <2>2. cache'[k] = n
    BY <2>0, <2>1 DEF Change
  <2>3. PICK quiet \in BOOLEAN : ~quiet
    OBVIOUS
  <2>4. /\ Sound(k, n, quiet)'
        /\ n.stale = e.stale /\ n.failed = e.failed
        /\ Fetching(n) <=> Fetching(e)
    <3>1. PICK rung : Sound(k, e, rung)
      BY <2>0 DEF ListInv, CacheOK
    <3>2. visible \ {t} \subseteq visible' /\ e \in EntryOf(k)
      BY <1>1, <3>1 DEF Sound
    <3>. QED
      BY <2>1, <2>3, <3>1, <3>2, ChangedSound, WithoutGives
  <2>. QED
    BY <1>1, <2>0, <2>2, <2>3, <2>4 DEF Sound, Fresh
<1>. QED
  BY <1>1, <1>2 DEF ListInv, CacheOK, Tended

LEMMA ChangeUnrungList ==
  ASSUME ListInv, NEW t \in Ticket, ChangeUnrung(t)
  PROVE  ListInv'
<1>1. Shown' = Shown /\ bell' = bell /\ visible' \subseteq Ticket /\ visible \ {t} \subseteq visible'
      /\ DOMAIN cache' = DOMAIN cache /\ cache' = [k \in DOMAIN cache' |-> cache'[k]]
  BY DEF ChangeUnrung, Shift, Shown, ListInv, CacheOK
<1>2. ASSUME NEW k \in DOMAIN cache
      PROVE  /\ Sound(k, cache[k], ~bell)'
             /\ cache'[k].stale = cache[k].stale /\ cache'[k].failed = cache[k].failed
             /\ Fetching(cache'[k]) <=> Fetching(cache[k])
  <2>0. PICK e : e = cache[k]
    OBVIOUS
  <2>1. PICK m : m = Without(e, t)
    OBVIOUS
  <2>3. cache'[k] = Unrung(m)
    BY <2>0, <2>1 DEF ChangeUnrung
  <2>4. PICK rung \in BOOLEAN : rung <=> ~bell
    OBVIOUS
  <2>5. PICK quiet \in BOOLEAN : ~quiet
    OBVIOUS
  <2>6. Sound(k, e, rung)
    BY <2>0, <2>4 DEF ListInv, CacheOK, Sound, Fresh
  <2>7. e \in EntryOf(k) /\ m \in EntryOf(k)
    BY <2>1, <2>6, WithoutGives DEF Sound
  <2>8. Sound(k, m, quiet)'
    BY <1>1, <2>1, <2>5, <2>6, ChangedSound
  <2>9. Sound(k, Unrung(m), rung)'
    BY <2>8, UnrungSound
  <2>10. m.stale = e.stale /\ m.failed = e.failed /\ (Fetching(m) <=> Fetching(e))
    BY <2>1, <2>7, WithoutGives
  <2>11. /\ Unrung(m).stale = m.stale /\ Unrung(m).failed = m.failed
         /\ Fetching(Unrung(m)) <=> Fetching(m)
    BY <2>7, UnrungGives
  <2>. QED
    BY <1>1, <2>0, <2>3, <2>4, <2>9, <2>10, <2>11 DEF Sound, Fresh
<1>. QED
  BY <1>1, <1>2 DEF ListInv, CacheOK, Tended

LEMMA RingList ==
  ASSUME ListInv, Ring
  PROVE  ListInv'
<1>1. Shown' = Shown /\ UNCHANGED visible /\ bell' = FALSE
      /\ DOMAIN cache' = DOMAIN cache /\ cache' = [k \in DOMAIN cache' |-> cache'[k]]
      /\ \A k \in DOMAIN cache : cache'[k] = Invalidated(cache[k], k = Shown, Shown)
  BY AsksShown DEF Ring, Shown
<1>2. ASSUME NEW k \in DOMAIN cache
      PROVE  /\ Sound(k, cache[k], ~bell)'
             /\ k = Shown => Fetching(cache'[k])
  <2>1. PICK shown \in BOOLEAN : shown <=> k = Shown
    OBVIOUS
  <2>2. PICK n : n = Invalidated(cache[k], shown, Shown)
    OBVIOUS
  <2>3. cache'[k] = n
    BY <1>1, <2>1, <2>2
  <2>4. Sound(k, n, TRUE) /\ (k = Shown => Fetching(n))
    BY <2>1, <2>2, InvalidatedSound DEF ListInv, CacheOK
  <2>5. Sound(k, n, TRUE)'
    BY <1>1, <2>4, SoundFrame
  <2>. QED
    BY <1>1, <2>3, <2>4, <2>5 DEF Sound, Fresh
<1>. QED
  BY <1>1, <1>2 DEF ListInv, CacheOK, Tended

-----------------------------------------------------------------------------
(* The addresses and the pages together.                                   *)

\* The page, and every page that Back or Forward may lead to, is at an address
\* that makes sense.
AddressesOK ==
    /\ staff \in BOOLEAN
    /\ Sense(url, staff)
    /\ \A k \in DOMAIN cache \ {FeedKey} : Sense(k, staff)

LEMMA InitAddresses ==
  ASSUME Init
  PROVE  AddressesOK
<1>1. SharedLink \in HeaderSearches
  BY DEF SharedLink, HeaderSearches
<1>2. staff \in BOOLEAN /\ Sense(url, staff)
  BY <1>1, BareSense, LinksSense DEF Init
<1>3. DOMAIN cache = {Shown}
  BY DEF Init, Put
<1>4. Shown \in {FeedKey, Asks(url)}
  BY DEF Shown, QueryKey
<1>. QED
  BY <1>2, <1>3, <1>4, AsksSense DEF AddressesOK

LEMMA GoAddresses ==
  ASSUME AddressesOK, NEW place, NEW next, Sense(next, staff), Go(place, next)
  PROVE  AddressesOK'
<1>1. staff' = staff /\ Sense(url, staff)'
  BY DEF Go, Sense
<1>2. DOMAIN cache' \subseteq DOMAIN cache \cup {Shown'}
  BY DEF Go, Put
<1>3. Shown' \in {FeedKey, Asks(next)}
  BY DEF Go, Shown, QueryKey
<1>4. ASSUME NEW k \in DOMAIN cache', k # FeedKey
      PROVE  Sense(k, staff)
  <2>1. Sense(Asks(next), staff)
    BY AsksSense
  <2>. QED
    BY <1>2, <1>3, <1>4, <2>1 DEF AddressesOK
<1>. QED
  BY <1>1, <1>4 DEF AddressesOK, Sense

LEMMA NextAddresses ==
  ASSUME AddressesOK, [Next]_vars
  PROVE  AddressesOK'
<1>1. ASSUME NEW next \in Controls(url, staff, Pages)
      PROVE  Sense(next, staff)
  BY ControlsSense DEF AddressesOK
<1>2. CASE Click
  BY <1>1, <1>2, GoAddresses DEF Click
<1>3. CASE Follow
  BY <1>3, BareSense, LinksSense, GoAddresses DEF Follow, AddressesOK
<1>4. CASE Travel
  BY <1>4, BareSense, GoAddresses DEF Travel, AddressesOK
<1>5. CASE UNCHANGED <<staff, url, DOMAIN cache>>
  BY <1>5 DEF AddressesOK, Sense
<1>6. CASE \/ LoadMore \/ Ring
           \/ \E k \in DOMAIN cache : Read(k) \/ Arrive(k) \/ Refuse(k) \/ Fail(k)
           \/ \E t \in Ticket : Change(t) \/ ChangeUnrung(t)
           \/ UNCHANGED vars
  BY <1>5, <1>6 DEF LoadMore, Ring, Read, Arrive, Refuse, Fail, Change, ChangeUnrung, Shift, vars
<1>. QED
  BY <1>2, <1>3, <1>4, <1>6 DEF Next

\* Every filter lives in the URL (TicketsPage.tsx), for any sequence of clicks, links
\* and Back: the server refuses what the page then asks for what the reader typed only (a
\* search text of one character or of more than 100, or two dates in the wrong order),
\* exactly one view is drawn as pressed, and each card of the dashboard but "Active
\* tickets" leads to the list that it counts.
THEOREM UrlsMakeSenseAlways == Spec => []UrlsMakeSense
<1>1. AddressesOK => UrlsMakeSense
  <2>. SUFFICES ASSUME AddressesOK PROVE UrlsMakeSense
    OBVIOUS
  <2>1. ASSUME NEW next \in {url} \cup Controls(url, staff, Pages)
        PROVE  /\ Accepts(next) \/ Mistyped(next)
               /\ Cardinality(Pressed(next, staff)) = 1
    <3>1. staff \in BOOLEAN /\ Sense(next, staff)
      BY ControlsSense DEF AddressesOK
    <3>2. Accepts(next) \/ Mistyped(next)
      BY <3>1 DEF Sense, Accepts, Mistyped
    <3>. QED
      BY <3>1, <3>2, OneViewPressed
  <2>2. \A c \in DOMAIN CardLinks[staff] \ {"active"} :
           CountQueries[staff][c] = {CardLinks[staff][c]}
    BY CardsCount DEF AddressesOK
  <2>. QED
    BY <2>1, <2>2 DEF UrlsMakeSense
<1>. QED
  BY <1>1, InitAddresses, NextAddresses, PTL DEF Spec

LEMMA NextList ==
  ASSUME ListInv, [Next]_vars
  PROVE  ListInv'
<1>1. CASE Click \/ Follow \/ Travel
  BY <1>1, GoList DEF Click, Follow, Travel
<1>2. CASE UNCHANGED vars
  <2>1. Shown' = Shown /\ UNCHANGED <<visible, bell, cache>>
    BY <1>2 DEF vars, Shown
  <2>2. \A k \in DOMAIN cache : Sound(k, cache[k], ~bell)'
    BY <2>1, CurrentFrame DEF ListInv, CacheOK, Sound, Fresh, Linked
  <2>. QED
    BY <2>1, <2>2 DEF ListInv, CacheOK, Tended
<1>. QED
  BY <1>1, <1>2, LoadMoreList, ReadList, ArriveList, FailList, ChangeList,
     ChangeUnrungList, RingList DEF Next

\* The pages in the query cache, and those under way to it, are well-formed, answer the
\* key they are kept under, and are current or marked as stale or missed; the page
\* that is open fetches what is stale or says that it could not.
THEOREM ListInvAlways == Spec => []ListInv
BY InitList, NextList, PTL DEF Spec

\* The rows that TicketsPage.tsx and ActivityPage.tsx put on the screen answer the URL
\* above them, and once every doorbell has rung and been answered they are what the server
\* would answer now, however many pages the feed has grown to and in whatever order the
\* answers, the faults and the clicks came; except, until the next fetch, for rows read
\* before a change that rings nobody (a change of the reader's teams), or before a bell
\* that met a first fetch or one that "Load more" or another page left.
THEOREM ShownIsCurrentAlways == Spec => []ShownIsCurrent
<1>1. ListInv => ShownIsCurrent
  <2>. SUFFICES ASSUME ListInv PROVE ShownIsCurrent
    OBVIOUS
  <2>. DEFINE e == cache[Shown]
  <2>1. Entry(Shown) = e /\ Sound(Shown, e, ~bell) /\ (e.stale /\ ~Fetching(e) => e.failed)
    BY DEF ListInv, CacheOK, Tended, Entry
  <2>. HIDE DEF e
  <2>2. ASSUME at = "tickets", e.pages # << >>
        PROVE  e.pages[1].asked = Asks(url)
    <3>1. Shown = Asks(url)
      BY <2>2 DEF Shown, QueryKey
    <3>2. e.pages \in Seq(PageOf(Shown)) /\ e.pages[1] \in PageOf(Shown)
      BY <2>1, <2>2 DEF Sound, EntryOf
    <3>. QED
      BY <3>1, <3>2 DEF PageOf
  <2>3. ASSUME AtRest, ~e.missed
        PROVE  Current(e.pages)
    BY <2>1, <2>3 DEF AtRest, Sound, Fresh
  <2>. QED
    BY <2>1, <2>2, <2>3 DEF ShownIsCurrent, Current
<1>. QED
  BY <1>1, ListInvAlways, PTL

\* The feed of list_tickets_cursor and ActivityPage.tsx shows no ticket twice and skips
\* none that has been there since its first page was read, whatever comes and goes
\* between its pages.
THEOREM FeedHasNoGapsAlways == Spec => []FeedHasNoGaps
<1>1. ListInv => FeedHasNoGaps
  <2>. SUFFICES ASSUME ListInv PROVE FeedHasNoGaps
    OBVIOUS
  <2>. DEFINE e == Entry(FeedKey)
  <2>1. Chain(e.pages, e.steady)
    BY EntrySound DEF ListInv, Sound, Linked
  <2>. QED
    BY <2>1 DEF Chain, FeedHasNoGaps
<1>. QED
  BY <1>1, ListInvAlways, PTL
=============================================================================
