---------------------------- MODULE EventListing ----------------------------
(***************************************************************************)
(* The listing of events as one visitor sees it (webapp.py, and            *)
(* query_events and list_events_on_date of storage.py): tabs, a search,    *)
(* pages, the preferred number of rows.  A page is made from two queries,  *)
(* each of which sees the table as it is then; links carry the page size,  *)
(* so that pages which are asked for one after another fit together.       *)
(* No name is one of SyncControl, the other part of the web application:   *)
(* WebProofs extends both.                                                 *)
(***************************************************************************)
EXTENDS FiniteSets, Integers, Sequences

CONSTANTS
  Event,        \* event identifiers
  Rank,         \* per tab: how events of one day are ordered (by identifier,
                \* by title)
  RenditionsOf, \* per event: start, end and whether a search finds it
  LastDay,      \* bound: the last day of the calendar
  Asked,        \* pages, page sizes and windows of URLs that are typed in
  Saved,        \* numbers of rows that are entered as a preference
  DefaultTableSize, DefaultPageSize, MaxPageSize,
  Absent        \* no date, no preference

ASSUME ListingAssumption ==
  /\ IsFiniteSet(Event)
  /\ RenditionsOf \in [Event -> SUBSET [start : Nat \cup {Absent},
                                        end : Nat \cup {Absent}, hit : BOOLEAN]]
  /\ Rank \in [{"recent", "upcoming"} -> [Event -> Nat]]
  /\ \A tab \in DOMAIN Rank, d, e \in Event : Rank[tab][d] = Rank[tab][e] => d = e
  /\ LastDay \in Nat \ {0}
  /\ Asked \subseteq [page : Int, size : Int, days : Int]
  /\ Saved \subseteq Int
  /\ MaxPageSize \in Nat
  /\ {DefaultTableSize, DefaultPageSize} \subseteq 1..MaxPageSize

Day == 1..LastDay

VARIABLES
  table,    \* per event: its rendition and the day it was first seen
  today,    \* the calendar
  site,     \* the number of rows that the administrator has set
  own,      \* the number of rows that the visitor prefers
  request,  \* what the browser has asked for
  view,     \* what it shows, until something else is asked for
  walk,     \* the rows seen since the first page, if nothing has changed
  changed   \* whether something has changed since the events were counted

listingVars == <<table, today, site, own, request, view, walk, changed>>

NoRow == [seen |-> 0]
Tab == DOMAIN Rank
Broken == <<Absent>>

\* stage: before the events are counted, and before the page is read.
NoRequest == [stage |-> "none"]
NoView == [tab |-> "none"]

Stored == {e \in Event : table[e] # NoRow}

ListingInit ==
  /\ table = [e \in Event |-> NoRow]
  /\ today = 1
  /\ site = Absent
  /\ own = Absent
  /\ request = NoRequest
  /\ view = NoView
  /\ walk = Broken
  /\ changed = FALSE

Lower(a, b) == IF a <= b THEN a ELSE b
Upper(a, b) == IF a >= b THEN a ELSE b
Within(low, n, high) == Upper(low, Lower(high, n))

-----------------------------------------------------------------------------
\* The events change by syncs, and days pass.

Disturb == walk' = Broken /\ changed' = TRUE

\* A sync writes an event as it is in the source; the day it was first seen is
\* kept.
Write(e, r) ==
  /\ r \in RenditionsOf[e]
  /\ table' = [table EXCEPT ![e] =
       [start |-> r.start, end |-> r.end, hit |-> r.hit,
        seen |-> IF @ = NoRow THEN today ELSE @.seen]]
  /\ table' # table
  /\ Disturb
  /\ UNCHANGED <<today, site, own, request, view>>

Drop(e) ==
  /\ table[e] # NoRow
  /\ table' = [table EXCEPT ![e] = NoRow]
  /\ Disturb
  /\ UNCHANGED <<today, site, own, request, view>>

Midnight ==
  /\ today < LastDay
  /\ today' = today + 1
  /\ Disturb
  /\ UNCHANGED <<table, site, own, request, view>>

-----------------------------------------------------------------------------
\* The number of rows per page.

SaveSettings(n) ==
  /\ 1 <= n /\ n <= MaxPageSize
  /\ site' = n
  /\ UNCHANGED <<table, today, own, request, view, walk, changed>>

SavePreference(n) ==
  /\ 1 <= n /\ n <= MaxPageSize
  /\ own' = n
  /\ UNCHANGED <<table, today, site, request, view, walk, changed>>

DropPreference ==
  /\ own' = Absent
  /\ UNCHANGED <<table, today, site, request, view, walk, changed>>

DefaultSize ==
  IF own # Absent THEN own ELSE IF site # Absent THEN site ELSE DefaultTableSize

\* A size without an upper bound.
UnboundedSize(n) == IF n <= 0 THEN DefaultPageSize ELSE n
NormalSize(n) == IF n <= 0 THEN DefaultPageSize ELSE Within(1, n, MaxPageSize)
SizeOf(q) == NormalSize(IF q.size = 0 THEN DefaultSize ELSE q.size)
NormalDays(n) == Within(1, n, 365)

-----------------------------------------------------------------------------
\* query_events.

\* What a view selects, and the order in which it is shown.
Matching(q, day) ==
  {e \in Stored :
     /\ q.search => table[e].hit
     /\ IF q.tab = "recent"
          THEN /\ table[e].seen >= day - q.days
               /\ table[e].start = Absent \/ table[e].start >= day
          ELSE table[e].start # Absent /\ table[e].start >= day}

Before(tab, d, e) ==
  LET a == IF tab = "recent" THEN table[e].seen ELSE table[d].start
      b == IF tab = "recent" THEN table[d].seen ELSE table[e].start
  IN  a < b \/ (a = b /\ Rank[tab][d] < Rank[tab][e])

\* An event comes after all that are before it; no two have one place.
Place(q, day, e) ==
  1 + Cardinality({d \in Matching(q, day) : Before(q.tab, d, e)})
Listed(q, day) ==
  [k \in 1..Cardinality(Matching(q, day)) |->
     CHOOSE e \in Matching(q, day) : Place(q, day, e) = k]

PagesOf(total, size) == Upper(1, (total + size - 1) \div size)

\* The page that is asked for, whether there is one or not.
UnclampedPage(page, pages) == Upper(1, page)
CurrentPage(page, pages) == Lower(Upper(1, page), pages)

\* The rows of a page, from the second query.
PageRows(q, page, size, day) ==
  LET all == Listed(q, day)
  IN  SubSeq(all, (page - 1) * size + 1, Lower(page * size, Len(all)))

-----------------------------------------------------------------------------
\* Requests.

Ask(tab, search, page, size, days, next) ==
  /\ request' = [stage |-> "count", tab |-> tab, search |-> search, page |-> page,
                 size |-> size, days |-> NormalDays(days), next |-> next]
  /\ view' = NoView
  /\ UNCHANGED <<table, today, site, own, walk, changed>>

Idle == request = NoRequest
Shown == view # NoView

\* A URL is typed in or opened by a link of the navigation.
OpenAddress(tab, search, a) ==
  /\ Idle
  /\ Ask(tab, search, a.page, a.size, a.days, FALSE)

\* The field of the search asks for the first page of what it finds.
Search(search) ==
  /\ Idle /\ Shown
  /\ Ask(view.tab, search, 1, view.size, view.days, FALSE)

\* Links without the page size: the next page has the preferred size.
FollowWithoutSize(step) ==
  /\ Idle /\ Shown
  /\ view.page + step \in 1..view.pages
  /\ Ask(view.tab, view.search, view.page + step, 0, view.days, step = 1)

\* The links to the previous and to the next page.
Follow(step) ==
  /\ Idle /\ Shown
  /\ view.page + step \in 1..view.pages
  /\ Ask(view.tab, view.search, view.page + step, view.size, view.days, step = 1)

\* The number of events decides which page is shown.
Count ==
  /\ request.stage = "count"
  /\ LET size == SizeOf(request)
         total == Cardinality(Matching(request, today))
         pages == PagesOf(total, size)
     IN  request' = [stage |-> "read", tab |-> request.tab, search |-> request.search,
                     days |-> request.days, next |-> request.next, day |-> today,
                     size |-> size, total |-> total, pages |-> pages,
                     page |-> CurrentPage(request.page, pages)]
  /\ changed' = FALSE
  /\ UNCHANGED <<table, today, site, own, view, walk>>

\* What the visitor has seen of the list, if nothing has changed.
Walked(rows) ==
  IF changed THEN Broken
  ELSE IF request.page = 1 THEN rows
  ELSE IF request.next /\ walk # Broken THEN walk \o rows
  ELSE Broken

Show ==
  /\ request.stage = "read"
  /\ LET rows == PageRows(request, request.page, request.size, request.day)
     IN  /\ view' = [tab |-> request.tab, search |-> request.search,
                     days |-> request.days,
                     size |-> request.size, total |-> request.total,
                     page |-> request.page, pages |-> request.pages,
                     rows |-> rows, torn |-> changed]
         /\ walk' = Walked(rows)
  /\ request' = NoRequest
  /\ UNCHANGED <<table, today, site, own, changed>>

-----------------------------------------------------------------------------
\* The page of a day has what starts on it and what goes on.

StartsOn(day) == {e \in Stored : table[e].start = day}
OnDate(day) ==
  {e \in Stored :
     /\ table[e].start # Absent
     /\ \/ table[e].start = day
        \/ table[e].end # Absent /\ table[e].start <= day /\ day <= table[e].end}

-----------------------------------------------------------------------------
ListingNext ==
  \/ \E e \in Event : Drop(e) \/ \E r \in RenditionsOf[e] : Write(e, r)
  \/ Midnight
  \/ \E n \in Saved : SaveSettings(n) \/ SavePreference(n)
  \/ DropPreference
  \/ \E tab \in Tab, search \in BOOLEAN, a \in Asked : OpenAddress(tab, search, a)
  \/ \E search \in BOOLEAN : Search(search)
  \/ \E step \in {-1, 1} : Follow(step)
  \/ Count \/ Show

ListingSpec == ListingInit /\ [][ListingNext]_listingVars

-----------------------------------------------------------------------------
\* Whatever is typed in, the window and the size that reach the queries are
\* within their bounds.
ListingTypeOK ==
  /\ \A e \in Stored :
       /\ [start |-> table[e].start, end |-> table[e].end, hit |-> table[e].hit]
            \in RenditionsOf[e]
       /\ table[e].seen \in 1..today
  /\ today \in Day
  /\ {site, own} \subseteq 1..MaxPageSize \union {Absent}
  /\ request.stage \in {"none", "count", "read"}
  /\ request.stage # "none" => request.tab \in Tab /\ request.days \in 1..365
  /\ request.stage = "read" => request.size \in 1..MaxPageSize
  /\ Shown => view.tab \in Tab /\ view.rows \in Seq(Event)
  /\ walk = Broken \/ walk \in Seq(Event)
  /\ changed \in BOOLEAN

\* What a visitor may rely on.

\* Whatever is typed into the URL and however the table shrinks: a page that
\* exists is shown, of a size that was allowed, and its footer ("Showing a to b
\* of n") tells the rows above it unless the table changed between the queries.
FirstShown(v) == IF v.total = 0 THEN 0 ELSE (v.page - 1) * v.size + 1
LastShown(v) == Lower((v.page - 1) * v.size + Len(v.rows), v.total)
PageExists ==
  Shown =>
    /\ Len(view.rows) <= view.size
    /\ view.page \in 1..view.pages
    /\ ~ view.torn =>
         /\ view.rows = <<>> <=> view.total = 0
         /\ view.total > 0 => Len(view.rows) = LastShown(view) - FirstShown(view) + 1

\* Whoever follows the links from the first page on has seen every event of the
\* list up to the current page once and in order, even if somebody changes the
\* number of rows meanwhile.
WalkSeesAll ==
  Shown /\ walk # Broken =>
    walk = SubSeq(Listed(view, today), 1, Lower(view.page * view.size, view.total))

\* No event that goes on or is to come falls between the tab of upcoming events
\* and the page of today.
StillReachable ==
  \A e \in Stored :
    LET last == IF table[e].end = Absent THEN table[e].start ELSE table[e].end
    IN  table[e].start # Absent /\ last >= today =>
          \/ e \in Matching([tab |-> "upcoming", search |-> FALSE], today)
          \/ e \in OnDate(today)

-----------------------------------------------------------------------------
\* The inductive form of PageExists and WalkSeesAll: what a request and the
\* page shown are made of, and how far whoever pages has come, also between
\* the click on a link, the count and the read.
Row == [start : Nat \cup {Absent}, end : Nat \cup {Absent}, hit : BOOLEAN,
        seen : Nat \ {0}]
StoreOK == table \in [Event -> Row \cup {NoRow}]

RequestOK ==
  /\ request.stage # "none" =>
       request.search \in BOOLEAN /\ request.page \in Int /\ request.next \in BOOLEAN
  /\ request.stage = "count" => request.size \in Int
  /\ request.stage = "read" =>
       /\ request.day \in Nat /\ request.total \in Nat
       /\ request.pages = PagesOf(request.total, request.size)
       /\ request.page \in 1..request.pages
       /\ ~ changed => /\ request.day = today
                       /\ request.total = Cardinality(Matching(request, today))

ViewOK ==
  Shown =>
    /\ view.search \in BOOLEAN
    /\ view.days \in 1..365
    /\ view.size \in 1..MaxPageSize
    /\ view.total \in Nat
    /\ view.pages = PagesOf(view.total, view.size)
    /\ walk # Broken => view.total = Cardinality(Matching(view, today))

\* What was seen before the page that a link to the next page asks for.
SeenBefore(q) == SubSeq(Listed(q, today), 1, (q.page - 1) * q.size)
NextOK ==
  walk # Broken /\ request.stage # "none" /\ request.next =>
    /\ request.size \in 1..MaxPageSize
    /\ request.page # 1
    /\ request.page \in 1..PagesOf(Cardinality(Matching(request, today)), request.size)
    /\ walk = SeenBefore(request)
    /\ request.stage = "read" => ~ changed

ListingInv ==
  ListingTypeOK /\ StoreOK /\ RequestOK /\ ViewOK /\ NextOK /\ PageExists /\ WalkSeesAll
=============================================================================
